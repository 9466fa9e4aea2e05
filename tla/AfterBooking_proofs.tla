----------------------------- MODULE AfterBooking_proofs -----------------------------
(***************************************************************************)
(* Proofs about what becomes of a booking once it is made:                 *)
(*   - Notifications, for any number of bookings and retries and any       *)
(*     settings;                                                           *)
(*   - BookingLifecycle, for any number of handlers of one booking, any    *)
(*     start and any window;                                               *)
(*   - how the two fit: what those handlers do, read and write apart, is   *)
(*     what the requests of the notification model do in one step.         *)
(* A lemma <name>Step says that every step keeps a conjunct of the         *)
(* inductive invariant, IInv or LifeIInv; the theorems combine them.       *)
(***************************************************************************)
EXTENDS Notifications, BookingLifecycle, TLAPS

CONSTANT Bound   \* bound: cancellation mails, where the two models meet

---------------------------------------------------------------------------
(* The notification worker *)

\* A booking has a task from the moment it is committed.
Started == \A b \in Bookings : row[b] = "none" <=> task[b] = "none"

\* The worker's task is the one that is marked as running.
OneTask == \A b \in Bookings : task[b] = "running" <=> Processing(b)

\* An attempt that has not come to a channel yet has reached it at most once for
\* each attempt before; the endpoint is reached by the step that ends the task.
WithinRetries ==
  \A b \in Bookings :
    LET ahead == task[b] \in Waiting \cup {"none"} \/ InHand(b, "link") \/ InHand(b, "customer")
    IN /\ ahead => copies[b].customer <= retries[b]
       /\ ahead \/ InHand(b, "cast") => copies[b].cast <= retries[b]

IInv ==
  /\ TypeOK /\ Started /\ OneTask /\ WithinRetries
  /\ NoFlood /\ ToldInOrder /\ NoticesJustified

---------------------------------------------------------------------------
\* Advancing keeps the task in hand, with what it read.
LEMMA AdvanceKeepsHand ==
  ASSUME worker \in Hands, NEW s \in Steps, Advance(s)
  PROVE  /\ worker' \in Hands /\ worker'.step = s
         /\ worker'.booking = worker.booking /\ worker'.on = worker.on
BY DEF Advance, Hands

\* Reaching a channel counts there and nowhere else.
LEMMA ReachCounts ==
  ASSUME copies \in [Bookings -> [Channels \cup {"notice"} -> Nat]],
         NEW b \in Bookings, NEW c \in Channels \cup {"notice"}, Reach(b, c)
  PROVE  /\ copies' \in [Bookings -> [Channels \cup {"notice"} -> Nat]]
         /\ copies'[b][c] = copies[b][c] + 1
         /\ \A d \in Bookings, e \in Channels \cup {"notice"} :
              (d # b \/ e # c) => copies'[d][e] = copies[d][e]
<1> DEFINE C == Channels \cup {"notice"}
           counted == [copies[b] EXCEPT ![c] = @ + 1]
<1>1. copies[b] \in [C -> Nat]
  OBVIOUS
<1>2. /\ counted \in [C -> Nat] /\ counted[c] = copies[b][c] + 1
      /\ \A e \in C : e # c => counted[e] = copies[b][e]
  BY <1>1
<1>3. copies' = [copies EXCEPT ![b] = counted]
  BY DEF Reach
<1> HIDE DEF C, counted
<1>4. /\ copies' \in [Bookings -> [C -> Nat]] /\ copies'[b] = counted
      /\ \A d \in Bookings : d # b => copies'[d] = copies[d]
  BY <1>2, <1>3 DEF C
<1>5. QED
  BY <1>2, <1>4 DEF C

\* Every variable keeps its type; a retry is only counted below max_retries.
LEMMA TypeOKStep == ASSUME IInv, [Next]_vars PROVE TypeOK'
<1> USE NotificationAssumption DEF Hands, Steps, Waiting, Settled, Channels
<1>a. TypeOK
  BY DEF IInv
<1>1. ASSUME NEW b \in Bookings, Create(b) PROVE TypeOK'
  BY <1>1, <1>a DEF Create, TypeOK, InHand
<1>2. ASSUME NEW b \in Bookings, Cancel(b) PROVE TypeOK'
  BY <1>2, <1>a DEF Cancel, Enqueue, TypeOK, InHand
<1>3. ASSUME NEW b \in Bookings, Close(b) PROVE TypeOK'
  BY <1>3, <1>a DEF Close, TypeOK, InHand
<1>4. ASSUME NEW b \in Bookings, Delete(b) PROVE TypeOK'
  BY <1>4, <1>a DEF Delete, Enqueue, TypeOK, InHand
<1>5. ASSUME NEW b \in Bookings, Fetch(b) PROVE TypeOK'
  BY <1>5, <1>a DEF Fetch, Settle, TypeOK, InHand
<1>6. ASSUME NEW b \in Bookings, StoreLink(b) PROVE TypeOK'
  <2>1. worker \in Hands
    BY <1>6, <1>a DEF TypeOK, StoreLink, InHand
  <2>2. worker' \in Hands \cup {None}
    <3>1. Advance("customer") \/ worker' = None
      BY <1>6 DEF StoreLink, Retry
    <3>2. QED
      BY <2>1, <3>1, AdvanceKeepsHand
  <2>3. copies' \in [Bookings -> [Channels \cup {"notice"} -> Nat]]
    BY <1>6, <1>a, ReachCounts DEF StoreLink, TypeOK
  <2>4. task' \in [Bookings -> Waiting \cup Settled \cup {"none", "running"}]
    BY <1>6, <1>a DEF StoreLink, Retry, TypeOK
  <2>5. retries' \in [Bookings -> 0..MaxRetries]
    BY <1>6, <1>a DEF StoreLink, Retry, TypeOK
  <2>6. QED
    BY <1>6, <1>a, <2>2, <2>3, <2>4, <2>5 DEF StoreLink, TypeOK
<1>7. ASSUME NEW b \in Bookings, MailCustomer(b) PROVE TypeOK'
  <2>1. worker \in Hands
    BY <1>7, <1>a DEF TypeOK, MailCustomer, Mail, Reach, InHand
  <2>2. worker' \in Hands \cup {None}
    <3>1. Advance("cast") \/ worker' = None
      BY <1>7 DEF MailCustomer, Mail, Reach, Retry
    <3>2. QED
      BY <2>1, <3>1, AdvanceKeepsHand
  <2>3. copies' \in [Bookings -> [Channels \cup {"notice"} -> Nat]]
    BY <1>7, <1>a, ReachCounts DEF MailCustomer, Mail, TypeOK
  <2>4. task' \in [Bookings -> Waiting \cup Settled \cup {"none", "running"}]
    BY <1>7, <1>a DEF MailCustomer, Mail, Reach, Retry, TypeOK
  <2>5. retries' \in [Bookings -> 0..MaxRetries]
    BY <1>7, <1>a DEF MailCustomer, Mail, Reach, Retry, TypeOK
  <2>6. QED
    BY <1>7, <1>a, <2>2, <2>3, <2>4, <2>5 DEF MailCustomer, Mail, Reach, TypeOK
<1>8. ASSUME NEW b \in Bookings, MailCast(b) PROVE TypeOK'
  <2>1. worker \in Hands
    BY <1>8, <1>a DEF TypeOK, MailCast, Mail, Reach, InHand
  <2>2. worker' \in Hands \cup {None}
    <3>1. Advance("hook") \/ worker' = None
      BY <1>8 DEF MailCast, Mail, Reach, Retry
    <3>2. QED
      BY <2>1, <3>1, AdvanceKeepsHand
  <2>3. copies' \in [Bookings -> [Channels \cup {"notice"} -> Nat]]
    BY <1>8, <1>a, ReachCounts DEF MailCast, Mail, TypeOK
  <2>4. task' \in [Bookings -> Waiting \cup Settled \cup {"none", "running"}]
    BY <1>8, <1>a DEF MailCast, Mail, Reach, Retry, TypeOK
  <2>5. retries' \in [Bookings -> 0..MaxRetries]
    BY <1>8, <1>a DEF MailCast, Mail, Reach, Retry, TypeOK
  <2>6. QED
    BY <1>8, <1>a, <2>2, <2>3, <2>4, <2>5 DEF MailCast, Mail, Reach, TypeOK
<1>9. ASSUME NEW b \in Bookings, CallWebhook(b) PROVE TypeOK'
  <2>1. copies' \in [Bookings -> [Channels \cup {"notice"} -> Nat]]
    BY <1>9, <1>a, ReachCounts DEF CallWebhook, TypeOK
  <2>2. QED
    BY <1>9, <1>a, <2>1 DEF CallWebhook, Settle, TypeOK
<1>10. ASSUME NEW b \in Bookings, FetchNotice(b) PROVE TypeOK'
  BY <1>10, <1>a DEF FetchNotice, TypeOK, InHand
<1>11. ASSUME NEW b \in Bookings, MailNotice(b) PROVE TypeOK'
  <2>1. copies' \in [Bookings -> [Channels \cup {"notice"} -> Nat]]
    BY <1>11, <1>a, ReachCounts DEF MailNotice, TypeOK
  <2>2. QED
    BY <1>11, <1>a, <2>1 DEF MailNotice, TypeOK
<1>12. ASSUME NEW b \in Bookings, CountdownOver(b) PROVE TypeOK'
  BY <1>12, <1>a DEF CountdownOver, TypeOK, InHand
<1>13. ASSUME Crash PROVE TypeOK'
  BY <1>13, <1>a DEF Crash, Settle, TypeOK, InHand
<1>14. ASSUME UNCHANGED vars PROVE TypeOK'
  BY <1>14, <1>a DEF vars, TypeOK, InHand
<1> QED
  BY <1>1, <1>2, <1>3, <1>4, <1>5, <1>6, <1>7, <1>8, <1>9, <1>10, <1>11, <1>12, <1>13, <1>14
       DEF Next, Request, WorkerStep

\* Only the creation of a booking makes its task.
LEMMA StartedStep == ASSUME IInv, [Next]_vars PROVE Started'
<1> USE NotificationAssumption DEF Hands, Steps, Waiting, Settled, Channels
<1>a. TypeOK /\ Started /\ OneTask
  BY DEF IInv
<1>1. ASSUME NEW b \in Bookings, Create(b) PROVE Started'
  BY <1>1, <1>a DEF Create, Started, OneTask, Processing, TypeOK, InHand
<1>2. ASSUME NEW b \in Bookings, Cancel(b) PROVE Started'
  BY <1>2, <1>a DEF Cancel, Enqueue, Started, OneTask, Processing, TypeOK, InHand
<1>3. ASSUME NEW b \in Bookings, Close(b) PROVE Started'
  BY <1>3, <1>a DEF Close, Started, OneTask, Processing, TypeOK, InHand
<1>4. ASSUME NEW b \in Bookings, Delete(b) PROVE Started'
  BY <1>4, <1>a DEF Delete, Enqueue, Started, OneTask, Processing, TypeOK, InHand
<1>5. ASSUME NEW b \in Bookings, Fetch(b) PROVE Started'
  BY <1>5, <1>a DEF Fetch, Settle, Started, OneTask, Processing, TypeOK, InHand
<1>6. ASSUME NEW b \in Bookings, StoreLink(b) PROVE Started'
  BY <1>6, <1>a DEF StoreLink, InHand, Advance, Retry, Started, OneTask, Processing,
       TypeOK
<1>7. ASSUME NEW b \in Bookings, MailCustomer(b) PROVE Started'
  BY <1>7, <1>a DEF MailCustomer, Mail, InHand, Advance, Retry, Reach, Started, OneTask,
       Processing, TypeOK
<1>8. ASSUME NEW b \in Bookings, MailCast(b) PROVE Started'
  BY <1>8, <1>a DEF MailCast, Mail, InHand, Advance, Retry, Reach, Started, OneTask,
       Processing, TypeOK
<1>9. ASSUME NEW b \in Bookings, CallWebhook(b) PROVE Started'
  BY <1>9, <1>a DEF CallWebhook, InHand, Settle, Reach, Started, OneTask, Processing,
       TypeOK
<1>10. ASSUME NEW b \in Bookings, FetchNotice(b) PROVE Started'
  BY <1>10, <1>a DEF FetchNotice, Started, OneTask, Processing, TypeOK, InHand
<1>11. ASSUME NEW b \in Bookings, MailNotice(b) PROVE Started'
  BY <1>11, <1>a DEF MailNotice, InHand, Reach, Started, OneTask, Processing, TypeOK
<1>12. ASSUME NEW b \in Bookings, CountdownOver(b) PROVE Started'
  BY <1>12, <1>a DEF CountdownOver, Started, OneTask, Processing, TypeOK, InHand
<1>13. ASSUME Crash PROVE Started'
  BY <1>13, <1>a DEF Crash, Settle, Started, OneTask, Processing, TypeOK, InHand
<1>14. ASSUME UNCHANGED vars PROVE Started'
  BY <1>14, <1>a DEF vars, Started, OneTask, Processing, TypeOK, InHand
<1> QED
  BY <1>1, <1>2, <1>3, <1>4, <1>5, <1>6, <1>7, <1>8, <1>9, <1>10, <1>11, <1>12, <1>13, <1>14
       DEF Next, Request, WorkerStep

\* A task is running exactly while the worker has it in hand.
LEMMA OneTaskStep == ASSUME IInv, [Next]_vars PROVE OneTask'
<1> USE NotificationAssumption DEF Hands, Steps, Waiting, Settled, Channels
<1>a. TypeOK /\ OneTask /\ Started
  BY DEF IInv
<1>1. ASSUME NEW b \in Bookings, Create(b) PROVE OneTask'
  BY <1>1, <1>a DEF Create, OneTask, Started, TypeOK, Processing, InHand
<1>2. ASSUME NEW b \in Bookings, Cancel(b) PROVE OneTask'
  BY <1>2, <1>a DEF Cancel, Enqueue, OneTask, Started, TypeOK, Processing, InHand
<1>3. ASSUME NEW b \in Bookings, Close(b) PROVE OneTask'
  BY <1>3, <1>a DEF Close, OneTask, Started, TypeOK, Processing, InHand
<1>4. ASSUME NEW b \in Bookings, Delete(b) PROVE OneTask'
  BY <1>4, <1>a DEF Delete, Enqueue, OneTask, Started, TypeOK, Processing, InHand
<1>5. ASSUME NEW b \in Bookings, Fetch(b) PROVE OneTask'
  BY <1>5, <1>a DEF Fetch, Settle, OneTask, Started, TypeOK, Processing, InHand
<1>6. ASSUME NEW b \in Bookings, StoreLink(b) PROVE OneTask'
  BY <1>6, <1>a DEF StoreLink, InHand, Advance, Retry, OneTask, Started, TypeOK,
       Processing
<1>7. ASSUME NEW b \in Bookings, MailCustomer(b) PROVE OneTask'
  BY SMTT(30), <1>7, <1>a DEF MailCustomer, Mail, InHand, Advance, Retry, Reach, OneTask, Started,
       TypeOK, Processing
<1>8. ASSUME NEW b \in Bookings, MailCast(b) PROVE OneTask'
  BY SMTT(30), <1>8, <1>a DEF MailCast, Mail, InHand, Advance, Retry, Reach, OneTask, Started,
       TypeOK, Processing
<1>9. ASSUME NEW b \in Bookings, CallWebhook(b) PROVE OneTask'
  BY <1>9, <1>a DEF CallWebhook, InHand, Settle, Reach, OneTask, Started, TypeOK,
       Processing
<1>10. ASSUME NEW b \in Bookings, FetchNotice(b) PROVE OneTask'
  BY <1>10, <1>a DEF FetchNotice, OneTask, Started, TypeOK, Processing, InHand
<1>11. ASSUME NEW b \in Bookings, MailNotice(b) PROVE OneTask'
  BY <1>11, <1>a DEF MailNotice, InHand, Reach, OneTask, Started, TypeOK, Processing
<1>12. ASSUME NEW b \in Bookings, CountdownOver(b) PROVE OneTask'
  BY <1>12, <1>a DEF CountdownOver, OneTask, Started, TypeOK, Processing, InHand
<1>13. ASSUME Crash PROVE OneTask'
  BY <1>13, <1>a DEF Crash, Settle, OneTask, Started, TypeOK, Processing, InHand
<1>14. ASSUME UNCHANGED vars PROVE OneTask'
  BY <1>14, <1>a DEF vars, OneTask, Started, TypeOK, Processing, InHand
<1> QED
  BY <1>1, <1>2, <1>3, <1>4, <1>5, <1>6, <1>7, <1>8, <1>9, <1>10, <1>11, <1>12, <1>13, <1>14
       DEF Next, Request, WorkerStep

\* A retry raises the bound by the one copy the attempt may have sent.
LEMMA WithinRetriesStep == ASSUME IInv, [Next]_vars PROVE WithinRetries'
<1> USE NotificationAssumption DEF Hands, Steps, Waiting, Settled, Channels
<1>a. TypeOK /\ Started /\ OneTask /\ NoFlood /\ WithinRetries
  BY DEF IInv
<1>1. ASSUME NEW b \in Bookings, Create(b) PROVE WithinRetries'
  BY <1>1, <1>a DEF Create, WithinRetries, NoFlood, OneTask, Started, TypeOK, InHand,
       Processing
<1>2. ASSUME NEW b \in Bookings, Cancel(b) PROVE WithinRetries'
  BY <1>2, <1>a DEF Cancel, Enqueue, WithinRetries, NoFlood, OneTask, Started, TypeOK, InHand,
       Processing
<1>3. ASSUME NEW b \in Bookings, Close(b) PROVE WithinRetries'
  BY <1>3, <1>a DEF Close, WithinRetries, NoFlood, OneTask, Started, TypeOK, InHand,
       Processing
<1>4. ASSUME NEW b \in Bookings, Delete(b) PROVE WithinRetries'
  BY <1>4, <1>a DEF Delete, Enqueue, WithinRetries, NoFlood, OneTask, Started, TypeOK, InHand,
       Processing
<1>5. ASSUME NEW b \in Bookings, Fetch(b) PROVE WithinRetries'
  BY <1>5, <1>a DEF Fetch, Settle, WithinRetries, NoFlood, OneTask, Started, TypeOK,
       InHand, Processing
<1>6. ASSUME NEW b \in Bookings, StoreLink(b) PROVE WithinRetries'
  BY <1>6, <1>a DEF StoreLink, InHand, Advance, Retry, WithinRetries, NoFlood, OneTask,
       Started, TypeOK, Processing
<1>7. ASSUME NEW b \in Bookings, MailCustomer(b) PROVE WithinRetries'
  <2>1. ASSUME NEW d \in Bookings PROVE copies'[d].cast = copies[d].cast
    BY <1>7, <1>a, ReachCounts DEF MailCustomer, Mail, TypeOK
  <2>2. ASSUME NEW d \in Bookings, d # b
        PROVE  copies'[d].customer = copies[d].customer
    BY <1>7, <1>a, <2>2, ReachCounts DEF MailCustomer, Mail, TypeOK
  <2>3. /\ copies'[b].customer \in Nat /\ copies[b].customer \in Nat
        /\ copies'[b].customer <= copies[b].customer + 1
    BY <1>7, <1>a, ReachCounts DEF MailCustomer, Mail, TypeOK
  <2>4. worker.booking = b /\ worker # None /\ worker.step = "customer"
    BY <1>7 DEF MailCustomer, Mail, InHand
  <2>5. CASE Advance("cast") /\ UNCHANGED <<task, retries>>
    BY <1>7, <1>a, <2>1, <2>2, <2>3, <2>4, <2>5
       DEF InHand, Advance, WithinRetries, OneTask, TypeOK, Processing
  <2>6. CASE Retry(b)
    BY <1>7, <1>a, <2>1, <2>2, <2>3, <2>4, <2>6
       DEF InHand, Retry, WithinRetries, OneTask, TypeOK, Processing
  <2>7. QED
    BY <1>7, <2>5, <2>6 DEF MailCustomer, Mail
<1>8. ASSUME NEW b \in Bookings, MailCast(b) PROVE WithinRetries'
  BY <1>8, <1>a DEF MailCast, Mail, InHand, Advance, Retry, Reach, WithinRetries,
       NoFlood, OneTask, Started, TypeOK, Processing
<1>9. ASSUME NEW b \in Bookings, CallWebhook(b) PROVE WithinRetries'
  BY <1>9, <1>a DEF CallWebhook, InHand, Settle, Reach, WithinRetries, NoFlood, OneTask,
       Started, TypeOK, Processing
<1>10. ASSUME NEW b \in Bookings, FetchNotice(b) PROVE WithinRetries'
  BY <1>10, <1>a DEF FetchNotice, WithinRetries, NoFlood, OneTask, Started, TypeOK,
       InHand, Processing
<1>11. ASSUME NEW b \in Bookings, MailNotice(b) PROVE WithinRetries'
  BY <1>11, <1>a DEF MailNotice, InHand, Reach, WithinRetries, NoFlood, OneTask,
       Started, TypeOK, Processing
<1>12. ASSUME NEW b \in Bookings, CountdownOver(b) PROVE WithinRetries'
  BY <1>12, <1>a DEF CountdownOver, WithinRetries, NoFlood, OneTask, Started, TypeOK,
       InHand, Processing
<1>13. ASSUME Crash PROVE WithinRetries'
  BY <1>13, <1>a DEF Crash, Settle, WithinRetries, NoFlood, OneTask, Started, TypeOK,
       InHand, Processing
<1>14. ASSUME UNCHANGED vars PROVE WithinRetries'
  BY <1>14, <1>a DEF vars, WithinRetries, NoFlood, OneTask, Started, TypeOK, InHand,
       Processing
<1> QED
  BY <1>1, <1>2, <1>3, <1>4, <1>5, <1>6, <1>7, <1>8, <1>9, <1>10, <1>11, <1>12, <1>13, <1>14
       DEF Next, Request, WorkerStep

\* Each attempt adds at most one copy of a channel.
LEMMA NoFloodStep == ASSUME IInv, [Next]_vars PROVE NoFlood'
<1> USE NotificationAssumption DEF Hands, Steps, Waiting, Settled, Channels
<1>a. TypeOK /\ Started /\ OneTask /\ NoFlood /\ WithinRetries
  BY DEF IInv
<1>1. ASSUME NEW b \in Bookings, Create(b) PROVE NoFlood'
  BY <1>1, <1>a DEF Create, NoFlood, WithinRetries, OneTask, Started, TypeOK, InHand,
       Processing
<1>2. ASSUME NEW b \in Bookings, Cancel(b) PROVE NoFlood'
  BY <1>2, <1>a DEF Cancel, Enqueue, NoFlood, WithinRetries, OneTask, Started, TypeOK, InHand,
       Processing
<1>3. ASSUME NEW b \in Bookings, Close(b) PROVE NoFlood'
  BY <1>3, <1>a DEF Close, NoFlood, WithinRetries, OneTask, Started, TypeOK, InHand,
       Processing
<1>4. ASSUME NEW b \in Bookings, Delete(b) PROVE NoFlood'
  BY <1>4, <1>a DEF Delete, Enqueue, NoFlood, WithinRetries, OneTask, Started, TypeOK, InHand,
       Processing
<1>5. ASSUME NEW b \in Bookings, Fetch(b) PROVE NoFlood'
  BY <1>5, <1>a DEF Fetch, Settle, NoFlood, WithinRetries, OneTask, Started, TypeOK,
       InHand, Processing
<1>6. ASSUME NEW b \in Bookings, StoreLink(b) PROVE NoFlood'
  BY <1>6, <1>a DEF StoreLink, InHand, Advance, Retry, NoFlood, WithinRetries, OneTask,
       Started, TypeOK, Processing
<1>7. ASSUME NEW b \in Bookings, MailCustomer(b) PROVE NoFlood'
  BY <1>7, <1>a DEF MailCustomer, Mail, InHand, Advance, Retry, Reach, NoFlood,
       WithinRetries, OneTask, Started, TypeOK, Processing
<1>8. ASSUME NEW b \in Bookings, MailCast(b) PROVE NoFlood'
  BY <1>8, <1>a DEF MailCast, Mail, InHand, Advance, Retry, Reach, NoFlood,
       WithinRetries, OneTask, Started, TypeOK, Processing
<1>9. ASSUME NEW b \in Bookings, CallWebhook(b) PROVE NoFlood'
  BY <1>9, <1>a DEF CallWebhook, InHand, Settle, Reach, NoFlood, WithinRetries, OneTask,
       Started, TypeOK, Processing
<1>10. ASSUME NEW b \in Bookings, FetchNotice(b) PROVE NoFlood'
  BY <1>10, <1>a DEF FetchNotice, NoFlood, WithinRetries, OneTask, Started, TypeOK,
       InHand, Processing
<1>11. ASSUME NEW b \in Bookings, MailNotice(b) PROVE NoFlood'
  BY <1>11, <1>a DEF MailNotice, InHand, Reach, NoFlood, WithinRetries, OneTask,
       Started, TypeOK, Processing
<1>12. ASSUME NEW b \in Bookings, CountdownOver(b) PROVE NoFlood'
  BY <1>12, <1>a DEF CountdownOver, NoFlood, WithinRetries, OneTask, Started, TypeOK,
       InHand, Processing
<1>13. ASSUME Crash PROVE NoFlood'
  BY <1>13, <1>a DEF Crash, Settle, NoFlood, WithinRetries, OneTask, Started, TypeOK,
       InHand, Processing
<1>14. ASSUME UNCHANGED vars PROVE NoFlood'
  BY <1>14, <1>a DEF vars, NoFlood, WithinRetries, OneTask, Started, TypeOK, InHand,
       Processing
<1> QED
  BY <1>1, <1>2, <1>3, <1>4, <1>5, <1>6, <1>7, <1>8, <1>9, <1>10, <1>11, <1>12, <1>13, <1>14
       DEF Next, Request, WorkerStep

\* The worker comes to the next channel only by reaching the one before.
LEMMA ToldInOrderStep == ASSUME IInv, [Next]_vars PROVE ToldInOrder'
<1> USE NotificationAssumption DEF Hands, Steps, Waiting, Settled, Channels
<1>a. TypeOK /\ ToldInOrder
  BY DEF IInv
<1>1. ASSUME NEW b \in Bookings, Create(b) PROVE ToldInOrder'
  BY <1>1, <1>a DEF Create, ToldInOrder, TypeOK, InHand
<1>2. ASSUME NEW b \in Bookings, Cancel(b) PROVE ToldInOrder'
  BY <1>2, <1>a DEF Cancel, Enqueue, ToldInOrder, TypeOK, InHand
<1>3. ASSUME NEW b \in Bookings, Close(b) PROVE ToldInOrder'
  BY <1>3, <1>a DEF Close, ToldInOrder, TypeOK, InHand
<1>4. ASSUME NEW b \in Bookings, Delete(b) PROVE ToldInOrder'
  BY <1>4, <1>a DEF Delete, Enqueue, ToldInOrder, TypeOK, InHand
<1>5. ASSUME NEW b \in Bookings, Fetch(b) PROVE ToldInOrder'
  BY <1>5, <1>a DEF Fetch, Settle, ToldInOrder, TypeOK, InHand
<1>6. ASSUME NEW b \in Bookings, StoreLink(b) PROVE ToldInOrder'
  BY <1>6, <1>a DEF StoreLink, InHand, Advance, Retry, ToldInOrder, TypeOK
<1>7. ASSUME NEW b \in Bookings, MailCustomer(b) PROVE ToldInOrder'
  BY SMTT(30), <1>7, <1>a DEF MailCustomer, Mail, InHand, Advance, Retry, Reach, ToldInOrder,
       TypeOK
<1>8. ASSUME NEW b \in Bookings, MailCast(b) PROVE ToldInOrder'
  <2>1. worker \in Hands /\ worker.booking = b /\ worker.step = "cast"
    BY <1>8, <1>a DEF TypeOK, MailCast, Mail, InHand
  <2>2. CASE worker' = None
    BY <1>8, <2>2 DEF ToldInOrder, InHand
  <2>3. CASE Advance("hook")
    <3>1. /\ worker'.step = "hook" /\ worker'.booking = b /\ worker'.on = worker.on
      BY <2>1, <2>3, AdvanceKeepsHand
    <3>2. "customer" \in worker.on => copies[b].customer > 0
      BY <2>1, <1>a DEF ToldInOrder, InHand
    <3>3. copies'[b].customer >= copies[b].customer
      BY <1>8, <1>a, ReachCounts DEF MailCast, Mail, TypeOK
    <3>4. "cast" \in worker.on => copies'[b].cast > 0
      BY <1>8, <1>a, <2>3, <2>1 DEF MailCast, Mail, Reach, Retry, Advance, TypeOK
    <3>5. worker.on \subseteq Channels
      BY <2>1
    <3>6. copies'[b].customer \in Nat /\ copies[b].customer \in Nat
      BY <1>8, <1>a DEF MailCast, Mail, Reach, TypeOK
    <3>7. QED
      BY <3>1, <3>2, <3>3, <3>4, <3>5, <3>6 DEF ToldInOrder, InHand
  <2>4. QED
    BY <1>8, <2>2, <2>3 DEF MailCast, Mail, Retry
<1>9. ASSUME NEW b \in Bookings, CallWebhook(b) PROVE ToldInOrder'
  BY <1>9, <1>a DEF CallWebhook, InHand, Settle, Reach, ToldInOrder, TypeOK
<1>10. ASSUME NEW b \in Bookings, FetchNotice(b) PROVE ToldInOrder'
  BY <1>10, <1>a DEF FetchNotice, ToldInOrder, TypeOK, InHand
<1>11. ASSUME NEW b \in Bookings, MailNotice(b) PROVE ToldInOrder'
  BY <1>11, <1>a DEF MailNotice, InHand, Reach, ToldInOrder, TypeOK
<1>12. ASSUME NEW b \in Bookings, CountdownOver(b) PROVE ToldInOrder'
  BY <1>12, <1>a DEF CountdownOver, ToldInOrder, TypeOK, InHand
<1>13. ASSUME Crash PROVE ToldInOrder'
  BY <1>13, <1>a DEF Crash, Settle, ToldInOrder, TypeOK, InHand
<1>14. ASSUME UNCHANGED vars PROVE ToldInOrder'
  BY <1>14, <1>a DEF vars, ToldInOrder, TypeOK, InHand
<1> QED
  BY <1>1, <1>2, <1>3, <1>4, <1>5, <1>6, <1>7, <1>8, <1>9, <1>10, <1>11, <1>12, <1>13, <1>14
       DEF Next, Request, WorkerStep

\* A notice moves from the queue to the hand to its receiver, and only what
\* closes or deletes the booking enqueues one.
LEMMA NoticesJustifiedStep == ASSUME IInv, [Next]_vars PROVE NoticesJustified'
<1> USE NotificationAssumption DEF Hands, Steps, Waiting, Settled, Channels
<1>a. TypeOK /\ NoticesJustified
  BY DEF IInv
<1>1. ASSUME NEW b \in Bookings, Create(b) PROVE NoticesJustified'
  BY <1>1, <1>a DEF Create, NoticesJustified, TypeOK, InHand
<1>2. ASSUME NEW b \in Bookings, Cancel(b) PROVE NoticesJustified'
  BY <1>2, <1>a DEF Cancel, Enqueue, NoticesJustified, TypeOK, InHand
<1>3. ASSUME NEW b \in Bookings, Close(b) PROVE NoticesJustified'
  BY <1>3, <1>a DEF Close, NoticesJustified, TypeOK, InHand
<1>4. ASSUME NEW b \in Bookings, Delete(b) PROVE NoticesJustified'
  BY <1>4, <1>a DEF Delete, Enqueue, NoticesJustified, TypeOK, InHand
<1>5. ASSUME NEW b \in Bookings, Fetch(b) PROVE NoticesJustified'
  BY <1>5, <1>a DEF Fetch, Settle, NoticesJustified, TypeOK, InHand
<1>6. ASSUME NEW b \in Bookings, StoreLink(b) PROVE NoticesJustified'
  BY <1>6, <1>a DEF StoreLink, InHand, Advance, Retry, NoticesJustified, TypeOK
<1>7. ASSUME NEW b \in Bookings, MailCustomer(b) PROVE NoticesJustified'
  <2>1. ASSUME NEW d \in Bookings PROVE copies'[d].notice = copies[d].notice
    BY <1>7, <1>a, ReachCounts DEF MailCustomer, Mail, TypeOK
  <2>2. ASSUME NEW d \in Bookings PROVE ~InHand(d, "notice")'
    BY <1>7, <1>a DEF MailCustomer, Mail, InHand, Advance, Retry, TypeOK
  <2>3. QED
    BY <1>7, <1>a, <2>1, <2>2 DEF MailCustomer, Mail, InHand, NoticesJustified, TypeOK
<1>8. ASSUME NEW b \in Bookings, MailCast(b) PROVE NoticesJustified'
  <2>1. ASSUME NEW d \in Bookings PROVE copies'[d].notice = copies[d].notice
    BY <1>8, <1>a, ReachCounts DEF MailCast, Mail, TypeOK
  <2>2. ASSUME NEW d \in Bookings PROVE ~InHand(d, "notice")'
    BY <1>8, <1>a DEF MailCast, Mail, InHand, Advance, Retry, TypeOK
  <2>3. QED
    BY <1>8, <1>a, <2>1, <2>2 DEF MailCast, Mail, InHand, NoticesJustified, TypeOK
<1>9. ASSUME NEW b \in Bookings, CallWebhook(b) PROVE NoticesJustified'
  BY <1>9, <1>a DEF CallWebhook, InHand, Settle, Reach, NoticesJustified, TypeOK
<1>10. ASSUME NEW b \in Bookings, FetchNotice(b) PROVE NoticesJustified'
  BY <1>10, <1>a DEF FetchNotice, NoticesJustified, TypeOK, InHand
<1>11. ASSUME NEW b \in Bookings, MailNotice(b) PROVE NoticesJustified'
  BY <1>11, <1>a DEF MailNotice, InHand, Reach, NoticesJustified, TypeOK
<1>12. ASSUME NEW b \in Bookings, CountdownOver(b) PROVE NoticesJustified'
  BY <1>12, <1>a DEF CountdownOver, NoticesJustified, TypeOK, InHand
<1>13. ASSUME Crash PROVE NoticesJustified'
  BY <1>13, <1>a DEF Crash, Settle, NoticesJustified, TypeOK, InHand
<1>14. ASSUME UNCHANGED vars PROVE NoticesJustified'
  BY <1>14, <1>a DEF vars, NoticesJustified, TypeOK, InHand
<1> QED
  BY <1>1, <1>2, <1>3, <1>4, <1>5, <1>6, <1>7, <1>8, <1>9, <1>10, <1>11, <1>12, <1>13, <1>14
       DEF Next, Request, WorkerStep

---------------------------------------------------------------------------
\* IInv holds of every reachable state.
THEOREM Invariance == Spec => []IInv
<1>1. Init => IInv
  BY NotificationAssumption DEF Init, IInv, TypeOK, Started, OneTask, WithinRetries, NoFlood,
     ToldInOrder, NoticesJustified, Processing, InHand, Waiting, Channels
<1>2. IInv /\ [Next]_vars => IInv'
  BY TypeOKStep, StartedStep, OneTaskStep, WithinRetriesStep, NoFloodStep, ToldInOrderStep,
     NoticesJustifiedStep DEF IInv
<1>3. QED
  BY <1>1, <1>2, PTL DEF Spec

\* Nobody gets a confirmation more often than the task is attempted, and the
\* endpoint is called once, however often mails fail or their answers are lost
\* (bookings/tasks.py:94-106).
THEOREM NoFloodHolds == Spec => []NoFlood
<1>1. IInv => NoFlood
  BY DEF IInv
<1>2. QED
  BY <1>1, Invariance, PTL

\* The cast hears of a booking after the customer, the endpoint after both
\* (bookings/tasks.py:359-364, 96-106).
THEOREM ToldInOrderHolds == Spec => []ToldInOrder
<1>1. IInv => ToldInOrder
  BY DEF IInv
<1>2. QED
  BY <1>1, Invariance, PTL

\* Each cancellation mail enqueued is mailed once at most, and about a booking
\* that does not stand (bookings/public_views.py:480-493, bookings/views.py:331-336).
THEOREM NoticesJustifiedHolds == Spec => []NoticesJustified
<1>1. IInv => NoticesJustified
  BY DEF IInv
<1>2. QED
  BY <1>1, Invariance, PTL

\* A booking deleted while its task waits is never told: the task reads it
\* again from the id (bookings/tasks.py:85-92, README section 13).
THEOREM DeletedStaysQuietHolds == Spec => DeletedStaysQuiet
<1>1. IInv /\ [Next]_vars =>
        [\A b \in Bookings : (row[b] = "gone" /\ ~Processing(b)) => ~Processing(b)']_vars
  <2> SUFFICES ASSUME IInv, Next, NEW d \in Bookings, row[d] = "gone", ~Processing(d)
               PROVE  ~Processing(d)'
    OBVIOUS
  <2> USE NotificationAssumption DEF Hands, Steps, Channels, Processing, TypeOK
  <2>a. TypeOK
    BY DEF IInv
  <2>1. ASSUME NEW b \in Bookings, Create(b) PROVE ~Processing(d)'
    BY <2>1, <2>a DEF Create
  <2>2. ASSUME NEW b \in Bookings, Cancel(b) PROVE ~Processing(d)'
    BY <2>2, <2>a DEF Cancel, Enqueue
  <2>3. ASSUME NEW b \in Bookings, Close(b) PROVE ~Processing(d)'
    BY <2>3, <2>a DEF Close
  <2>4. ASSUME NEW b \in Bookings, Delete(b) PROVE ~Processing(d)'
    BY <2>4, <2>a DEF Delete, Enqueue
  <2>5. ASSUME NEW b \in Bookings, Fetch(b) PROVE ~Processing(d)'
    BY <2>5, <2>a DEF Fetch, Settle
  <2>6. ASSUME NEW b \in Bookings, StoreLink(b) PROVE ~Processing(d)'
    BY <2>6, <2>a DEF StoreLink, InHand, Advance, Retry
  <2>7. ASSUME NEW b \in Bookings, MailCustomer(b) PROVE ~Processing(d)'
    BY <2>7, <2>a DEF MailCustomer, Mail, InHand, Advance, Retry, Reach
  <2>8. ASSUME NEW b \in Bookings, MailCast(b) PROVE ~Processing(d)'
    BY <2>8, <2>a DEF MailCast, Mail, InHand, Advance, Retry, Reach
  <2>9. ASSUME NEW b \in Bookings, CallWebhook(b) PROVE ~Processing(d)'
    BY <2>9, <2>a DEF CallWebhook, InHand, Settle, Reach
  <2>10. ASSUME NEW b \in Bookings, FetchNotice(b) PROVE ~Processing(d)'
    BY <2>10, <2>a DEF FetchNotice
  <2>11. ASSUME NEW b \in Bookings, MailNotice(b) PROVE ~Processing(d)'
    BY <2>11, <2>a DEF MailNotice, InHand, Reach
  <2>12. ASSUME NEW b \in Bookings, CountdownOver(b) PROVE ~Processing(d)'
    BY <2>12, <2>a DEF CountdownOver
  <2>13. ASSUME Crash PROVE ~Processing(d)'
    BY <2>13, <2>a DEF Crash, Settle
  <2> QED
    BY <2>1, <2>2, <2>3, <2>4, <2>5, <2>6, <2>7, <2>8, <2>9, <2>10, <2>11, <2>12, <2>13 DEF Next, Request, WorkerStep
<1>2. QED
  BY <1>1, Invariance, PTL DEF Spec, DeletedStaysQuiet

---------------------------------------------------------------------------
(* The handlers of one booking *)

\* Only a core-time order is edited; only another booking has a customer with a token.
KindFits ==
  \A h \in Handlers :
    /\ kind[h] \in CoreKinds => coreTime
    /\ kind[h] \in CustomerKinds => ~coreTime

LifeIInv == LifeTypeOK /\ KindFits /\ ReportsCounted /\ MailedNotConfirmed

---------------------------------------------------------------------------
\* Every variable keeps its type.
LEMMA LifeTypeOKStep ==
  ASSUME LifeIInv, [LifeNext]_lifeVars
  PROVE  LifeTypeOK'
<1> USE LifecycleAssumption DEF Row, Roles, Statuses, Kinds,
     CustomerKinds, CoreKinds, StaffKinds, Deciding, SaveStatus,
     Answered, LifeTypeOK
<1>a. LifeTypeOK
  BY DEF LifeIInv
<1>1. ASSUME NEW h \in Handlers, Read(h) PROVE LifeTypeOK'
  BY <1>1, <1>a DEF Read, Refused, TooLate
<1>2. ASSUME NEW h \in Handlers, SaveFails(h) PROVE LifeTypeOK'
  BY <1>2, <1>a DEF SaveFails
<1>3. ASSUME NEW h \in Handlers, PublicCancel(h) PROVE LifeTypeOK'
  BY <1>3, <1>a DEF PublicCancel
<1>4. ASSUME NEW h \in Handlers, DashboardCancel(h) PROVE LifeTypeOK'
  BY <1>4, <1>a DEF DashboardCancel
<1>5. ASSUME NEW h \in Handlers, DashboardComplete(h) PROVE LifeTypeOK'
  BY <1>5, <1>a DEF DashboardComplete
<1>6. ASSUME NEW h \in Handlers, ApiComplete(h) PROVE LifeTypeOK'
  BY <1>6, <1>a DEF ApiComplete
<1>7. ASSUME NEW h \in Handlers, ApiDelete(h) PROVE LifeTypeOK'
  BY <1>7, <1>a DEF ApiDelete
<1>8. ASSUME NEW h \in Handlers, Report(h) PROVE LifeTypeOK'
  BY <1>8, <1>a DEF Report
<1>9. ASSUME NEW h \in Handlers, CoreEdit(h) PROVE LifeTypeOK'
  BY <1>9, <1>a DEF CoreEdit
<1>10. ASSUME NEW h \in Handlers, CoreDelete(h) PROVE LifeTypeOK'
  BY <1>10, <1>a DEF CoreDelete
<1>11. ASSUME Tick PROVE LifeTypeOK'
  BY <1>11, <1>a DEF Tick
<1>12. ASSUME UNCHANGED lifeVars PROVE LifeTypeOK'
  BY <1>12, <1>a DEF lifeVars
<1> QED
  BY <1>1, <1>2, <1>3, <1>4, <1>5, <1>6, <1>7, <1>8, <1>9, <1>10, <1>11, <1>12 DEF LifeNext

\* What a request asks for is fixed when it arrives.
LEMMA LifeKindFitsStep ==
  ASSUME LifeIInv, [LifeNext]_lifeVars
  PROVE  KindFits'
<1> USE LifecycleAssumption DEF Row, Roles, Statuses, Kinds,
     CustomerKinds, CoreKinds, StaffKinds, Deciding, SaveStatus,
     Answered, LifeTypeOK, KindFits
<1>a. LifeTypeOK /\ KindFits
  BY DEF LifeIInv
<1>1. ASSUME NEW h \in Handlers, Read(h) PROVE KindFits'
  BY <1>1, <1>a DEF Read, Refused, TooLate
<1>2. ASSUME NEW h \in Handlers, SaveFails(h) PROVE KindFits'
  BY <1>2, <1>a DEF SaveFails
<1>3. ASSUME NEW h \in Handlers, PublicCancel(h) PROVE KindFits'
  BY <1>3, <1>a DEF PublicCancel
<1>4. ASSUME NEW h \in Handlers, DashboardCancel(h) PROVE KindFits'
  BY <1>4, <1>a DEF DashboardCancel
<1>5. ASSUME NEW h \in Handlers, DashboardComplete(h) PROVE KindFits'
  BY <1>5, <1>a DEF DashboardComplete
<1>6. ASSUME NEW h \in Handlers, ApiComplete(h) PROVE KindFits'
  BY <1>6, <1>a DEF ApiComplete
<1>7. ASSUME NEW h \in Handlers, ApiDelete(h) PROVE KindFits'
  BY <1>7, <1>a DEF ApiDelete
<1>8. ASSUME NEW h \in Handlers, Report(h) PROVE KindFits'
  BY <1>8, <1>a DEF Report
<1>9. ASSUME NEW h \in Handlers, CoreEdit(h) PROVE KindFits'
  BY <1>9, <1>a DEF CoreEdit
<1>10. ASSUME NEW h \in Handlers, CoreDelete(h) PROVE KindFits'
  BY <1>10, <1>a DEF CoreDelete
<1>11. ASSUME Tick PROVE KindFits'
  BY <1>11, <1>a DEF Tick
<1>12. ASSUME UNCHANGED lifeVars PROVE KindFits'
  BY <1>12, <1>a DEF lifeVars
<1> QED
  BY <1>1, <1>2, <1>3, <1>4, <1>5, <1>6, <1>7, <1>8, <1>9, <1>10, <1>11, <1>12 DEF LifeNext

\* A report and its count are one transaction, on the row as it is.
LEMMA LifeReportsCountedStep ==
  ASSUME LifeIInv, [LifeNext]_lifeVars
  PROVE  ReportsCounted'
<1> USE LifecycleAssumption DEF Row, Roles, Statuses, Kinds,
     CustomerKinds, CoreKinds, StaffKinds, Deciding, SaveStatus,
     Answered, LifeTypeOK, ReportsCounted
<1>a. LifeTypeOK /\ ReportsCounted
  BY DEF LifeIInv
<1>1. ASSUME NEW h \in Handlers, Read(h) PROVE ReportsCounted'
  BY <1>1, <1>a DEF Read, Refused, TooLate
<1>2. ASSUME NEW h \in Handlers, SaveFails(h) PROVE ReportsCounted'
  BY <1>2, <1>a DEF SaveFails
<1>3. ASSUME NEW h \in Handlers, PublicCancel(h) PROVE ReportsCounted'
  BY <1>3, <1>a DEF PublicCancel
<1>4. ASSUME NEW h \in Handlers, DashboardCancel(h) PROVE ReportsCounted'
  BY <1>4, <1>a DEF DashboardCancel
<1>5. ASSUME NEW h \in Handlers, DashboardComplete(h) PROVE ReportsCounted'
  BY <1>5, <1>a DEF DashboardComplete
<1>6. ASSUME NEW h \in Handlers, ApiComplete(h) PROVE ReportsCounted'
  BY <1>6, <1>a DEF ApiComplete
<1>7. ASSUME NEW h \in Handlers, ApiDelete(h) PROVE ReportsCounted'
  BY <1>7, <1>a DEF ApiDelete
<1>8. ASSUME NEW h \in Handlers, Report(h) PROVE ReportsCounted'
  BY <1>8, <1>a DEF Report
<1>9. ASSUME NEW h \in Handlers, CoreEdit(h) PROVE ReportsCounted'
  BY <1>9, <1>a DEF CoreEdit
<1>10. ASSUME NEW h \in Handlers, CoreDelete(h) PROVE ReportsCounted'
  BY <1>10, <1>a DEF CoreDelete
<1>11. ASSUME Tick PROVE ReportsCounted'
  BY <1>11, <1>a DEF Tick
<1>12. ASSUME UNCHANGED lifeVars PROVE ReportsCounted'
  BY <1>12, <1>a DEF lifeVars
<1> QED
  BY <1>1, <1>2, <1>3, <1>4, <1>5, <1>6, <1>7, <1>8, <1>9, <1>10, <1>11, <1>12 DEF LifeNext

\* What sends a mail closes the booking, and nothing but an edited order opens
\* it.
LEMMA LifeMailedNotConfirmedStep ==
  ASSUME LifeIInv, [LifeNext]_lifeVars
  PROVE  MailedNotConfirmed'
<1> USE LifecycleAssumption DEF Row, Roles, Statuses, Kinds,
     CustomerKinds, CoreKinds, StaffKinds, Deciding, SaveStatus,
     Answered, LifeTypeOK, MailedNotConfirmed, Confirmed, KindFits
<1>a. LifeTypeOK /\ KindFits /\ MailedNotConfirmed
  BY DEF LifeIInv
<1>1. ASSUME NEW h \in Handlers, Read(h) PROVE MailedNotConfirmed'
  BY <1>1, <1>a DEF Read, Refused, TooLate
<1>2. ASSUME NEW h \in Handlers, SaveFails(h) PROVE MailedNotConfirmed'
  BY <1>2, <1>a DEF SaveFails
<1>3. ASSUME NEW h \in Handlers, PublicCancel(h) PROVE MailedNotConfirmed'
  BY <1>3, <1>a DEF PublicCancel
<1>4. ASSUME NEW h \in Handlers, DashboardCancel(h) PROVE MailedNotConfirmed'
  BY <1>4, <1>a DEF DashboardCancel
<1>5. ASSUME NEW h \in Handlers, DashboardComplete(h) PROVE MailedNotConfirmed'
  BY <1>5, <1>a DEF DashboardComplete
<1>6. ASSUME NEW h \in Handlers, ApiComplete(h) PROVE MailedNotConfirmed'
  BY <1>6, <1>a DEF ApiComplete
<1>7. ASSUME NEW h \in Handlers, ApiDelete(h) PROVE MailedNotConfirmed'
  BY <1>7, <1>a DEF ApiDelete
<1>8. ASSUME NEW h \in Handlers, Report(h) PROVE MailedNotConfirmed'
  BY <1>8, <1>a DEF Report
<1>9. ASSUME NEW h \in Handlers, CoreEdit(h) PROVE MailedNotConfirmed'
  BY <1>9, <1>a DEF CoreEdit
<1>10. ASSUME NEW h \in Handlers, CoreDelete(h) PROVE MailedNotConfirmed'
  BY <1>10, <1>a DEF CoreDelete
<1>11. ASSUME Tick PROVE MailedNotConfirmed'
  BY <1>11, <1>a DEF Tick
<1>12. ASSUME UNCHANGED lifeVars PROVE MailedNotConfirmed'
  BY <1>12, <1>a DEF lifeVars
<1> QED
  BY <1>1, <1>2, <1>3, <1>4, <1>5, <1>6, <1>7, <1>8, <1>9, <1>10, <1>11, <1>12 DEF LifeNext

---------------------------------------------------------------------------
\* IInv holds of every reachable state.
THEOREM LifeInvariance == LifeSpec => []LifeIInv
<1>1. LifeInit => LifeIInv
  BY LifecycleAssumption DEF LifeInit, LifeIInv, LifeTypeOK, KindFits,
       ReportsCounted, MailedNotConfirmed, Row, Roles, Statuses,
       Kinds, CustomerKinds, CoreKinds
<1>2. LifeIInv /\ [LifeNext]_lifeVars => LifeIInv'
  BY LifeTypeOKStep, LifeKindFitsStep, LifeReportsCountedStep, LifeMailedNotConfirmedStep
       DEF LifeIInv
<1>3. QED
  BY <1>1, <1>2, PTL DEF LifeSpec

\* No report is lost to another one made at the same time, as long as no completion
\* through the integration API writes the whole row back (public_views.py:425-460).
THEOREM ReportsCountedHolds == LifeSpec => []ReportsCounted
<1>1. LifeIInv => ReportsCounted
  BY DEF LifeIInv
<1>2. QED
  BY <1>1, LifeInvariance, PTL

\* Who is told of a cancellation can rely on it (public_views.py:480-493,
\* bookings/views.py:331-336).
THEOREM MailedNotConfirmedHolds == LifeSpec => []MailedNotConfirmed
<1>1. LifeIInv => MailedNotConfirmed
  BY DEF LifeIInv
<1>2. QED
  BY <1>1, LifeInvariance, PTL

\* However many handlers hold copies of the row, none of them confirms a closed
\* or deleted booking again, but for an order that is edited
\* (bookings/services.py:56, dashboard/views.py:1130).
THEOREM NeverReconfirmedHolds == LifeSpec => NeverReconfirmed
<1>1. LifeIInv /\ [LifeNext]_lifeVars => [(~coreTime /\ ~Confirmed) =>
     ~Confirmed']_lifeVars
  <2> SUFFICES ASSUME LifeIInv, LifeNext, ~coreTime, ~Confirmed
               PROVE  ~Confirmed'
    OBVIOUS
  <2> USE LifecycleAssumption DEF Row, Statuses, Kinds,
       CustomerKinds, CoreKinds, StaffKinds, Deciding, SaveStatus,
       Answered, LifeTypeOK, Confirmed, KindFits
  <2>a. LifeTypeOK /\ KindFits
    BY DEF LifeIInv
  <2>1. ASSUME NEW h \in Handlers, Read(h) PROVE ~Confirmed'
    BY <2>1, <2>a DEF Read, Refused, TooLate
  <2>2. ASSUME NEW h \in Handlers, SaveFails(h) PROVE ~Confirmed'
    BY <2>2, <2>a DEF SaveFails
  <2>3. ASSUME NEW h \in Handlers, PublicCancel(h) PROVE ~Confirmed'
    BY <2>3, <2>a DEF PublicCancel
  <2>4. ASSUME NEW h \in Handlers, DashboardCancel(h) PROVE ~Confirmed'
    BY <2>4, <2>a DEF DashboardCancel
  <2>5. ASSUME NEW h \in Handlers, DashboardComplete(h) PROVE ~Confirmed'
    BY <2>5, <2>a DEF DashboardComplete
  <2>6. ASSUME NEW h \in Handlers, ApiComplete(h) PROVE ~Confirmed'
    BY <2>6, <2>a DEF ApiComplete
  <2>7. ASSUME NEW h \in Handlers, ApiDelete(h) PROVE ~Confirmed'
    BY <2>7, <2>a DEF ApiDelete
  <2>8. ASSUME NEW h \in Handlers, Report(h) PROVE ~Confirmed'
    BY <2>8, <2>a DEF Report
  <2>9. ASSUME NEW h \in Handlers, CoreEdit(h) PROVE ~Confirmed'
    BY <2>9, <2>a DEF CoreEdit
  <2>10. ASSUME NEW h \in Handlers, CoreDelete(h) PROVE ~Confirmed'
    BY <2>10, <2>a DEF CoreDelete
  <2>11. ASSUME Tick PROVE ~Confirmed'
    BY <2>11, <2>a DEF Tick
  <2> QED
    BY <2>1, <2>2, <2>3, <2>4, <2>5, <2>6, <2>7, <2>8, <2>9, <2>10, <2>11 DEF LifeNext
<1>2. QED
  BY <1>1, LifeInvariance, PTL DEF LifeSpec, NeverReconfirmed

---------------------------------------------------------------------------
(* How the two fit *)

\* The booking as the notification worker knows it.
Stage ==
  IF booking = Absent THEN "gone"
  ELSE IF booking.status = "CONFIRMED" THEN "CONFIRMED" ELSE "CLOSED"

Told == INSTANCE Notifications WITH
  Bookings   <- {"it"},
  MaxNotices <- [b \in {"it"} |-> Bound],
  row        <- [b \in {"it"} |-> Stage],
  task       <- [b \in {"it"} |-> "queued"],
  retries    <- [b \in {"it"} |-> 0],
  notices    <- [b \in {"it"} |-> mails],
  enqueued   <- [b \in {"it"} |-> mails],
  worker     <- None,
  copies     <- [b \in {"it"} |-> [c \in Channels \cup {"notice"} |-> 0]]

\* What a step does to the stage and to the mails says which request it is.
LEMMA StageSteps ==
  ASSUME Bound \in Nat, mails \in Nat, mails' \in Nat, mails' <= Bound
  PROVE  /\ booking # Absent /\ Stage' = "CLOSED" /\ mails' \in {mails, mails + 1}
              => Told!Cancel("it")
         /\ Stage # "CLOSED" /\ Stage' = "CLOSED" /\ UNCHANGED mails => Told!Close("it")
         /\ Stage' = "gone" /\ mails' = mails + 1 => Told!Delete("it")
         /\ Stage' = Stage /\ UNCHANGED mails => UNCHANGED Told!vars
<1>0. \A x, y : [[b \in {"it"} |-> x] EXCEPT !["it"] = y] = [b \in {"it"} |-> y]
  OBVIOUS
<1>1. Stage \in {"gone", "CONFIRMED", "CLOSED"} /\ (booking # Absent => Stage # "gone")
  BY DEF Stage
<1>2. ASSUME booking # Absent, Stage' = "CLOSED", mails' \in {mails, mails + 1}
      PROVE  Told!Cancel("it")
  <2>1. CASE mails' = mails
    BY <1>1, <1>2, <2>1 DEF Told!Cancel
  <2>2. CASE mails' = mails + 1
    BY <1>1, <1>2, <2>2, <1>0 DEF Told!Cancel, Told!Enqueue
  <2>3. QED
    BY <1>2, <2>1, <2>2
<1>3. ASSUME Stage # "CLOSED", Stage' = "CLOSED", UNCHANGED mails PROVE Told!Close("it")
  BY <1>1, <1>3 DEF Told!Close
<1>4. ASSUME Stage' = "gone", mails' = mails + 1 PROVE Told!Delete("it")
  BY <1>0, <1>1, <1>4 DEF Told!Delete, Told!Enqueue
<1>5. ASSUME Stage' = Stage, UNCHANGED mails PROVE UNCHANGED Told!vars
  BY <1>5 DEF Told!vars
<1>6. QED
  BY <1>2, <1>3, <1>4, <1>5

\* Although each handler reads the booking and writes it later, and others write
\* in between, all of them together do to a booking no more than the requests of
\* the notification model do in one step, up to any number of mails: cancel it,
\* close it in silence, delete it.  What is proved about the worker thus holds
\* beside the handlers as they are (bookings/public_views.py:465-495,
\* bookings/views.py:311-354, dashboard/schedule_views.py:578-674).
THEOREM HandlersAreRequests ==
  ASSUME Bound \in Nat
  PROVE  LifeSpec /\ [](~coreTime /\ mails <= Bound) => [][Told!Request("it")]_(Told!vars)
<1> DEFINE Within == ~coreTime /\ mails <= Bound
<1>1. LifeIInv /\ LifeIInv' /\ Within /\ Within' /\ [LifeNext]_lifeVars
        => [Told!Request("it")]_(Told!vars)
  <2> SUFFICES ASSUME LifeIInv, LifeIInv', Within, Within', [LifeNext]_lifeVars
               PROVE  Told!Request("it") \/ UNCHANGED Told!vars
    OBVIOUS
  <2> DEFINE Goal == Told!Request("it") \/ UNCHANGED Told!vars
  <2>a. /\ LifeTypeOK /\ KindFits /\ ~coreTime
        /\ mails \in Nat /\ mails' \in Nat /\ mails' <= Bound
    BY DEF LifeIInv, LifeTypeOK
  <2>b. ASSUME Stage' = Stage, UNCHANGED mails PROVE Goal
    BY <2>a, <2>b, StageSteps
  <2>c. ASSUME booking # Absent, Stage' = "CLOSED", mails' \in {mails, mails + 1} PROVE Goal
    BY <2>a, <2>c, StageSteps DEF Told!Request
  <2>d. ASSUME Stage' = "CLOSED", UNCHANGED mails PROVE Goal
    BY <2>a, <2>b, <2>d, StageSteps DEF Told!Request
  <2>e. ASSUME Stage' = "gone", mails' = mails + 1 PROVE Goal
    BY <2>a, <2>e, StageSteps DEF Told!Request
  <2> HIDE DEF Goal
  <2> USE LifecycleAssumption DEF LifeTypeOK, Row, Roles, Statuses,
       Kinds, CustomerKinds, CoreKinds, StaffKinds, Deciding,
       SaveStatus, Stage
  <2>1. ASSUME NEW h \in Handlers, Read(h) PROVE Goal
    BY <2>1, <2>b DEF Read
  <2>2. ASSUME NEW h \in Handlers, SaveFails(h) PROVE Goal
    BY <2>2, <2>b DEF SaveFails
  <2>3. ASSUME NEW h \in Handlers, PublicCancel(h) PROVE Goal
    BY <2>3, <2>a, <2>c DEF PublicCancel
  <2>4. ASSUME NEW h \in Handlers, DashboardCancel(h) PROVE Goal
    BY <2>4, <2>a, <2>d DEF DashboardCancel
  <2>5. ASSUME NEW h \in Handlers, DashboardComplete(h) PROVE Goal
    BY <2>5, <2>a, <2>d DEF DashboardComplete
  <2>6. ASSUME NEW h \in Handlers, ApiComplete(h) PROVE Goal
    BY <2>6, <2>a, <2>d DEF ApiComplete
  <2>7. ASSUME NEW h \in Handlers, ApiDelete(h) PROVE Goal
    BY <2>7, <2>e DEF ApiDelete
  <2>8. ASSUME NEW h \in Handlers, Report(h) PROVE Goal
    BY <2>8, <2>a, <2>b DEF Report
  <2>9. ASSUME NEW h \in Handlers, CoreEdit(h) PROVE Goal
    BY <2>9, <2>a DEF CoreEdit, KindFits
  <2>10. ASSUME NEW h \in Handlers, CoreDelete(h) PROVE Goal
    BY <2>10, <2>a DEF CoreDelete, KindFits
  <2>11. ASSUME Tick PROVE Goal
    BY <2>11, <2>b DEF Tick
  <2>12. ASSUME UNCHANGED lifeVars PROVE Goal
    BY <2>12, <2>b DEF lifeVars
  <2>13. Goal
    BY <2>1, <2>2, <2>3, <2>4, <2>5, <2>6, <2>7, <2>8, <2>9, <2>10, <2>11, <2>12
       DEF LifeNext
  <2>14. QED
    BY <2>13 DEF Goal
<1>2. QED
  BY <1>1, LifeInvariance, PTL DEF LifeSpec

=============================================================================
