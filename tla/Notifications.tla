------------------------------ MODULE Notifications ------------------------------
(***************************************************************************)
(* The Celery worker (bookings/tasks.py) that tells the world about a      *)
(* booking: one process (-P solo) takes one task at a time.                *)
(*   - process_new_booking reads the booking, mails the customer, mails    *)
(*     the cast, calls the tenant's webhook.  An error before the webhook  *)
(*     puts the whole task off and starts it again, max_retries times.     *)
(*   - send_cancellation_email_task tries one mail once.                   *)
(* Meanwhile requests close or delete bookings, the tenant edits its       *)
(* settings and the worker may die; a task that has begun dies with it     *)
(* (Celery acknowledges early), one that waits is delivered again.         *)
(* External: a mail server may deliver a mail and still report an error.   *)
(***************************************************************************)
EXTENDS Integers

CONSTANTS
  Bookings,
  MaxRetries,   \* max_retries = 3
  MaxNotices,   \* bound: cancellation mails of each booking
  Settings,     \* what tenants may have configured: subsets of Channels
  None

Channels == {"customer", "cast", "hook"}
Steps    == {"link", "customer", "cast", "hook", "notice"}

\* A task in the worker's hand: what it read, and its next step.
Hands == [booking : Bookings, step : Steps, on : Settings \cup {{}}, stale : BOOLEAN]

ASSUME NotificationAssumption ==
  /\ MaxRetries \in Nat
  /\ MaxNotices \in [Bookings -> Nat]
  /\ Settings \subseteq SUBSET Channels
  /\ None \notin Hands

VARIABLES
  row,      \* the booking: "none", "CONFIRMED", "CLOSED" or "gone"
  task,     \* what became of its process_new_booking task
  retries,  \* request.retries of that task
  notices,  \* cancellation mails in the queue
  enqueued, \* cancellation mails ever enqueued
  worker,   \* the task in hand: the booking, its next step, what it read
  copies    \* how often each channel was reached

vars == <<row, task, retries, notices, enqueued, worker, copies>>

Waiting == {"queued", "delayed"}
Settled == {"done", "vanished", "exhausted", "lost"}

---------------------------------------------------------------------------
(* Requests *)

\* The commit of a public or integration booking enqueues its task.
Create(b) ==
  /\ row[b] = "none"
  /\ row' = [row EXCEPT ![b] = "CONFIRMED"]
  /\ task' = [task EXCEPT ![b] = "queued"]
  /\ UNCHANGED <<retries, notices, enqueued, worker, copies>>

Enqueue(b) ==
  /\ enqueued[b] < MaxNotices[b]
  /\ enqueued' = [enqueued EXCEPT ![b] = @ + 1]
  /\ notices' = [notices EXCEPT ![b] = @ + 1]

\* Each of these requests read the row at some moment before and decided then
\* (BookingLifecycle has the two steps), so it writes whatever is there now,
\* as far as its way of saving can.

\* PublicBookingCancelApi, when the cast has an address and when not: two that
\* both read a confirmed booking are both announced.
Cancel(b) ==
  /\ row[b] \in {"CONFIRMED", "CLOSED"}
  /\ row' = [row EXCEPT ![b] = "CLOSED"]
  /\ Enqueue(b) \/ UNCHANGED <<enqueued, notices>>
  /\ UNCHANGED <<task, retries, worker, copies>>

\* Cancelled or completed by the staff, which is not announced; a completion
\* through the API inserts a row deleted since again.
Close(b) ==
  /\ row[b] \in {"CONFIRMED", "gone"}
  /\ row' = [row EXCEPT ![b] = "CLOSED"]
  /\ UNCHANGED <<task, retries, notices, enqueued, worker, copies>>

\* IntegrationBookingView.delete; a row that is gone already is announced again.
Delete(b) ==
  /\ row[b] # "none"
  /\ row' = [row EXCEPT ![b] = "gone"]
  /\ Enqueue(b)
  /\ UNCHANGED <<task, retries, worker, copies>>

---------------------------------------------------------------------------
(* process_new_booking *)

InHand(b, step) == worker # None /\ worker.booking = b /\ worker.step = step

Advance(step) == worker' = [worker EXCEPT !.step = step]

Settle(b, how) == worker' = None /\ task' = [task EXCEPT ![b] = how]

Reach(b, channel) == copies' = [copies EXCEPT ![b][channel] = @ + 1]

\* Wrong on purpose: the task carries the booking instead of its id.
FetchStale(b) ==
  /\ worker = None
  /\ task[b] = "queued"
  /\ task' = [task EXCEPT ![b] = "running"]
  /\ \E on \in Settings, stale \in BOOLEAN :
       worker' = [booking |-> b, step |-> "link", on |-> on, stale |-> stale]
  /\ UNCHANGED <<row, retries, notices, enqueued, copies>>

\* The settings are the tenant's and the template's at this moment; stale says
\* whether the stored detail link is not the one they give.
Fetch(b) ==
  /\ worker = None
  /\ task[b] = "queued"
  /\ IF row[b] = "gone"
       THEN Settle(b, "vanished")
       ELSE /\ task' = [task EXCEPT ![b] = "running"]
            /\ \E on \in Settings, stale \in BOOLEAN :
                 worker' = [booking |-> b, step |-> "link", on |-> on, stale |-> stale]
  /\ UNCHANGED <<row, retries, notices, enqueued, copies>>

\* Wrong on purpose: max_retries=None.
RetryForever(b) ==
  worker' = None /\ task' = [task EXCEPT ![b] = "delayed"] /\ UNCHANGED retries

\* self.retry(exc=e, countdown=5)
Retry(b) ==
  /\ worker' = None
  /\ IF retries[b] < MaxRetries
       THEN /\ retries' = [retries EXCEPT ![b] = @ + 1]
            /\ task' = [task EXCEPT ![b] = "delayed"]
       ELSE UNCHANGED retries /\ task' = [task EXCEPT ![b] = "exhausted"]

CountdownOver(b) ==
  /\ task[b] = "delayed"
  /\ task' = [task EXCEPT ![b] = "queued"]
  /\ UNCHANGED <<row, retries, notices, enqueued, worker, copies>>

\* save(update_fields=..) of a booking deleted since raises.
StoreLink(b) ==
  /\ InHand(b, "link")
  /\ IF worker.stale /\ row[b] = "gone"
       THEN Retry(b)
       ELSE Advance("customer") /\ UNCHANGED <<task, retries>>
  /\ UNCHANGED <<row, notices, enqueued, copies>>

\* Wrong on purpose: errors of the mail server are swallowed.
MailSilently(b, who, next) ==
  /\ InHand(b, who)
  /\ Advance(next)
  /\ UNCHANGED copies \/ (who \in worker.on /\ Reach(b, who))
  /\ UNCHANGED <<row, task, retries, notices, enqueued>>

\* A mail that is switched off is passed over; one that is sent is delivered,
\* lost, or delivered with its answer lost.
Mail(b, who, next) ==
  /\ InHand(b, who)
  /\ IF who \in worker.on
       THEN \/ Reach(b, who) /\ Advance(next) /\ UNCHANGED <<task, retries>>
            \/ Reach(b, who) /\ Retry(b)
            \/ UNCHANGED copies /\ Retry(b)
       ELSE Advance(next) /\ UNCHANGED <<task, retries, copies>>
  /\ UNCHANGED <<row, notices, enqueued>>

MailCustomer(b) == Mail(b, "customer", "cast")
MailCast(b)     == Mail(b, "cast", "hook")

\* Wrong on purpose: a webhook that times out is retried with the task.
CallWebhookAgain(b) ==
  /\ InHand(b, "hook")
  /\ \/ Settle(b, "done") /\ UNCHANGED <<retries, copies>>
     \/ "hook" \in worker.on /\ Reach(b, "hook") /\ Retry(b)
  /\ UNCHANGED <<row, notices, enqueued>>

\* The endpoint gets the call or not; the task ends all the same.
CallWebhook(b) ==
  /\ InHand(b, "hook")
  /\ Settle(b, "done")
  /\ UNCHANGED copies \/ ("hook" \in worker.on /\ Reach(b, "hook"))
  /\ UNCHANGED <<row, retries, notices, enqueued>>

---------------------------------------------------------------------------
(* send_cancellation_email_task *)

FetchNotice(b) ==
  /\ worker = None
  /\ notices[b] > 0
  /\ notices' = [notices EXCEPT ![b] = @ - 1]
  /\ worker' = [booking |-> b, step |-> "notice", on |-> {}, stale |-> FALSE]
  /\ UNCHANGED <<row, task, retries, enqueued, copies>>

\* Wrong on purpose: a notice whose answer is lost is enqueued again.
MailNoticeAgain(b) ==
  /\ InHand(b, "notice")
  /\ worker' = None
  /\ \/ UNCHANGED <<notices, copies>>
     \/ Reach(b, "notice") /\ notices' = [notices EXCEPT ![b] = @ + 1]
  /\ UNCHANGED <<row, task, retries, enqueued>>

MailNotice(b) ==
  /\ InHand(b, "notice")
  /\ worker' = None
  /\ UNCHANGED copies \/ Reach(b, "notice")
  /\ UNCHANGED <<row, task, retries, notices, enqueued>>

---------------------------------------------------------------------------
\* The worker process dies and is started again.
Crash ==
  /\ worker # None
  /\ IF worker.step = "notice" THEN worker' = None /\ UNCHANGED task
                               ELSE Settle(worker.booking, "lost")
  /\ UNCHANGED <<row, retries, notices, enqueued, copies>>

Init ==
  /\ row = [b \in Bookings |-> "none"]
  /\ task = [b \in Bookings |-> "none"]
  /\ retries = [b \in Bookings |-> 0]
  /\ notices = [b \in Bookings |-> 0]
  /\ enqueued = [b \in Bookings |-> 0]
  /\ worker = None
  /\ copies = [b \in Bookings |-> [c \in Channels \cup {"notice"} |-> 0]]

Request(b) == Create(b) \/ Cancel(b) \/ Close(b) \/ Delete(b)

WorkerStep(b) ==
  \/ Fetch(b) \/ StoreLink(b) \/ MailCustomer(b) \/ MailCast(b) \/ CallWebhook(b)
  \/ FetchNotice(b) \/ MailNotice(b)

Next ==
  \/ \E b \in Bookings : Request(b) \/ WorkerStep(b) \/ CountdownOver(b)
  \/ Crash

Spec == Init /\ [][Next]_vars

\* The worker is never idle while it has a task, and its timer runs.
FairSpec ==
  /\ Spec
  /\ WF_vars(\E b \in Bookings : WorkerStep(b))
  /\ \A b \in Bookings : WF_vars(CountdownOver(b))

---------------------------------------------------------------------------
(* Properties *)

TypeOK ==
  /\ row \in [Bookings -> {"none", "CONFIRMED", "CLOSED", "gone"}]
  /\ task \in [Bookings -> Waiting \cup Settled \cup {"none", "running"}]
  /\ retries \in [Bookings -> 0..MaxRetries]
  /\ notices \in [Bookings -> Nat]
  /\ enqueued \in [Bookings -> Nat]
  /\ worker \in Hands \cup {None}
  /\ copies \in [Bookings -> [Channels \cup {"notice"} -> Nat]]

Processing(b) == worker # None /\ worker.booking = b /\ worker.step # "notice"

\* Whatever is retried, nobody gets a confirmation more than 1 + max_retries
\* times, the webhook is called once, and the cast's mails stop with it.
NoFlood ==
  \A b \in Bookings :
    /\ \A who \in {"customer", "cast"} : copies[b][who] <= 1 + retries[b]
    /\ copies[b].hook <= 1
    /\ copies[b].hook = 1 => task[b] = "done"

\* The cast is mailed, and the endpoint called, only after those the settings
\* name before them were reached (bookings/tasks.py:359-364, 96-106).
ToldInOrder ==
  \A b \in Bookings :
    /\ InHand(b, "cast") /\ "customer" \in worker.on => copies[b].customer > 0
    /\ InHand(b, "hook") => \A who \in worker.on \ {"hook"} : copies[b][who] > 0

\* "The worker reads the latest state again from the booking id" (README
\* section 13): a deleted booking that is not in hand is never told again,
\* whatever was delayed before it was deleted.
DeletedStaysQuiet ==
  [][\A b \in Bookings : (row[b] = "gone" /\ ~Processing(b)) => ~Processing(b)']_vars

\* Each cancellation mail that was enqueued is in the queue, in hand, sent once
\* or lost, never two of these; and none is enqueued while the booking stands.
NoticesJustified ==
  \A b \in Bookings :
    /\ notices[b] + copies[b].notice + (IF InHand(b, "notice") THEN 1 ELSE 0) <= enqueued[b]
    /\ row[b] \in {"none", "CONFIRMED"} => enqueued[b] = 0

\* Every task ends: retries run out, deleted bookings are dropped.
EveryTaskSettles == \A b \in Bookings : (task[b] = "queued") ~> (task[b] \in Settled)

=============================================================================
