---------------------------- MODULE CastGateway ----------------------------
(***************************************************************************)
(* System A as a front of System B for one cast. System A keeps the cast's *)
(* profile and pushes it to System B's resource (casts/source.py); it      *)
(* passes a customer's booking, cancellation and completion on and hands   *)
(* System B's answer back (accounts/views.py, utils/saas_client.py). Every *)
(* push and every request is an HTTP call that may be lost, may be carried *)
(* out after System A gave up, or may lose its answer; System B reads and  *)
(* writes in statements of their own. All bookings ask for one time; the   *)
(* clock is left out, so a check of the time may go either way.            *)
(***************************************************************************)
EXTENDS Integers

CONSTANTS
  Threads,    \* requests System A serves at once
  Logins,     \* those of them in which the cast may sign in
  Late,       \* places for calls System A no longer waits for
  Views,      \* what a profile form may hold: name, active, look
  FirstView,  \* the profile the cast starts with
  Clicks,     \* a customer's clicks on "book"
  MaxEdits,   \* bound on edits and drags; sign-ins have none
  MaxChanges, \* bound on these and on what is asked of bookings together
  MaxFailures, \* bound on calls that fail
  None

\* What the profile, a booking's row and a call hold.
Names   == {v.name : v \in Views}
View    == [name : Names, active : BOOLEAN, look : {v.look : v \in Views}]
Profile == [view : View, remote : BOOLEAN]
Rows    == {"none", "CONFIRMED", "COMPLETED", "deleted"}
Calls   == [op : {"sync", "order", "book", "cancel", "complete"},
            click : Clicks \cup {None}, name : Names \cup {None}, view : View \cup {None},
            step : {"sent", "read", "named", "done"}, saw : View \cup {None},
            status : {"created", "refused", "error", "deleted", "ok", None}]

ASSUME GatewayAssumption ==
  /\ Logins \subseteq Threads /\ Threads \cap Late = {}
  /\ FirstView \in Views /\ Views \subseteq View
  /\ {MaxEdits, MaxChanges, MaxFailures} \subseteq Nat
  /\ None \notin View \cup Clicks \cup Profile \cup Calls

VARIABLES
  profile,  \* System A's CastProfile, and whether it knows its saas_resource_id
  resource, \* System B's Resource and ResourceProfile, or None
  booking,  \* the row each click has made at System B
  told,     \* what System A answered to each click, if that is known
  undone,   \* clicks whose cancellation System A acknowledged
  thread,   \* the profile a request of System A holds
  call,     \* the HTTP call of a request, or one left to itself
  edits,    \* edits and drags so far
  asks,     \* bookings, cancellations and completions asked for so far
  failures  \* calls that failed so far

remoteVars == <<resource, booking>>
customer   == <<told, undone>>
vars == <<profile, remoteVars, customer, thread, call, edits, asks, failures>>

Idle == [pc |-> "idle", mine |-> None]

Call(op, click, view) ==
  [op |-> op, click |-> click, name |-> None, view |-> view, step |-> "sent", saw |-> None, status |-> None]

SpendEdit ==
  /\ edits < MaxEdits /\ edits + asks < MaxChanges
  /\ edits' = edits + 1 /\ UNCHANGED asks
SpendAsk ==
  /\ edits + asks < MaxChanges
  /\ asks' = asks + 1 /\ UNCHANGED edits
Fail  == failures < MaxFailures /\ failures' = failures + 1

At(t, pc) == thread[t].pc = pc

\* System A calls and waits.
Send(t, mine, c) ==
  /\ thread' = [thread EXCEPT ![t] = [pc |-> "wait", mine |-> mine]]
  /\ call' = [call EXCEPT ![t] = c]

Finish(t) ==
  /\ thread' = [thread EXCEPT ![t] = Idle]
  /\ call' = [call EXCEPT ![t] = None]

---------------------------------------------------------------------------
(* System A: the cast and the administrator *)

\* edit_cast_profile and update_cms load the row and fill the form into it.
Edit(t, v) ==
  /\ At(t, "idle") /\ SpendEdit
  /\ thread' = [thread EXCEPT ![t] = [pc |-> "edit", mine |-> [profile EXCEPT !.view = v]]]
  /\ UNCHANGED <<profile, remoteVars, customer, call, failures>>

\* form.save() writes every column, then the profile in memory is pushed.
SaveEdit(t) ==
  /\ At(t, "edit")
  /\ profile' = thread[t].mine
  /\ Send(t, thread[t].mine, Call("sync", None, thread[t].mine.view))
  /\ UNCHANGED <<remoteVars, customer, edits, asks, failures>>

\* Saving the user of a sign-in, a profile form or a role change pushes the
\* profile as it is read then.
Login(t) ==
  /\ At(t, "idle")
  /\ Send(t, profile, Call("sync", None, profile.view))
  /\ UNCHANGED <<profile, remoteVars, customer, edits, asks, failures>>

\* The administrator drags the cast to another place of the list.
Drag(t) ==
  /\ At(t, "idle") /\ resource # None /\ SpendEdit
  /\ Send(t, None, Call("order", None, None))
  /\ UNCHANGED <<profile, remoteVars, customer, failures>>

\* The id that came back is stored when the row in memory has another.
SyncAnswered(t) ==
  /\ call[t] # None /\ call[t].op = "sync" /\ call[t].step = "done"
  /\ profile' = IF call[t].status = "created" /\ ~thread[t].mine.remote
                THEN [profile EXCEPT !.remote = TRUE]
                ELSE profile
  /\ Finish(t)
  /\ UNCHANGED <<remoteVars, customer, edits, asks, failures>>

DragAnswered(t) ==
  /\ call[t] # None /\ call[t].op = "order" /\ call[t].step = "done"
  /\ Finish(t)
  /\ UNCHANGED <<profile, remoteVars, customer, edits, asks, failures>>

---------------------------------------------------------------------------
(* System A: customers *)

\* The form sends the cast's name n as the customer's page showed it.
\* BookingActionAPI refuses less than 24 hours ahead without asking.
Click(t, k, n) ==
  /\ At(t, "idle") /\ told[k] = "nothing" /\ SpendAsk
  /\ \/ told' = [told EXCEPT ![k] = "refused"] /\ UNCHANGED <<thread, call>>
     \/ /\ told' = [told EXCEPT ![k] = "unknown"]
        /\ Send(t, None, [Call("book", k, None) EXCEPT !.name = n])
  /\ UNCHANGED <<profile, remoteVars, undone, failures>>

\* The lists show every row; a cancel or complete button asks for its row.
Ask(t, op, k) ==
  /\ At(t, "idle") /\ booking[k] # "none" /\ SpendAsk
  /\ Send(t, None, Call(op, k, None))
  /\ UNCHANGED <<profile, remoteVars, customer, failures>>

\* A status of System B is passed on; 500 says nothing about the booking.
BookAnswered(t) ==
  /\ call[t] # None /\ call[t].op = "book" /\ call[t].step = "done"
  /\ told' = [told EXCEPT ![call[t].click] =
       CASE call[t].status = "created" -> "booked"
         [] call[t].status = "refused" -> "refused"
         [] OTHER -> "unknown"]
  /\ Finish(t)
  /\ UNCHANGED <<profile, remoteVars, undone, edits, asks, failures>>

\* 204 becomes 204, everything else 400 or 500.
ChangeAnswered(t) ==
  /\ call[t] # None /\ call[t].op \in {"cancel", "complete"} /\ call[t].step = "done"
  /\ undone' = IF call[t].op = "cancel" /\ call[t].status = "deleted"
               THEN undone \cup {call[t].click} ELSE undone
  /\ Finish(t)
  /\ UNCHANGED <<profile, remoteVars, told, edits, asks, failures>>

\* Wrong on purpose: no answer is told as a refusal.
GiveUpAsRefusal(t) ==
  /\ At(t, "wait") /\ Fail
  /\ \E l \in Late :
       \/ call' = [call EXCEPT ![t] = None]
       \/ call[l] = None /\ call' = [call EXCEPT ![t] = None, ![l] = call[t]]
  /\ told' = IF call[t].op = "book" THEN [told EXCEPT ![call[t].click] = "refused"] ELSE told
  /\ thread' = [thread EXCEPT ![t] = Idle]
  /\ UNCHANGED <<profile, remoteVars, undone, edits, asks>>

\* No answer in five seconds, or none at all: 503 for a booking, a warning for
\* a push. The request was lost, its answer was, or System B goes on with it.
GiveUp(t) ==
  /\ At(t, "wait") /\ Fail
  /\ \/ call[t].step \in {"sent", "done"} /\ call' = [call EXCEPT ![t] = None]
     \/ /\ call[t].step # "done"
        /\ \E l \in Late :
             call[l] = None /\ call' = [call EXCEPT ![t] = None, ![l] = call[t]]
  /\ thread' = [thread EXCEPT ![t] = Idle]
  /\ UNCHANGED <<profile, remoteVars, customer, edits, asks>>

---------------------------------------------------------------------------
(* System B: the handlers of the calls *)

Handling(x, op, step) == call[x] # None /\ call[x].op = op /\ call[x].step = step

Reads(x, row) == call' = [call EXCEPT ![x].step = "read", ![x].saw = row]

\* Nobody is there to hear the answer of a call left to itself.
Reply(x, status) ==
  call' = [call EXCEPT ![x] = IF x \in Late THEN None
                              ELSE [@ EXCEPT !.step = "done", !.status = status]]

\* IsTenantAuthorized: the same signature within the second, a late timestamp.
Forbid(x) ==
  /\ call[x] # None /\ call[x].step = "sent" /\ Fail
  /\ Reply(x, "refused")
  /\ UNCHANGED <<profile, remoteVars, customer, thread, edits, asks>>

\* Wrong on purpose: the resource is created but not updated.
PutOnce(x) ==
  /\ Handling(x, "sync", "sent")
  /\ resource' = IF resource = None THEN call[x].view ELSE resource
  /\ Reply(x, "created")
  /\ UNCHANGED <<profile, booking, customer, thread, edits, asks, failures>>

\* update_or_create of the resource and its profile, in one transaction.
PutResource(x) ==
  /\ Handling(x, "sync", "sent")
  /\ resource' = call[x].view
  /\ Reply(x, "created")
  /\ UNCHANGED <<profile, booking, customer, thread, edits, asks, failures>>

\* PATCH of the display order: the resource is read before the transaction ...
OrderRead(x) ==
  /\ Handling(x, "order", "sent")
  /\ Reads(x, resource)
  /\ UNCHANGED <<profile, remoteVars, customer, thread, edits, asks, failures>>

\* ... and saved whole in it; the profile row is read under that row's lock.
OrderSave(x) ==
  /\ Handling(x, "order", "read")
  /\ resource' = [call[x].saw EXCEPT !.look = resource.look]
  /\ Reply(x, "ok")
  /\ UNCHANGED <<profile, booking, customer, thread, edits, asks, failures>>

BookRead(x) ==
  /\ Handling(x, "book", "sent")
  /\ IF resource = None THEN Reply(x, "refused") ELSE Reads(x, resource)
  /\ UNCHANGED <<profile, remoteVars, customer, thread, edits, asks, failures>>

\* The customer's page decides the name: the whole resource row is saved.
Rename(x) ==
  /\ Handling(x, "book", "read")
  /\ resource' = IF call[x].saw.name = call[x].name THEN resource
                 ELSE [call[x].saw EXCEPT !.name = call[x].name, !.look = resource.look]
  /\ call' = [call EXCEPT ![x].step = "named"]
  /\ UNCHANGED <<profile, booking, customer, thread, edits, asks, failures>>

\* create_confirmed_booking_with_lock (module BookingCreate), seen from outside.
Reserve(x) ==
  /\ Handling(x, "book", "named")
  /\ \A k \in Clicks : booking[k] # "CONFIRMED"
  /\ booking' = [booking EXCEPT ![call[x].click] = "CONFIRMED"]
  /\ \/ Reply(x, "created")
     \/ Reply(x, "error") \* committed, but the task could not be queued
  /\ UNCHANGED <<profile, resource, customer, thread, edits, asks, failures>>

\* A conflict; or no shift covers the time, which is not modelled here.
RefuseBooking(x) ==
  /\ Handling(x, "book", "named")
  /\ Reply(x, "refused")
  /\ UNCHANGED <<profile, remoteVars, customer, thread, edits, asks, failures>>

\* get_object_or_404, then the status or the time: a cancellation takes any row.
RowRead(x) ==
  /\ \E op \in {"cancel", "complete"} : Handling(x, op, "sent")
  /\ LET row    == booking[call[x].click]
         cancel == call[x].op = "cancel"
     IN \/ /\ row = "CONFIRMED" \/ (cancel /\ row = "COMPLETED")
           /\ Reads(x, None)
        \/ /\ cancel \/ row # "CONFIRMED"
           /\ Reply(x, "refused")
  /\ UNCHANGED <<profile, remoteVars, customer, thread, edits, asks, failures>>

\* A row that is gone already is deleted without a complaint.
CancelDelete(x) ==
  /\ Handling(x, "cancel", "read")
  /\ booking' = [booking EXCEPT ![call[x].click] = "deleted"]
  /\ Reply(x, "deleted")
  /\ UNCHANGED <<profile, resource, customer, thread, edits, asks, failures>>

\* booking.save(): the whole row, inserted again when it is gone.
CompleteSave(x) ==
  /\ Handling(x, "complete", "read")
  /\ booking' = [booking EXCEPT ![call[x].click] = "COMPLETED"]
  /\ Reply(x, "ok")
  /\ UNCHANGED <<profile, resource, customer, thread, edits, asks, failures>>

\* The staff pages of System B's own dashboard.
EditRemote ==
  /\ resource # None /\ SpendEdit
  /\ resource' \in Views
  /\ UNCHANGED <<profile, booking, customer, thread, call, failures>>

Init ==
  /\ profile = [view |-> FirstView, remote |-> FALSE]
  /\ resource = None
  /\ booking = [k \in Clicks |-> "none"]
  /\ told = [k \in Clicks |-> "nothing"]
  /\ undone = {}
  /\ thread = [t \in Threads |-> Idle]
  /\ call = [x \in Threads \cup Late |-> None]
  /\ edits = 0 /\ asks = 0 /\ failures = 0

Handle(x) ==
  \/ PutResource(x) \/ OrderRead(x) \/ OrderSave(x)
  \/ BookRead(x) \/ Rename(x) \/ Reserve(x) \/ RefuseBooking(x)
  \/ RowRead(x) \/ CancelDelete(x) \/ CompleteSave(x)

Answered(t) == SyncAnswered(t) \/ DragAnswered(t) \/ BookAnswered(t) \/ ChangeAnswered(t)

Work(t) == SaveEdit(t) \/ Handle(t) \/ Answered(t)

Next ==
  \/ \E t \in Threads :
       \/ t \in Logins /\ Login(t)
       \/ Drag(t) \/ Work(t) \/ GiveUp(t)
       \/ \E v \in Views : Edit(t, v)
       \/ \E k \in Clicks : (\E n \in Names : Click(t, k, n)) \/ \E op \in {"cancel", "complete"} : Ask(t, op, k)
  \/ \E l \in Late : Handle(l)
  \/ \E x \in Threads \cup Late : Forbid(x)
  \/ EditRemote

\* Calls and requests end, and the cast signs in now and then.
Fairness ==
  /\ \A t \in Threads : WF_vars((t \in Logins /\ Login(t)) \/ Work(t))
  /\ \A l \in Late : WF_vars(Handle(l))

Spec == Init /\ [][Next]_vars
FairSpec == Spec /\ Fairness
---------------------------------------------------------------------------
\* What System A tells a customer stays true, whatever was lost, repeated or
\* carried out late: a click answered with success has a booking, one answered
\* with a refusal never gets one, and a booking whose cancellation was acknowledged
\* is never confirmed again (accounts/views.py:1054-1067, saas_client.py:341-365).
AnswersStayTrue ==
  \A k \in Clicks :
    /\ told[k] = "booked" => booking[k] # "none"
    /\ told[k] = "refused" => booking[k] = "none"
    /\ k \in undone => booking[k] # "CONFIRMED"

\* Once nobody edits, drags or books any more, the sign-ins of the cast bring
\* System B's resource to the profile System A keeps, and System A to its id,
\* although pushes overtake each other, get lost or arrive late, and bookings and
\* drags save rows they read before (casts/signals.py:22-55, casts/source.py:223-246).
CastSettles == <>[](resource = profile.view /\ profile.remote)

=============================================================================
