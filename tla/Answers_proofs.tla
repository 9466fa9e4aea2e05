----------------------------- MODULE Answers_proofs -----------------------------
(***************************************************************************)
(* Proofs about what customers are told:                                   *)
(*   - CastGateway, System A as a front of System B, for any number of     *)
(*     requests, late calls, clicks, edits and failures; a lemma           *)
(*     <name>Step says that every step keeps a conjunct of the inductive   *)
(*     invariant IInv;                                                     *)
(*   - SlotOffers, what is offered and what is accepted, for any shifts,   *)
(*     lengths, buffer and windows and any number of bookings.             *)
(***************************************************************************)
EXTENDS CastGateway, SlotOffers, FiniteSetTheorems, TLAPS

---------------------------------------------------------------------------
(* System A as a front of System B *)

TypeOK ==
  /\ profile \in Profile /\ resource \in View \cup {None}
  /\ booking \in [Clicks -> Rows]
  /\ told \in [Clicks -> {"nothing", "refused", "unknown", "booked"}]
  /\ undone \subseteq Clicks
  /\ thread \in [Threads -> [pc : {"idle", "edit", "wait"}, mine : Profile \cup {None}]]
  /\ call \in [Threads \cup Late -> Calls \cup {None}]

\* A call carries what its kind needs, and System B has what a call has read.
CallsFit ==
  \A x \in Threads \cup Late : call[x] # None =>
    /\ call[x].op = "sync" => call[x].view \in View
    /\ call[x].op \in {"book", "cancel", "complete"} => call[x].click \in Clicks
    /\ call[x].op = "book" => call[x].name \in Names
    /\ call[x].op = "order" => resource # None
    /\ call[x].op \in {"book", "order"} /\ call[x].step = "read" =>
         call[x].saw \in View /\ resource # None

\* A request that edits holds a profile, and one that waits has a call.
ThreadsFit ==
  \A t \in Threads :
    /\ At(t, "edit") => thread[t].mine # None
    /\ At(t, "wait") => call[t] # None

Booking(x) == call[x] # None /\ call[x].op = "book"

\* A click is sent once: in one request, or in one call that was left to itself.
SentOnce ==
  \A x, y \in Threads \cup Late :
    (Booking(x) /\ Booking(y) /\ call[x].click = call[y].click) => x = y

\* What is not known yet of a click is open only while its call is on its way.
AnswerOpen ==
  /\ \A k \in Clicks : told[k] = "nothing" => booking[k] = "none"
  /\ \A x \in Threads \cup Late : Booking(x) => told[call[x].click] = "unknown"

\* Only the call of a click makes its row, and the status says whether it did.
RowOfCall ==
  \A x \in Threads \cup Late : Booking(x) =>
    /\ call[x].step # "done" \/ call[x].status = "refused" => booking[call[x].click] = "none"
    /\ call[x].step = "done" /\ call[x].status = "created" => booking[call[x].click] # "none"

\* A cancellation or completion is of a click that has or had a row.
ChangesOfRows ==
  \A x \in Threads \cup Late :
    (call[x] # None /\ call[x].op \in {"cancel", "complete"}) => booking[call[x].click] # "none"

\* A row whose deletion is on its way to the customer was deleted.
CancelledStays ==
  /\ \A x \in Threads \cup Late :
       (call[x] # None /\ call[x].op = "cancel" /\ call[x].step = "done"
          /\ call[x].status = "deleted") =>
         booking[call[x].click] \notin {"none", "CONFIRMED"}
  /\ \A k \in undone : booking[k] \notin {"none", "CONFIRMED"}

IInv ==
  /\ TypeOK /\ CallsFit /\ ThreadsFit /\ SentOnce /\ AnswerOpen /\ RowOfCall
  /\ ChangesOfRows /\ CancelledStays /\ AnswersStayTrue

---------------------------------------------------------------------------
(* What the steps do to the calls *)

X == Threads \cup Late
CallType == call \in [X -> Calls \cup {None}]
OthersWait(x) == CallType' /\ \A z \in X \ {x} : call'[z] = call[z]

\* System B answers call x, which keeps its kind, its click and what it carries.
Replied(x, status) ==
  /\ OthersWait(x)
  /\ call'[x] # None =>
       /\ call'[x] \in Calls /\ call'[x].step = "done" /\ call'[x].status = status
       /\ call'[x].op = call[x].op /\ call'[x].click = call[x].click
       /\ call'[x].view = call[x].view /\ call'[x].name = call[x].name
  /\ x \in Threads => call'[x] # None

\* A handler of System B goes on with call x.
WentOn(x, step) ==
  /\ OthersWait(x)
  /\ call'[x] # None /\ call'[x] \in Calls
  /\ call'[x].step = step /\ call'[x].status = call[x].status
  /\ call'[x].op = call[x].op /\ call'[x].click = call[x].click
  /\ call'[x].view = call[x].view /\ call'[x].name = call[x].name

\* A request of System A sends call c.
Sent(t, c) == OthersWait(t) /\ call'[t] = c /\ c # None

\* None is no call, and a call has no other fields.
LEMMA CallFields ==
  ASSUME NEW c \in Calls
  PROVE  /\ c # None
         /\ c.op \in {"sync", "order", "book", "cancel", "complete"}
         /\ c.click \in Clicks \cup {None} /\ c.name \in Names \cup {None}
         /\ c.view \in View \cup {None} /\ c.saw \in View \cup {None}
         /\ c.step \in {"sent", "read", "named", "done"}
         /\ c.status \in {"created", "refused", "error", "deleted", "ok", None}
<1>1. c # None
  BY GatewayAssumption
<1> QED
  BY <1>1 DEF Calls

\* A reply marks the call as done, or drops it when nobody waits for it.
LEMMA ReplyEffect ==
  ASSUME CallType, NEW x \in X, call[x] # None,
         NEW status \in {"created", "refused", "error", "deleted", "ok"}, Reply(x, status)
  PROVE  Replied(x, status)
<1> DEFINE d == [call[x] EXCEPT !.step = "done", !.status = status]
<1>1. call[x] \in Calls
  BY DEF CallType
<1>2. /\ d \in Calls /\ d.step = "done" /\ d.status = status /\ d.op = call[x].op
      /\ d.click = call[x].click /\ d.view = call[x].view /\ d.name = call[x].name
  BY <1>1 DEF Calls
<1>3. call' = [call EXCEPT ![x] = IF x \in Late THEN None ELSE d]
  BY DEF Reply, CallType
<1> HIDE DEF d
<1>4. d # None
  BY <1>2, CallFields
<1>5. call'[x] = IF x \in Late THEN None ELSE d
  BY <1>3 DEF CallType
<1>6. OthersWait(x)
  BY <1>2, <1>3 DEF OthersWait, CallType
<1>7. x \in Threads => x \notin Late
  BY GatewayAssumption
<1> QED
  BY <1>2, <1>4, <1>5, <1>6, <1>7 DEF Replied

\* Reading a row takes the call one step further.
LEMMA ReadsEffect ==
  ASSUME CallType, NEW x \in X, call[x] # None,
         NEW row \in View \cup {None}, Reads(x, row)
  PROVE  WentOn(x, "read") /\ call'[x].saw = row
<1> DEFINE d == [call[x] EXCEPT !.step = "read", !.saw = row]
<1>1. call[x] \in Calls
  BY DEF CallType
<1>2. /\ d \in Calls /\ d.step = "read" /\ d.saw = row /\ d.status = call[x].status
      /\ d.op = call[x].op /\ d.click = call[x].click /\ d.view = call[x].view
      /\ d.name = call[x].name
  BY <1>1 DEF Calls
<1>3. call' = [call EXCEPT ![x] = d]
  BY DEF Reads, CallType
<1> HIDE DEF d
<1>4. d # None
  BY <1>2, CallFields
<1> QED
  BY <1>2, <1>3, <1>4 DEF WentOn, OthersWait, CallType

\* A new call has been sent and nothing else.
LEMMA CallEffect ==
  ASSUME NEW op \in {"sync", "order", "cancel", "complete"}, NEW click \in Clicks \cup {None},
         NEW view \in View \cup {None}
  PROVE  /\ Call(op, click, view) \in Calls
         /\ Call(op, click, view).op = op /\ Call(op, click, view).click = click
         /\ Call(op, click, view).view = view /\ Call(op, click, view).step = "sent"
         /\ Call(op, click, view).status = None
  BY DEF Call, Calls

LEMMA SendEffect ==
  ASSUME CallType, NEW t \in Threads, NEW mine, NEW c \in Calls, Send(t, mine, c)
  PROVE  Sent(t, c)
<1>1. t \in X /\ c # None
  BY CallFields DEF X
<1> QED
  BY <1>1 DEF Sent, OthersWait, Send, CallType

LEMMA FinishEffect ==
  ASSUME CallType, NEW t \in Threads, Finish(t)
  PROVE  OthersWait(t) /\ call'[t] = None
<1>1. t \in X
  BY DEF X
<1> QED
  BY <1>1 DEF OthersWait, Finish, CallType

---------------------------------------------------------------------------
(* What a step does, as far as the invariant looks *)

ThreadType == thread \in [Threads -> [pc : {"idle", "edit", "wait"}, mine : Profile \cup {None}]]
OthersRun(t) == ThreadType' /\ \A u \in Threads \ {t} : thread'[u] = thread[u]
Waits(t) == OthersRun(t) /\ thread'[t].pc = "wait"
Rests(t) == OthersRun(t) /\ thread'[t].pc = "idle"

\* System B goes on with a call, or answers it, without touching a booking.
Served(x) ==
  /\ call[x] # None /\ OthersWait(x)
  /\ UNCHANGED <<booking, told, undone, thread, profile>>
  /\ resource' \in View \cup {None} /\ (resource # None => resource' # None)
  /\ x \in Threads => call'[x] # None
  /\ call'[x] # None =>
       /\ call'[x].op = call[x].op /\ call'[x].click = call[x].click
       /\ call'[x].view = call[x].view /\ call'[x].name = call[x].name
       /\ call[x].step # "done"
       /\ call[x].op \in {"book", "cancel"} /\ call'[x].step = "done" => call'[x].status = "refused"
       /\ call'[x].op \in {"book", "order"} /\ call'[x].step = "read" =>
            call'[x].saw \in View /\ resource' # None

\* System B makes or changes the row of the click the call is about.
RowSet(x, row) ==
  /\ call[x] # None /\ call[x].click \in Clicks
  /\ booking' = [booking EXCEPT ![call[x].click] = row]
  /\ UNCHANGED <<resource, told, undone, thread, profile>>

LEMMA RowSetEffect ==
  ASSUME NEW x, NEW row \in Rows, booking \in [Clicks -> Rows], RowSet(x, row)
  PROVE  /\ booking' \in [Clicks -> Rows] /\ booking'[call[x].click] = row
         /\ call[x].click \in Clicks
         /\ \A k \in Clicks \ {call[x].click} : booking'[k] = booking[k]
  BY DEF RowSet

LEMMA CallOf ==
  ASSUME CallType, CallsFit, NEW x \in X, call[x] # None
  PROVE  /\ call[x] \in Calls
         /\ call[x].op = "sync" => call[x].view \in View
         /\ call[x].op \in {"book", "cancel", "complete"} => call[x].click \in Clicks
         /\ call[x].op = "book" => call[x].name \in Names
         /\ call[x].op = "order" => resource # None
         /\ call[x].op \in {"book", "order"} /\ call[x].step = "read" =>
              call[x].saw \in View /\ resource # None
<1>1. call[x] \in Calls
  BY DEF CallType
<1> QED
  BY <1>1, CallFields DEF CallsFit, X

\* PutResource, OrderRead, OrderSave, BookRead, Rename, RefuseBooking, RowRead and
\* Forbid serve a call.
LEMMA ServedEffect ==
  ASSUME TypeOK, CallsFit, NEW x \in X,
         \/ PutResource(x) \/ OrderRead(x) \/ OrderSave(x) \/ BookRead(x) \/ Rename(x)
         \/ RefuseBooking(x) \/ RowRead(x) \/ Forbid(x)
  PROVE  Served(x)
<1> USE DEF remoteVars, customer
<1>a. CallType /\ resource \in View \cup {None}
  BY DEF TypeOK, CallType, X
<1>r. ASSUME NEW status \in {"created", "refused", "ok"}, call[x] # None, Reply(x, status),
             UNCHANGED <<booking, told, undone, thread, profile>>, call[x].step # "done",
             call[x].op \in {"book", "cancel"} => status = "refused",
             resource' \in View \cup {None}, resource # None => resource' # None
      PROVE  Served(x)
  <2>1. Replied(x, status)
    BY <1>r, <1>a, ReplyEffect
  <2> QED
    BY <2>1, <1>r DEF Replied, Served
<1>w. ASSUME NEW row \in View \cup {None}, call[x] # None, Reads(x, row),
             UNCHANGED <<booking, told, undone, thread, profile, resource>>, call[x].step # "done",
             call[x].op \in {"book", "order"} => row \in View /\ resource # None
      PROVE  Served(x)
  <2>1. WentOn(x, "read") /\ call'[x].saw = row
    BY <1>w, <1>a, ReadsEffect
  <2> QED
    BY <2>1, <1>w, <1>a DEF WentOn, Served
<1>1. CASE PutResource(x)
  <2>1. call[x].view \in View
    BY <1>1, <1>a, CallOf DEF PutResource, Handling
  <2>2. call[x].view # None
    BY <2>1, GatewayAssumption
  <2> QED
    BY <1>1, <2>1, <2>2, <1>r DEF PutResource, Handling
<1>2. CASE OrderRead(x)
  <2>1. resource # None
    BY <1>2, <1>a, CallOf DEF OrderRead, Handling
  <2> QED
    BY <1>2, <2>1, <1>w, <1>a DEF OrderRead, Handling
<1>3. CASE OrderSave(x)
  <2>1. call[x].saw \in View /\ resource \in View
    BY <1>3, <1>a, CallOf DEF OrderSave, Handling
  <2>2. [call[x].saw EXCEPT !.look = resource.look] \in View
    BY <2>1 DEF View
  <2>3. resource' \in View /\ resource' # None
    BY <1>3, <2>2, GatewayAssumption DEF OrderSave
  <2> QED
    BY <1>3, <2>3, <1>r DEF OrderSave, Handling
<1>4. CASE BookRead(x)
  <2>1. CASE resource = None
    BY <1>4, <2>1, <1>r, <1>a DEF BookRead, Handling
  <2>2. CASE resource # None
    BY <1>4, <2>2, <1>w, <1>a DEF BookRead, Handling
  <2> QED
    BY <2>1, <2>2
<1>5. CASE Rename(x)
  <2> DEFINE d == [call[x] EXCEPT !.step = "named"]
  <2>1. /\ call[x] \in Calls /\ call[x].saw \in View /\ resource \in View
        /\ call[x].name \in Names /\ call[x].op = "book" /\ call[x].step = "read"
    BY <1>5, <1>a, CallOf DEF Rename, Handling
  <2>2. /\ d \in Calls /\ d.step = "named" /\ d.status = call[x].status /\ d.op = call[x].op
        /\ d.click = call[x].click /\ d.view = call[x].view /\ d.name = call[x].name
    BY <2>1 DEF Calls
  <2>3. [call[x].saw EXCEPT !.name = call[x].name, !.look = resource.look] \in View
    BY <2>1 DEF View
  <2>4. resource' \in View /\ resource' # None
    BY <1>5, <2>1, <2>3, GatewayAssumption DEF Rename
  <2>5. call' = [call EXCEPT ![x] = d]
    BY <1>5, <1>a DEF Rename, CallType
  <2> HIDE DEF d
  <2>6. d # None
    BY <2>2, CallFields
  <2>7. OthersWait(x) /\ call'[x] = d
    BY <2>2, <2>5, <1>a DEF OthersWait, CallType
  <2>8. UNCHANGED <<booking, told, undone, thread, profile>> /\ call[x] # None
    BY <1>5 DEF Rename, Handling
  <2> QED
    BY <2>1, <2>2, <2>4, <2>6, <2>7, <2>8 DEF Served
<1>6. CASE RefuseBooking(x)
  BY <1>6, <1>r, <1>a DEF RefuseBooking, Handling
<1>7. CASE RowRead(x)
  <2>1. /\ call[x] # None /\ call[x].op \in {"cancel", "complete"} /\ call[x].step = "sent"
        /\ UNCHANGED <<booking, told, undone, thread, profile, resource>>
        /\ Reads(x, None) \/ Reply(x, "refused")
    BY <1>7 DEF RowRead, Handling
  <2> QED
    BY <2>1, <1>r, <1>w, <1>a
<1>8. CASE Forbid(x)
  BY <1>8, <1>r, <1>a DEF Forbid
<1> QED
  BY <1>1, <1>2, <1>3, <1>4, <1>5, <1>6, <1>7, <1>8

\* Reserve gives the click its row and answers; the answer may be an error.
LEMMA ReserveEffect ==
  ASSUME TypeOK, CallsFit, NEW x \in X, Reserve(x)
  PROVE  /\ RowSet(x, "CONFIRMED") /\ call[x].op = "book" /\ call[x].step = "named"
         /\ Replied(x, "created") \/ Replied(x, "error")
<1> USE DEF customer
<1>a. CallType
  BY DEF TypeOK, CallType, X
<1>1. Handling(x, "book", "named") /\ call[x].click \in Clicks
  BY <1>a, CallOf DEF Reserve, Handling
<1>2. Replied(x, "created") \/ Replied(x, "error")
  BY <1>1, <1>a, ReplyEffect DEF Reserve, Handling
<1> QED
  BY <1>1, <1>2 DEF Reserve, Handling, RowSet

LEMMA CancelEffect ==
  ASSUME TypeOK, CallsFit, NEW x \in X, CancelDelete(x)
  PROVE  RowSet(x, "deleted") /\ call[x].op = "cancel" /\ Replied(x, "deleted")
<1> USE DEF customer
<1>a. CallType
  BY DEF TypeOK, CallType, X
<1>1. Handling(x, "cancel", "read") /\ call[x].click \in Clicks
  BY <1>a, CallOf DEF CancelDelete, Handling
<1>2. Replied(x, "deleted")
  BY <1>1, <1>a, ReplyEffect DEF CancelDelete, Handling
<1> QED
  BY <1>1, <1>2 DEF CancelDelete, Handling, RowSet

LEMMA CompleteEffect ==
  ASSUME TypeOK, CallsFit, NEW x \in X, CompleteSave(x)
  PROVE  RowSet(x, "COMPLETED") /\ call[x].op = "complete" /\ Replied(x, "ok")
<1> USE DEF customer
<1>a. CallType
  BY DEF TypeOK, CallType, X
<1>1. Handling(x, "complete", "read") /\ call[x].click \in Clicks
  BY <1>a, CallOf DEF CompleteSave, Handling
<1>2. Replied(x, "ok")
  BY <1>1, <1>a, ReplyEffect DEF CompleteSave, Handling
<1> QED
  BY <1>1, <1>2 DEF CompleteSave, Handling, RowSet

\* A request of System A sends a call about a new booking, a booking or the profile.
Sending(t, c) ==
  /\ Sent(t, c) /\ c \in Calls /\ c.step = "sent" /\ c.status = None
  /\ Waits(t) /\ UNCHANGED <<booking, undone, resource>> /\ profile' \in Profile

\* A request of System A has its answer.
Ended(t) ==
  /\ call[t] # None /\ call[t].step = "done"
  /\ OthersWait(t) /\ call'[t] = None
  /\ Rests(t) /\ UNCHANGED <<booking, resource>> /\ profile' \in Profile

\* A request of System A gave up; its call is gone, or goes on in a place of its own.
Dropped(t) == OthersWait(t) /\ call'[t] = None
Moved(t, l) ==
  /\ call[l] = None /\ call[t] # None
  /\ call'[l] = call[t] /\ call'[t] = None
  /\ CallType' /\ \A z \in X \ {t, l} : call'[z] = call[z]
GaveUp(t) ==
  /\ Rests(t) /\ UNCHANGED <<booking, resource, told, undone, profile>>
  /\ Dropped(t) \/ \E l \in Late : Moved(t, l)

\* The pages of the cast and the staff change neither calls nor bookings.
Edited ==
  /\ UNCHANGED <<call, booking, told, undone, profile>>
  /\ resource' \in View \cup {None} /\ (resource # None => resource' # None)
  /\ thread' = thread \/ \E t \in Threads : OthersRun(t) /\ thread'[t].pc = "edit" /\ thread'[t].mine # None

\* What the requests send: a push, a booking, a change of a booking.
Pushed(t, c) ==
  /\ Sending(t, c) /\ told' = told /\ c.op \in {"sync", "order"}
  /\ c.op = "sync" => c.view \in View
  /\ c.op = "order" => resource # None
Clicked(t, c) ==
  /\ Sending(t, c) /\ c.op = "book" /\ c.click \in Clicks /\ c.name \in Names
  /\ told[c.click] = "nothing" /\ told' = [told EXCEPT ![c.click] = "unknown"]
Asked(t, c) ==
  /\ Sending(t, c) /\ told' = told /\ c.op \in {"cancel", "complete"}
  /\ c.click \in Clicks /\ booking[c.click] # "none"
Refused(k) ==
  /\ told[k] = "nothing" /\ told' = [told EXCEPT ![k] = "refused"]
  /\ UNCHANGED <<call, thread, booking, undone, resource, profile>>

\* How a request ends.
EndedPush(t) == Ended(t) /\ UNCHANGED <<told, undone>>
EndedBook(t) ==
  /\ Ended(t) /\ undone' = undone /\ call[t].op = "book" /\ call[t].click \in Clicks
  /\ \/ told' = [told EXCEPT ![call[t].click] = "booked"] /\ call[t].status = "created"
     \/ told' = [told EXCEPT ![call[t].click] = "refused"] /\ call[t].status = "refused"
     \/ told' = [told EXCEPT ![call[t].click] = "unknown"]
EndedChange(t) ==
  /\ Ended(t) /\ told' = told /\ call[t].click \in Clicks
  /\ \/ undone' = undone
     \/ /\ undone' = undone \cup {call[t].click}
        /\ call[t].op = "cancel" /\ call[t].status = "deleted"

\* A handler that makes or changes a row answers at once.
Reserved(x) ==
  /\ RowSet(x, "CONFIRMED") /\ call[x].op = "book" /\ call[x].step = "named"
  /\ Replied(x, "created") \/ Replied(x, "error")
Cancelled(x) == RowSet(x, "deleted") /\ call[x].op = "cancel" /\ Replied(x, "deleted")
Completed(x) == RowSet(x, "COMPLETED") /\ call[x].op = "complete" /\ Replied(x, "ok")

LEMMA ViewNotNone == \A v \in View \cup Profile : v # None
  BY GatewayAssumption

LEMMA SendWaits ==
  ASSUME ThreadType, NEW t \in Threads, NEW mine \in Profile \cup {None}, NEW c, Send(t, mine, c)
  PROVE  Waits(t)
  BY DEF ThreadType, Send, Waits, OthersRun

LEMMA FinishRests ==
  ASSUME ThreadType, NEW t \in Threads, thread' = [thread EXCEPT ![t] = Idle]
  PROVE  Rests(t)
  BY DEF ThreadType, Idle, Rests, OthersRun

\* SaveEdit, Login and Drag send what is not about a booking.
LEMMA PushEffect ==
  ASSUME TypeOK, ThreadsFit, NEW t \in Threads, SaveEdit(t) \/ Login(t) \/ Drag(t)
  PROVE  \E c : Pushed(t, c)
<1> USE DEF remoteVars, customer
<1>a. CallType /\ ThreadType /\ profile \in Profile
  BY DEF TypeOK, CallType, ThreadType, X
<1>1. CASE SaveEdit(t)
  <2> DEFINE mine == thread[t].mine  c == Call("sync", None, mine.view)
  <2>1. mine \in Profile
    BY <1>1, <1>a DEF SaveEdit, ThreadsFit, ThreadType
  <2>2. mine.view \in View
    BY <2>1 DEF Profile
  <2>3. c \in Calls /\ c.op = "sync" /\ c.view = mine.view /\ c.step = "sent" /\ c.status = None
    BY <2>2, CallEffect
  <2>4. profile' = mine /\ Send(t, mine, c) /\ UNCHANGED <<booking, undone, resource, told>>
    BY <1>1 DEF SaveEdit
  <2> HIDE DEF c, mine
  <2>5. Sent(t, c) /\ Waits(t)
    BY <2>1, <2>3, <2>4, <1>a, SendEffect, SendWaits
  <2>6. c.view \in View
    BY <2>2, <2>3
  <2> WITNESS c
  <2> QED
    BY <2>1, <2>3, <2>4, <2>5, <2>6 DEF Sending, Pushed
<1>2. CASE Login(t)
  <2> DEFINE c == Call("sync", None, profile.view)
  <2>2. profile.view \in View
    BY <1>a DEF Profile
  <2>3. c \in Calls /\ c.op = "sync" /\ c.view = profile.view /\ c.step = "sent" /\ c.status = None
    BY <2>2, CallEffect
  <2>4. profile' = profile /\ Send(t, profile, c) /\ UNCHANGED <<booking, undone, resource, told>>
    BY <1>2 DEF Login
  <2> HIDE DEF c
  <2>5. Sent(t, c) /\ Waits(t)
    BY <2>3, <2>4, <1>a, SendEffect, SendWaits
  <2>6. c.view \in View
    BY <2>2, <2>3
  <2> WITNESS c
  <2> QED
    BY <1>a, <2>3, <2>4, <2>5, <2>6 DEF Sending, Pushed
<1>3. CASE Drag(t)
  <2> DEFINE c == Call("order", None, None)
  <2>3. c \in Calls /\ c.op = "order" /\ c.step = "sent" /\ c.status = None
    BY CallEffect
  <2>4. /\ profile' = profile /\ Send(t, None, c) /\ UNCHANGED <<booking, undone, resource, told>>
        /\ resource # None
    BY <1>3 DEF Drag
  <2> HIDE DEF c
  <2>5. Sent(t, c) /\ Waits(t)
    BY <2>3, <2>4, <1>a, SendEffect, SendWaits
  <2> WITNESS c
  <2> QED
    BY <1>a, <2>3, <2>4, <2>5 DEF Sending, Pushed
<1> QED
  BY <1>1, <1>2, <1>3

\* A click is refused by System A, or its booking is asked for.
LEMMA ClickEffect ==
  ASSUME TypeOK, NEW t \in Threads, NEW k \in Clicks, NEW n \in Names, Click(t, k, n)
  PROVE  Refused(k) \/ \E c : Clicked(t, c)
<1> USE DEF remoteVars
<1>a. CallType /\ ThreadType /\ profile \in Profile
  BY DEF TypeOK, CallType, ThreadType, X
<1> DEFINE c == [Call("book", k, None) EXCEPT !.name = n]
<1>1. c \in Calls /\ c.op = "book" /\ c.click = k /\ c.name = n /\ c.step = "sent" /\ c.status = None
  BY DEF Call, Calls
<1>2. /\ told[k] = "nothing" /\ UNCHANGED <<booking, undone, resource, profile>>
      /\ \/ told' = [told EXCEPT ![k] = "refused"] /\ UNCHANGED <<thread, call>>
         \/ told' = [told EXCEPT ![k] = "unknown"] /\ Send(t, None, c)
  BY DEF Click
<1> HIDE DEF c
<1>3. ASSUME Send(t, None, c) PROVE Sending(t, c)
  <2>1. Sent(t, c) /\ Waits(t)
    BY <1>1, <1>3, <1>a, SendEffect, SendWaits
  <2> QED
    BY <1>1, <1>2, <1>a, <2>1 DEF Sending
<1> QED
  BY <1>1, <1>2, <1>3 DEF Refused, Clicked

\* A cancellation or completion is asked for a row that is or was there.
LEMMA AskEffect ==
  ASSUME TypeOK, NEW t \in Threads, NEW op \in {"cancel", "complete"}, NEW k \in Clicks,
         Ask(t, op, k)
  PROVE  \E c : Asked(t, c)
<1> USE DEF remoteVars, customer
<1>a. CallType /\ ThreadType /\ profile \in Profile
  BY DEF TypeOK, CallType, ThreadType, X
<1> DEFINE c == Call(op, k, None)
<1>1. c \in Calls /\ c.op = op /\ c.click = k /\ c.step = "sent" /\ c.status = None
  BY CallEffect
<1>2. /\ booking[k] # "none" /\ UNCHANGED <<booking, undone, resource, profile, told>>
      /\ Send(t, None, c)
  BY DEF Ask
<1> HIDE DEF c
<1>3. Sent(t, c) /\ Waits(t)
  BY <1>1, <1>2, <1>a, SendEffect, SendWaits
<1> QED
  BY <1>1, <1>2, <1>3, <1>a DEF Sending, Asked

\* SyncAnswered, DragAnswered, BookAnswered and ChangeAnswered end a request.
LEMMA EndEffect ==
  ASSUME TypeOK, CallsFit, NEW t \in Threads, Answered(t)
  PROVE  EndedPush(t) \/ EndedBook(t) \/ EndedChange(t)
<1> USE DEF remoteVars, customer
<1>a. CallType /\ ThreadType /\ profile \in Profile
  BY DEF TypeOK, CallType, ThreadType, X
<1>1. /\ call[t] # None /\ call[t].step = "done" /\ Finish(t)
      /\ UNCHANGED <<booking, resource>>
  BY DEF Answered, SyncAnswered, DragAnswered, BookAnswered, ChangeAnswered
<1>2. OthersWait(t) /\ call'[t] = None /\ Rests(t)
  BY <1>1, <1>a, FinishEffect, FinishRests DEF Finish
<1>3. profile' \in Profile
  BY <1>a DEF Answered, SyncAnswered, DragAnswered, BookAnswered, ChangeAnswered, Profile
<1>4. Ended(t)
  BY <1>1, <1>2, <1>3 DEF Ended
<1>5. call[t].op \in {"book", "cancel", "complete"} => call[t].click \in Clicks
  BY <1>1, <1>a, CallOf DEF X
<1>6. SyncAnswered(t) \/ DragAnswered(t) => EndedPush(t)
  BY <1>4 DEF SyncAnswered, DragAnswered, EndedPush
<1>7. BookAnswered(t) => EndedBook(t)
  BY <1>4, <1>5 DEF BookAnswered, EndedBook
<1>8. ChangeAnswered(t) => EndedChange(t)
  BY <1>4, <1>5 DEF ChangeAnswered, EndedChange
<1> QED
  BY <1>6, <1>7, <1>8 DEF Answered

\* GiveUp drops the call or leaves it to itself.
LEMMA GiveUpEffect ==
  ASSUME TypeOK, ThreadsFit, NEW t \in Threads, GiveUp(t)
  PROVE  GaveUp(t)
<1> USE DEF remoteVars, customer
<1>a. CallType /\ ThreadType
  BY DEF TypeOK, CallType, ThreadType, X
<1>1. /\ UNCHANGED <<booking, resource, told, undone, profile>>
      /\ thread' = [thread EXCEPT ![t] = Idle] /\ call[t] # None
  BY DEF GiveUp, ThreadsFit
<1>2. Rests(t)
  BY <1>1, <1>a, FinishRests
<1>3. CASE call' = [call EXCEPT ![t] = None]
  <2>1. Dropped(t)
    BY <1>3, <1>a DEF Dropped, OthersWait, CallType, X
  <2> QED
    BY <1>1, <1>2, <2>1 DEF GaveUp
<1>4. ASSUME NEW l \in Late, call[l] = None, call' = [call EXCEPT ![t] = None, ![l] = call[t]]
      PROVE  GaveUp(t)
  <2>1. t # l /\ t \in X /\ l \in X
    BY GatewayAssumption DEF X
  <2>2. Moved(t, l)
    BY <1>1, <1>4, <1>a, <2>1 DEF Moved, CallType
  <2> QED
    BY <1>1, <1>2, <2>2 DEF GaveUp
<1> QED
  BY <1>3, <1>4 DEF GiveUp

\* Edit fills a form and EditRemote is a page of System B.
LEMMA EditEffect ==
  ASSUME TypeOK, EditRemote \/ \E t \in Threads, v \in Views : Edit(t, v)
  PROVE  Edited
<1> USE DEF remoteVars, customer
<1>a. ThreadType /\ profile \in Profile /\ resource \in View \cup {None}
  BY DEF TypeOK, ThreadType
<1>1. CASE EditRemote
  <2>1. resource' \in View /\ UNCHANGED <<call, booking, told, undone, profile, thread>>
    BY <1>1, GatewayAssumption DEF EditRemote
  <2> QED
    BY <2>1, ViewNotNone DEF Edited
<1>2. ASSUME NEW t \in Threads, NEW v \in Views, Edit(t, v) PROVE Edited
  <2> DEFINE mine == [profile EXCEPT !.view = v]
  <2>1. mine \in Profile
    BY <1>a, GatewayAssumption DEF Profile
  <2>2. /\ thread' = [thread EXCEPT ![t] = [pc |-> "edit", mine |-> mine]]
        /\ UNCHANGED <<call, booking, told, undone, profile, resource>>
    BY <1>2 DEF Edit
  <2> HIDE DEF mine
  <2>3. OthersRun(t) /\ thread'[t].pc = "edit" /\ thread'[t].mine # None
    BY <2>1, <2>2, <1>a, ViewNotNone DEF OthersRun, ThreadType
  <2> QED
    BY <2>2, <2>3, <1>a DEF Edited
<1> QED
  BY <1>1, <1>2

\* Every step is one of these kinds.
LEMMA StepKinds ==
  ASSUME TypeOK, CallsFit, ThreadsFit, [Next]_vars
  PROVE  \/ \E t \in Threads, c \in Calls : Pushed(t, c) \/ Clicked(t, c) \/ Asked(t, c)
         \/ \E k \in Clicks : Refused(k)
         \/ \E t \in Threads : EndedPush(t) \/ EndedBook(t) \/ EndedChange(t) \/ GaveUp(t)
         \/ \E x \in X : Served(x) \/ Reserved(x) \/ Cancelled(x) \/ Completed(x)
         \/ Edited
<1> USE DEF remoteVars, customer
<1>a. Threads \subseteq X /\ Late \subseteq X /\ resource \in View \cup {None}
  BY DEF X, TypeOK
<1>c. \A t, c : Sending(t, c) => c \in Calls
  BY DEF Sending
<1>1. ASSUME NEW t \in Threads, SaveEdit(t) \/ Login(t) \/ Drag(t) PROVE \E c \in Calls : Pushed(t, c)
  BY <1>1, <1>c, PushEffect DEF Pushed
<1>2. ASSUME NEW t \in Threads, NEW k \in Clicks, NEW n \in Names, Click(t, k, n)
      PROVE  Refused(k) \/ \E c \in Calls : Clicked(t, c)
  BY <1>2, <1>c, ClickEffect DEF Clicked
<1>3. ASSUME NEW t \in Threads, NEW op \in {"cancel", "complete"}, NEW k \in Clicks, Ask(t, op, k)
      PROVE  \E c \in Calls : Asked(t, c)
  BY <1>3, <1>c, AskEffect DEF Asked
<1>4. ASSUME NEW t \in Threads, Answered(t)
      PROVE  EndedPush(t) \/ EndedBook(t) \/ EndedChange(t)
  BY <1>4, EndEffect
<1>5. ASSUME NEW t \in Threads, GiveUp(t) PROVE GaveUp(t)
  BY <1>5, GiveUpEffect
<1>6. ASSUME NEW x \in X, Handle(x) \/ Forbid(x)
      PROVE  Served(x) \/ Reserved(x) \/ Cancelled(x) \/ Completed(x)
  <2>1. Reserve(x) => Reserved(x)
    BY ReserveEffect DEF Reserved
  <2>2. CancelDelete(x) => Cancelled(x)
    BY CancelEffect DEF Cancelled
  <2>3. CompleteSave(x) => Completed(x)
    BY CompleteEffect DEF Completed
  <2> QED
    BY <1>6, <2>1, <2>2, <2>3, ServedEffect DEF Handle
<1>7. ASSUME EditRemote \/ \E t \in Threads, v \in Views : Edit(t, v) PROVE Edited
  BY <1>7, EditEffect
<1>8. ASSUME UNCHANGED vars PROVE Edited
  BY <1>8, <1>a DEF vars, Edited
<1> QED
  BY <1>1, <1>2, <1>3, <1>4, <1>5, <1>6, <1>7, <1>8, <1>a DEF Next, Work

---------------------------------------------------------------------------
(* Every conjunct of the inductive invariant is kept by every kind of step *)

\* Every variable keeps its type.
LEMMA TypeOKStep == ASSUME IInv, [Next]_vars PROVE TypeOK'
<1> USE DEF X
<1>a. TypeOK /\ Threads \subseteq X
  BY DEF IInv
<1>1. ASSUME NEW t \in Threads, NEW c \in Calls, Pushed(t, c) PROVE TypeOK'
  BY <1>1, <1>a DEF Pushed, Sending, Sent, OthersWait, Waits, TypeOK, CallType,
     ThreadType, OthersRun
<1>2. ASSUME NEW t \in Threads, NEW c \in Calls, Clicked(t, c) PROVE TypeOK'
  BY <1>2, <1>a DEF Clicked, Sending, Sent, OthersWait, Waits, TypeOK, CallType,
     ThreadType, OthersRun
<1>3. ASSUME NEW t \in Threads, NEW c \in Calls, Asked(t, c) PROVE TypeOK'
  BY <1>3, <1>a DEF Asked, Sending, Sent, OthersWait, Waits, TypeOK, CallType,
     ThreadType, OthersRun
<1>4. ASSUME NEW k \in Clicks, Refused(k) PROVE TypeOK'
  BY <1>4, <1>a DEF Refused, TypeOK, CallType, ThreadType, OthersRun
<1>5. ASSUME NEW t \in Threads, EndedPush(t) PROVE TypeOK'
  BY <1>5, <1>a DEF EndedPush, Ended, OthersWait, Rests, TypeOK, CallType, ThreadType,
     OthersRun
<1>6. ASSUME NEW t \in Threads, EndedBook(t) PROVE TypeOK'
  BY <1>6, <1>a DEF EndedBook, Ended, OthersWait, Rests, TypeOK, CallType, ThreadType,
     OthersRun
<1>7. ASSUME NEW t \in Threads, EndedChange(t) PROVE TypeOK'
  BY <1>7, <1>a DEF EndedChange, Ended, OthersWait, Rests, TypeOK, CallType,
     ThreadType, OthersRun
<1>8. ASSUME NEW t \in Threads, GaveUp(t), Dropped(t) PROVE TypeOK'
  BY <1>8, <1>a DEF GaveUp, Dropped, OthersWait, Rests, TypeOK, CallType, ThreadType,
     OthersRun
<1>9. ASSUME NEW t \in Threads, GaveUp(t), NEW l \in Late, Moved(t, l) PROVE TypeOK'
  BY <1>9, <1>a DEF GaveUp, Moved, Rests, TypeOK, CallType, ThreadType, OthersRun
<1>10. ASSUME NEW x \in X, Served(x) PROVE TypeOK'
  BY <1>10, <1>a DEF Served, OthersWait, TypeOK, CallType, ThreadType, OthersRun
<1>11. ASSUME NEW x \in X, Reserved(x) PROVE TypeOK'
  <2>k. PICK k \in Clicks : k = call[x].click
    BY <1>11 DEF Reserved, RowSet
  <2>1. /\ booking' \in [Clicks -> Rows] /\ booking'[k] = "CONFIRMED"
        /\ \A j \in Clicks : j # k => booking'[j] = booking[j]
        /\ UNCHANGED <<resource, told, undone, thread, profile>>
    BY <1>11, <1>a, <2>k, RowSetEffect DEF Reserved, RowSet, TypeOK, Rows
  <2>2. call[x] # None /\ call[x].op = "book" /\ call[x].step = "named"
    BY <1>11 DEF Reserved, RowSet
  <2>3. /\ CallType' /\ \A z \in X : z # x => call'[z] = call[z]
        /\ call'[x] # None => /\ call'[x].step = "done" /\ call'[x].click = k
                              /\ call'[x].op = call[x].op /\ call'[x].status \in {"created", "error"}
                              /\ call'[x].view = call[x].view /\ call'[x].name = call[x].name
        /\ x \in Threads => call'[x] # None
    BY <1>11, <2>k DEF Reserved, Replied, OthersWait
  <2> QED
    BY <1>a, <2>k, <2>1, <2>2, <2>3 DEF TypeOK, CallType, ThreadType, OthersRun
<1>12. ASSUME NEW x \in X, Cancelled(x) PROVE TypeOK'
  <2>k. PICK k \in Clicks : k = call[x].click
    BY <1>12 DEF Cancelled, RowSet
  <2>1. /\ booking' \in [Clicks -> Rows] /\ booking'[k] = "deleted"
        /\ \A j \in Clicks : j # k => booking'[j] = booking[j]
        /\ UNCHANGED <<resource, told, undone, thread, profile>>
    BY <1>12, <1>a, <2>k, RowSetEffect DEF Cancelled, RowSet, TypeOK, Rows
  <2>2. call[x] # None /\ call[x].op = "cancel"
    BY <1>12 DEF Cancelled, RowSet
  <2>3. /\ CallType' /\ \A z \in X : z # x => call'[z] = call[z]
        /\ call'[x] # None => /\ call'[x].step = "done" /\ call'[x].click = k
                              /\ call'[x].op = call[x].op /\ call'[x].status \in {"deleted"}
                              /\ call'[x].view = call[x].view /\ call'[x].name = call[x].name
        /\ x \in Threads => call'[x] # None
    BY <1>12, <2>k DEF Cancelled, Replied, OthersWait
  <2> QED
    BY <1>a, <2>k, <2>1, <2>2, <2>3 DEF TypeOK, CallType, ThreadType, OthersRun
<1>13. ASSUME NEW x \in X, Completed(x) PROVE TypeOK'
  <2>k. PICK k \in Clicks : k = call[x].click
    BY <1>13 DEF Completed, RowSet
  <2>1. /\ booking' \in [Clicks -> Rows] /\ booking'[k] = "COMPLETED"
        /\ \A j \in Clicks : j # k => booking'[j] = booking[j]
        /\ UNCHANGED <<resource, told, undone, thread, profile>>
    BY <1>13, <1>a, <2>k, RowSetEffect DEF Completed, RowSet, TypeOK, Rows
  <2>2. call[x] # None /\ call[x].op = "complete"
    BY <1>13 DEF Completed, RowSet
  <2>3. /\ CallType' /\ \A z \in X : z # x => call'[z] = call[z]
        /\ call'[x] # None => /\ call'[x].step = "done" /\ call'[x].click = k
                              /\ call'[x].op = call[x].op /\ call'[x].status \in {"ok"}
                              /\ call'[x].view = call[x].view /\ call'[x].name = call[x].name
        /\ x \in Threads => call'[x] # None
    BY <1>13, <2>k DEF Completed, Replied, OthersWait
  <2> QED
    BY <1>a, <2>k, <2>1, <2>2, <2>3 DEF TypeOK, CallType, ThreadType, OthersRun
<1>14. ASSUME Edited PROVE TypeOK'
  BY <1>14, <1>a DEF Edited, TypeOK, CallType, ThreadType, OthersRun
<1> QED
  BY <1>1, <1>2, <1>3, <1>4, <1>5, <1>6, <1>7, <1>8, <1>9, <1>10, <1>11, <1>12, <1>13,
     <1>14, StepKinds DEF IInv, GaveUp

\* A call keeps what it carries, and System B what it has.
LEMMA CallsFitStep == ASSUME IInv, [Next]_vars PROVE CallsFit'
<1> USE DEF X
<1>a. TypeOK /\ CallsFit /\ Threads \subseteq X
  BY DEF IInv
<1>1. ASSUME NEW t \in Threads, NEW c \in Calls, Pushed(t, c) PROVE CallsFit'
  BY <1>1, <1>a DEF Pushed, Sending, Sent, OthersWait, Waits, CallsFit
<1>2. ASSUME NEW t \in Threads, NEW c \in Calls, Clicked(t, c) PROVE CallsFit'
  BY <1>2, <1>a DEF Clicked, Sending, Sent, OthersWait, Waits, CallsFit
<1>3. ASSUME NEW t \in Threads, NEW c \in Calls, Asked(t, c) PROVE CallsFit'
  BY <1>3, <1>a DEF Asked, Sending, Sent, OthersWait, Waits, CallsFit
<1>4. ASSUME NEW k \in Clicks, Refused(k) PROVE CallsFit'
  BY <1>4, <1>a DEF Refused, CallsFit
<1>5. ASSUME NEW t \in Threads, EndedPush(t) PROVE CallsFit'
  BY <1>5, <1>a DEF EndedPush, Ended, OthersWait, Rests, CallsFit
<1>6. ASSUME NEW t \in Threads, EndedBook(t) PROVE CallsFit'
  BY <1>6, <1>a DEF EndedBook, Ended, OthersWait, Rests, CallsFit
<1>7. ASSUME NEW t \in Threads, EndedChange(t) PROVE CallsFit'
  BY <1>7, <1>a DEF EndedChange, Ended, OthersWait, Rests, CallsFit
<1>8. ASSUME NEW t \in Threads, GaveUp(t), Dropped(t) PROVE CallsFit'
  BY <1>8, <1>a DEF GaveUp, Dropped, OthersWait, Rests, CallsFit
<1>9. ASSUME NEW t \in Threads, GaveUp(t), NEW l \in Late, Moved(t, l) PROVE CallsFit'
  BY <1>9, <1>a DEF GaveUp, Moved, Rests, CallsFit
<1>10. ASSUME NEW x \in X, Served(x) PROVE CallsFit'
  BY <1>10, <1>a DEF Served, OthersWait, CallsFit
<1>11. ASSUME NEW x \in X, Reserved(x) PROVE CallsFit'
  <2>k. PICK k \in Clicks : k = call[x].click
    BY <1>11 DEF Reserved, RowSet
  <2>1. /\ booking' \in [Clicks -> Rows] /\ booking'[k] = "CONFIRMED"
        /\ \A j \in Clicks : j # k => booking'[j] = booking[j]
        /\ UNCHANGED <<resource, told, undone, thread, profile>>
    BY <1>11, <1>a, <2>k, RowSetEffect DEF Reserved, RowSet, TypeOK, Rows
  <2>2. call[x] # None /\ call[x].op = "book" /\ call[x].step = "named"
    BY <1>11 DEF Reserved, RowSet
  <2>3. /\ CallType' /\ \A z \in X : z # x => call'[z] = call[z]
        /\ call'[x] # None => /\ call'[x].step = "done" /\ call'[x].click = k
                              /\ call'[x].op = call[x].op /\ call'[x].status \in {"created", "error"}
                              /\ call'[x].view = call[x].view /\ call'[x].name = call[x].name
        /\ x \in Threads => call'[x] # None
    BY <1>11, <2>k DEF Reserved, Replied, OthersWait
  <2> QED
    BY <1>a, <2>k, <2>1, <2>2, <2>3 DEF CallsFit
<1>12. ASSUME NEW x \in X, Cancelled(x) PROVE CallsFit'
  <2>k. PICK k \in Clicks : k = call[x].click
    BY <1>12 DEF Cancelled, RowSet
  <2>1. /\ booking' \in [Clicks -> Rows] /\ booking'[k] = "deleted"
        /\ \A j \in Clicks : j # k => booking'[j] = booking[j]
        /\ UNCHANGED <<resource, told, undone, thread, profile>>
    BY <1>12, <1>a, <2>k, RowSetEffect DEF Cancelled, RowSet, TypeOK, Rows
  <2>2. call[x] # None /\ call[x].op = "cancel"
    BY <1>12 DEF Cancelled, RowSet
  <2>3. /\ CallType' /\ \A z \in X : z # x => call'[z] = call[z]
        /\ call'[x] # None => /\ call'[x].step = "done" /\ call'[x].click = k
                              /\ call'[x].op = call[x].op /\ call'[x].status \in {"deleted"}
                              /\ call'[x].view = call[x].view /\ call'[x].name = call[x].name
        /\ x \in Threads => call'[x] # None
    BY <1>12, <2>k DEF Cancelled, Replied, OthersWait
  <2> QED
    BY <1>a, <2>k, <2>1, <2>2, <2>3 DEF CallsFit
<1>13. ASSUME NEW x \in X, Completed(x) PROVE CallsFit'
  <2>k. PICK k \in Clicks : k = call[x].click
    BY <1>13 DEF Completed, RowSet
  <2>1. /\ booking' \in [Clicks -> Rows] /\ booking'[k] = "COMPLETED"
        /\ \A j \in Clicks : j # k => booking'[j] = booking[j]
        /\ UNCHANGED <<resource, told, undone, thread, profile>>
    BY <1>13, <1>a, <2>k, RowSetEffect DEF Completed, RowSet, TypeOK, Rows
  <2>2. call[x] # None /\ call[x].op = "complete"
    BY <1>13 DEF Completed, RowSet
  <2>3. /\ CallType' /\ \A z \in X : z # x => call'[z] = call[z]
        /\ call'[x] # None => /\ call'[x].step = "done" /\ call'[x].click = k
                              /\ call'[x].op = call[x].op /\ call'[x].status \in {"ok"}
                              /\ call'[x].view = call[x].view /\ call'[x].name = call[x].name
        /\ x \in Threads => call'[x] # None
    BY <1>13, <2>k DEF Completed, Replied, OthersWait
  <2> QED
    BY <1>a, <2>k, <2>1, <2>2, <2>3 DEF CallsFit
<1>14. ASSUME Edited PROVE CallsFit'
  BY <1>14, <1>a DEF Edited, CallsFit
<1> QED
  BY <1>1, <1>2, <1>3, <1>4, <1>5, <1>6, <1>7, <1>8, <1>9, <1>10, <1>11, <1>12, <1>13,
     <1>14, StepKinds DEF IInv, GaveUp

\* A request that waits has a call until it ends.
LEMMA ThreadsFitStep == ASSUME IInv, [Next]_vars PROVE ThreadsFit'
<1> USE DEF X
<1>a. TypeOK /\ ThreadsFit /\ Threads \subseteq X
  BY DEF IInv
<1>1. ASSUME NEW t \in Threads, NEW c \in Calls, Pushed(t, c) PROVE ThreadsFit'
  BY <1>1, <1>a DEF Pushed, Sending, Sent, OthersWait, Waits, ThreadsFit, At,
     OthersRun, TypeOK
<1>2. ASSUME NEW t \in Threads, NEW c \in Calls, Clicked(t, c) PROVE ThreadsFit'
  BY <1>2, <1>a DEF Clicked, Sending, Sent, OthersWait, Waits, ThreadsFit, At,
     OthersRun, TypeOK
<1>3. ASSUME NEW t \in Threads, NEW c \in Calls, Asked(t, c) PROVE ThreadsFit'
  BY <1>3, <1>a DEF Asked, Sending, Sent, OthersWait, Waits, ThreadsFit, At,
     OthersRun, TypeOK
<1>4. ASSUME NEW k \in Clicks, Refused(k) PROVE ThreadsFit'
  BY <1>4, <1>a DEF Refused, ThreadsFit, At, OthersRun, TypeOK
<1>5. ASSUME NEW t \in Threads, EndedPush(t) PROVE ThreadsFit'
  BY <1>5, <1>a DEF EndedPush, Ended, OthersWait, Rests, ThreadsFit, At, OthersRun,
     TypeOK
<1>6. ASSUME NEW t \in Threads, EndedBook(t) PROVE ThreadsFit'
  BY <1>6, <1>a DEF EndedBook, Ended, OthersWait, Rests, ThreadsFit, At, OthersRun,
     TypeOK
<1>7. ASSUME NEW t \in Threads, EndedChange(t) PROVE ThreadsFit'
  BY <1>7, <1>a DEF EndedChange, Ended, OthersWait, Rests, ThreadsFit, At, OthersRun,
     TypeOK
<1>8. ASSUME NEW t \in Threads, GaveUp(t), Dropped(t) PROVE ThreadsFit'
  BY <1>8, <1>a DEF GaveUp, Dropped, OthersWait, Rests, ThreadsFit, At, OthersRun,
     TypeOK
<1>9. ASSUME NEW t \in Threads, GaveUp(t), NEW l \in Late, Moved(t, l) PROVE ThreadsFit'
  BY <1>9, <1>a DEF GaveUp, Moved, Rests, ThreadsFit, At, OthersRun, TypeOK
<1>10. ASSUME NEW x \in X, Served(x) PROVE ThreadsFit'
  BY <1>10, <1>a DEF Served, OthersWait, ThreadsFit, At, OthersRun, TypeOK
<1>11. ASSUME NEW x \in X, Reserved(x) PROVE ThreadsFit'
  <2>k. PICK k \in Clicks : k = call[x].click
    BY <1>11 DEF Reserved, RowSet
  <2>1. /\ booking' \in [Clicks -> Rows] /\ booking'[k] = "CONFIRMED"
        /\ \A j \in Clicks : j # k => booking'[j] = booking[j]
        /\ UNCHANGED <<resource, told, undone, thread, profile>>
    BY <1>11, <1>a, <2>k, RowSetEffect DEF Reserved, RowSet, TypeOK, Rows
  <2>2. call[x] # None /\ call[x].op = "book" /\ call[x].step = "named"
    BY <1>11 DEF Reserved, RowSet
  <2>3. /\ CallType' /\ \A z \in X : z # x => call'[z] = call[z]
        /\ call'[x] # None => /\ call'[x].step = "done" /\ call'[x].click = k
                              /\ call'[x].op = call[x].op /\ call'[x].status \in {"created", "error"}
                              /\ call'[x].view = call[x].view /\ call'[x].name = call[x].name
        /\ x \in Threads => call'[x] # None
    BY <1>11, <2>k DEF Reserved, Replied, OthersWait
  <2> QED
    BY <1>a, <2>k, <2>1, <2>2, <2>3 DEF ThreadsFit, At, OthersRun, TypeOK
<1>12. ASSUME NEW x \in X, Cancelled(x) PROVE ThreadsFit'
  <2>k. PICK k \in Clicks : k = call[x].click
    BY <1>12 DEF Cancelled, RowSet
  <2>1. /\ booking' \in [Clicks -> Rows] /\ booking'[k] = "deleted"
        /\ \A j \in Clicks : j # k => booking'[j] = booking[j]
        /\ UNCHANGED <<resource, told, undone, thread, profile>>
    BY <1>12, <1>a, <2>k, RowSetEffect DEF Cancelled, RowSet, TypeOK, Rows
  <2>2. call[x] # None /\ call[x].op = "cancel"
    BY <1>12 DEF Cancelled, RowSet
  <2>3. /\ CallType' /\ \A z \in X : z # x => call'[z] = call[z]
        /\ call'[x] # None => /\ call'[x].step = "done" /\ call'[x].click = k
                              /\ call'[x].op = call[x].op /\ call'[x].status \in {"deleted"}
                              /\ call'[x].view = call[x].view /\ call'[x].name = call[x].name
        /\ x \in Threads => call'[x] # None
    BY <1>12, <2>k DEF Cancelled, Replied, OthersWait
  <2> QED
    BY <1>a, <2>k, <2>1, <2>2, <2>3 DEF ThreadsFit, At, OthersRun, TypeOK
<1>13. ASSUME NEW x \in X, Completed(x) PROVE ThreadsFit'
  <2>k. PICK k \in Clicks : k = call[x].click
    BY <1>13 DEF Completed, RowSet
  <2>1. /\ booking' \in [Clicks -> Rows] /\ booking'[k] = "COMPLETED"
        /\ \A j \in Clicks : j # k => booking'[j] = booking[j]
        /\ UNCHANGED <<resource, told, undone, thread, profile>>
    BY <1>13, <1>a, <2>k, RowSetEffect DEF Completed, RowSet, TypeOK, Rows
  <2>2. call[x] # None /\ call[x].op = "complete"
    BY <1>13 DEF Completed, RowSet
  <2>3. /\ CallType' /\ \A z \in X : z # x => call'[z] = call[z]
        /\ call'[x] # None => /\ call'[x].step = "done" /\ call'[x].click = k
                              /\ call'[x].op = call[x].op /\ call'[x].status \in {"ok"}
                              /\ call'[x].view = call[x].view /\ call'[x].name = call[x].name
        /\ x \in Threads => call'[x] # None
    BY <1>13, <2>k DEF Completed, Replied, OthersWait
  <2> QED
    BY <1>a, <2>k, <2>1, <2>2, <2>3 DEF ThreadsFit, At, OthersRun, TypeOK
<1>14. ASSUME Edited PROVE ThreadsFit'
  BY <1>14, <1>a DEF Edited, ThreadsFit, At, OthersRun, TypeOK
<1> QED
  BY <1>1, <1>2, <1>3, <1>4, <1>5, <1>6, <1>7, <1>8, <1>9, <1>10, <1>11, <1>12, <1>13,
     <1>14, StepKinds DEF IInv, GaveUp

\* A click is sent when nothing has been told of it, and moves with its call.
LEMMA SentOnceStep == ASSUME IInv, [Next]_vars PROVE SentOnce'
<1> USE DEF X
<1>a. TypeOK /\ CallsFit /\ SentOnce /\ AnswerOpen /\ Threads \subseteq X
  BY DEF IInv
<1>1. ASSUME NEW t \in Threads, NEW c \in Calls, Pushed(t, c) PROVE SentOnce'
  BY <1>1, <1>a DEF Pushed, Sending, Sent, OthersWait, Waits, SentOnce, Booking
<1>2. ASSUME NEW t \in Threads, NEW c \in Calls, Clicked(t, c) PROVE SentOnce'
  BY <1>2, <1>a DEF Clicked, Sending, Sent, OthersWait, Waits, SentOnce, Booking,
     AnswerOpen
<1>3. ASSUME NEW t \in Threads, NEW c \in Calls, Asked(t, c) PROVE SentOnce'
  BY <1>3, <1>a DEF Asked, Sending, Sent, OthersWait, Waits, SentOnce, Booking
<1>4. ASSUME NEW k \in Clicks, Refused(k) PROVE SentOnce'
  BY <1>4, <1>a DEF Refused, SentOnce, Booking
<1>5. ASSUME NEW t \in Threads, EndedPush(t) PROVE SentOnce'
  BY <1>5, <1>a DEF EndedPush, Ended, OthersWait, Rests, SentOnce, Booking
<1>6. ASSUME NEW t \in Threads, EndedBook(t) PROVE SentOnce'
  BY <1>6, <1>a DEF EndedBook, Ended, OthersWait, Rests, SentOnce, Booking
<1>7. ASSUME NEW t \in Threads, EndedChange(t) PROVE SentOnce'
  BY <1>7, <1>a DEF EndedChange, Ended, OthersWait, Rests, SentOnce, Booking
<1>8. ASSUME NEW t \in Threads, GaveUp(t), Dropped(t) PROVE SentOnce'
  BY <1>8, <1>a DEF GaveUp, Dropped, OthersWait, Rests, SentOnce, Booking
<1>9. ASSUME NEW t \in Threads, GaveUp(t), NEW l \in Late, Moved(t, l) PROVE SentOnce'
  BY <1>9, <1>a DEF GaveUp, Moved, Rests, SentOnce, Booking
<1>10. ASSUME NEW x \in X, Served(x) PROVE SentOnce'
  BY <1>10, <1>a DEF Served, OthersWait, SentOnce, Booking
<1>11. ASSUME NEW x \in X, Reserved(x) PROVE SentOnce'
  <2>k. PICK k \in Clicks : k = call[x].click
    BY <1>11 DEF Reserved, RowSet
  <2>1. /\ booking' \in [Clicks -> Rows] /\ booking'[k] = "CONFIRMED"
        /\ \A j \in Clicks : j # k => booking'[j] = booking[j]
        /\ UNCHANGED <<resource, told, undone, thread, profile>>
    BY <1>11, <1>a, <2>k, RowSetEffect DEF Reserved, RowSet, TypeOK, Rows
  <2>2. call[x] # None /\ call[x].op = "book" /\ call[x].step = "named"
    BY <1>11 DEF Reserved, RowSet
  <2>3. /\ CallType' /\ \A z \in X : z # x => call'[z] = call[z]
        /\ call'[x] # None => /\ call'[x].step = "done" /\ call'[x].click = k
                              /\ call'[x].op = call[x].op /\ call'[x].status \in {"created", "error"}
                              /\ call'[x].view = call[x].view /\ call'[x].name = call[x].name
        /\ x \in Threads => call'[x] # None
    BY <1>11, <2>k DEF Reserved, Replied, OthersWait
  <2> QED
    BY <1>a, <2>k, <2>1, <2>2, <2>3 DEF SentOnce, Booking
<1>12. ASSUME NEW x \in X, Cancelled(x) PROVE SentOnce'
  <2>k. PICK k \in Clicks : k = call[x].click
    BY <1>12 DEF Cancelled, RowSet
  <2>1. /\ booking' \in [Clicks -> Rows] /\ booking'[k] = "deleted"
        /\ \A j \in Clicks : j # k => booking'[j] = booking[j]
        /\ UNCHANGED <<resource, told, undone, thread, profile>>
    BY <1>12, <1>a, <2>k, RowSetEffect DEF Cancelled, RowSet, TypeOK, Rows
  <2>2. call[x] # None /\ call[x].op = "cancel"
    BY <1>12 DEF Cancelled, RowSet
  <2>3. /\ CallType' /\ \A z \in X : z # x => call'[z] = call[z]
        /\ call'[x] # None => /\ call'[x].step = "done" /\ call'[x].click = k
                              /\ call'[x].op = call[x].op /\ call'[x].status \in {"deleted"}
                              /\ call'[x].view = call[x].view /\ call'[x].name = call[x].name
        /\ x \in Threads => call'[x] # None
    BY <1>12, <2>k DEF Cancelled, Replied, OthersWait
  <2> QED
    BY <1>a, <2>k, <2>1, <2>2, <2>3 DEF SentOnce, Booking
<1>13. ASSUME NEW x \in X, Completed(x) PROVE SentOnce'
  <2>k. PICK k \in Clicks : k = call[x].click
    BY <1>13 DEF Completed, RowSet
  <2>1. /\ booking' \in [Clicks -> Rows] /\ booking'[k] = "COMPLETED"
        /\ \A j \in Clicks : j # k => booking'[j] = booking[j]
        /\ UNCHANGED <<resource, told, undone, thread, profile>>
    BY <1>13, <1>a, <2>k, RowSetEffect DEF Completed, RowSet, TypeOK, Rows
  <2>2. call[x] # None /\ call[x].op = "complete"
    BY <1>13 DEF Completed, RowSet
  <2>3. /\ CallType' /\ \A z \in X : z # x => call'[z] = call[z]
        /\ call'[x] # None => /\ call'[x].step = "done" /\ call'[x].click = k
                              /\ call'[x].op = call[x].op /\ call'[x].status \in {"ok"}
                              /\ call'[x].view = call[x].view /\ call'[x].name = call[x].name
        /\ x \in Threads => call'[x] # None
    BY <1>13, <2>k DEF Completed, Replied, OthersWait
  <2> QED
    BY <1>a, <2>k, <2>1, <2>2, <2>3 DEF SentOnce, Booking
<1>14. ASSUME Edited PROVE SentOnce'
  BY <1>14, <1>a DEF Edited, SentOnce, Booking
<1> QED
  BY <1>1, <1>2, <1>3, <1>4, <1>5, <1>6, <1>7, <1>8, <1>9, <1>10, <1>11, <1>12, <1>13,
     <1>14, StepKinds DEF IInv, GaveUp

\* A click is told unknown when it is sent, and more when its call is gone.
LEMMA AnswerOpenStep == ASSUME IInv, [Next]_vars PROVE AnswerOpen'
<1> USE DEF X
<1>a. TypeOK /\ CallsFit /\ SentOnce /\ AnswerOpen /\ RowOfCall /\ ChangesOfRows /\ Threads \subseteq X
  BY DEF IInv
<1>1. ASSUME NEW t \in Threads, NEW c \in Calls, Pushed(t, c) PROVE AnswerOpen'
  BY <1>1, <1>a DEF Pushed, Sending, Sent, OthersWait, Waits, AnswerOpen, Booking,
     TypeOK
<1>2. ASSUME NEW t \in Threads, NEW c \in Calls, Clicked(t, c) PROVE AnswerOpen'
  BY <1>2, <1>a DEF Clicked, Sending, Sent, OthersWait, Waits, AnswerOpen, Booking,
     TypeOK
<1>3. ASSUME NEW t \in Threads, NEW c \in Calls, Asked(t, c) PROVE AnswerOpen'
  BY <1>3, <1>a DEF Asked, Sending, Sent, OthersWait, Waits, AnswerOpen, Booking,
     TypeOK
<1>4. ASSUME NEW k \in Clicks, Refused(k) PROVE AnswerOpen'
  BY <1>4, <1>a DEF Refused, AnswerOpen, Booking, TypeOK
<1>5. ASSUME NEW t \in Threads, EndedPush(t) PROVE AnswerOpen'
  BY <1>5, <1>a DEF EndedPush, Ended, OthersWait, Rests, AnswerOpen, Booking, TypeOK
<1>6. ASSUME NEW t \in Threads, EndedBook(t) PROVE AnswerOpen'
  <2>k. PICK k \in Clicks : k = call[t].click
    BY <1>6 DEF EndedBook
  <2>1. /\ \A j \in Clicks : j # k => told'[j] = told[j]
        /\ told'[k] # "nothing" /\ UNCHANGED booking
    BY <1>6, <1>a, <2>k DEF EndedBook, Ended, TypeOK
  <2>2. /\ call'[t] = None /\ \A z \in X : z # t => call'[z] = call[z]
        /\ Booking(t)
    BY <1>6 DEF EndedBook, Ended, OthersWait, Booking
  <2>3. \A z \in X : z # t /\ Booking(z) => call[z].click # k
    BY <1>a, <2>k, <2>2 DEF SentOnce
  <2>4. \A z \in X : Booking(z)' => z # t /\ Booking(z) /\ call'[z].click = call[z].click
    BY <2>2 DEF Booking
  <2>5. \A z \in X : Booking(z) => call[z].click \in Clicks
    BY <1>a DEF CallsFit, Booking
  <2> QED
    BY <1>a, <2>1, <2>3, <2>4, <2>5 DEF AnswerOpen
<1>7. ASSUME NEW t \in Threads, EndedChange(t) PROVE AnswerOpen'
  BY <1>7, <1>a DEF EndedChange, Ended, OthersWait, Rests, AnswerOpen, Booking, TypeOK
<1>8. ASSUME NEW t \in Threads, GaveUp(t), Dropped(t) PROVE AnswerOpen'
  BY <1>8, <1>a DEF GaveUp, Dropped, OthersWait, Rests, AnswerOpen, Booking, TypeOK
<1>9. ASSUME NEW t \in Threads, GaveUp(t), NEW l \in Late, Moved(t, l) PROVE AnswerOpen'
  BY <1>9, <1>a DEF GaveUp, Moved, Rests, AnswerOpen, Booking, TypeOK
<1>10. ASSUME NEW x \in X, Served(x) PROVE AnswerOpen'
  BY <1>10, <1>a DEF Served, OthersWait, AnswerOpen, Booking, TypeOK
<1>11. ASSUME NEW x \in X, Reserved(x) PROVE AnswerOpen'
  <2>k. PICK k \in Clicks : k = call[x].click
    BY <1>11 DEF Reserved, RowSet
  <2>1. /\ booking' \in [Clicks -> Rows] /\ booking'[k] = "CONFIRMED"
        /\ \A j \in Clicks : j # k => booking'[j] = booking[j]
        /\ UNCHANGED <<resource, told, undone, thread, profile>>
    BY <1>11, <1>a, <2>k, RowSetEffect DEF Reserved, RowSet, TypeOK, Rows
  <2>2. call[x] # None /\ call[x].op = "book" /\ call[x].step = "named"
    BY <1>11 DEF Reserved, RowSet
  <2>3. /\ CallType' /\ \A z \in X : z # x => call'[z] = call[z]
        /\ call'[x] # None => /\ call'[x].step = "done" /\ call'[x].click = k
                              /\ call'[x].op = call[x].op /\ call'[x].status \in {"created", "error"}
                              /\ call'[x].view = call[x].view /\ call'[x].name = call[x].name
        /\ x \in Threads => call'[x] # None
    BY <1>11, <2>k DEF Reserved, Replied, OthersWait
  <2> QED
    BY <1>a, <2>k, <2>1, <2>2, <2>3 DEF AnswerOpen, Booking, TypeOK
<1>12. ASSUME NEW x \in X, Cancelled(x) PROVE AnswerOpen'
  <2>k. PICK k \in Clicks : k = call[x].click
    BY <1>12 DEF Cancelled, RowSet
  <2>1. /\ booking' \in [Clicks -> Rows] /\ booking'[k] = "deleted"
        /\ \A j \in Clicks : j # k => booking'[j] = booking[j]
        /\ UNCHANGED <<resource, told, undone, thread, profile>>
    BY <1>12, <1>a, <2>k, RowSetEffect DEF Cancelled, RowSet, TypeOK, Rows
  <2>2. call[x] # None /\ call[x].op = "cancel"
    BY <1>12 DEF Cancelled, RowSet
  <2>3. /\ CallType' /\ \A z \in X : z # x => call'[z] = call[z]
        /\ call'[x] # None => /\ call'[x].step = "done" /\ call'[x].click = k
                              /\ call'[x].op = call[x].op /\ call'[x].status \in {"deleted"}
                              /\ call'[x].view = call[x].view /\ call'[x].name = call[x].name
        /\ x \in Threads => call'[x] # None
    BY <1>12, <2>k DEF Cancelled, Replied, OthersWait
  <2> QED
    BY <1>a, <2>k, <2>1, <2>2, <2>3 DEF AnswerOpen, Booking, TypeOK, ChangesOfRows
<1>13. ASSUME NEW x \in X, Completed(x) PROVE AnswerOpen'
  <2>k. PICK k \in Clicks : k = call[x].click
    BY <1>13 DEF Completed, RowSet
  <2>1. /\ booking' \in [Clicks -> Rows] /\ booking'[k] = "COMPLETED"
        /\ \A j \in Clicks : j # k => booking'[j] = booking[j]
        /\ UNCHANGED <<resource, told, undone, thread, profile>>
    BY <1>13, <1>a, <2>k, RowSetEffect DEF Completed, RowSet, TypeOK, Rows
  <2>2. call[x] # None /\ call[x].op = "complete"
    BY <1>13 DEF Completed, RowSet
  <2>3. /\ CallType' /\ \A z \in X : z # x => call'[z] = call[z]
        /\ call'[x] # None => /\ call'[x].step = "done" /\ call'[x].click = k
                              /\ call'[x].op = call[x].op /\ call'[x].status \in {"ok"}
                              /\ call'[x].view = call[x].view /\ call'[x].name = call[x].name
        /\ x \in Threads => call'[x] # None
    BY <1>13, <2>k DEF Completed, Replied, OthersWait
  <2> QED
    BY <1>a, <2>k, <2>1, <2>2, <2>3 DEF AnswerOpen, Booking, TypeOK, ChangesOfRows
<1>14. ASSUME Edited PROVE AnswerOpen'
  BY <1>14, <1>a DEF Edited, AnswerOpen, Booking, TypeOK
<1> QED
  BY <1>1, <1>2, <1>3, <1>4, <1>5, <1>6, <1>7, <1>8, <1>9, <1>10, <1>11, <1>12, <1>13,
     <1>14, StepKinds DEF IInv, GaveUp

\* A handler makes the row and sets the status in one step.
LEMMA RowOfCallStep == ASSUME IInv, [Next]_vars PROVE RowOfCall'
<1> USE DEF X
<1>a. TypeOK /\ CallsFit /\ SentOnce /\ AnswerOpen /\ RowOfCall /\ ChangesOfRows /\ Threads \subseteq X
  BY DEF IInv
<1>1. ASSUME NEW t \in Threads, NEW c \in Calls, Pushed(t, c) PROVE RowOfCall'
  BY <1>1, <1>a DEF Pushed, Sending, Sent, OthersWait, Waits, RowOfCall, Booking,
     TypeOK
<1>2. ASSUME NEW t \in Threads, NEW c \in Calls, Clicked(t, c) PROVE RowOfCall'
  BY <1>2, <1>a DEF Clicked, Sending, Sent, OthersWait, Waits, RowOfCall, Booking,
     TypeOK, AnswerOpen
<1>3. ASSUME NEW t \in Threads, NEW c \in Calls, Asked(t, c) PROVE RowOfCall'
  BY <1>3, <1>a DEF Asked, Sending, Sent, OthersWait, Waits, RowOfCall, Booking,
     TypeOK
<1>4. ASSUME NEW k \in Clicks, Refused(k) PROVE RowOfCall'
  BY <1>4, <1>a DEF Refused, RowOfCall, Booking, TypeOK
<1>5. ASSUME NEW t \in Threads, EndedPush(t) PROVE RowOfCall'
  BY <1>5, <1>a DEF EndedPush, Ended, OthersWait, Rests, RowOfCall, Booking, TypeOK
<1>6. ASSUME NEW t \in Threads, EndedBook(t) PROVE RowOfCall'
  BY <1>6, <1>a DEF EndedBook, Ended, OthersWait, Rests, RowOfCall, Booking, TypeOK
<1>7. ASSUME NEW t \in Threads, EndedChange(t) PROVE RowOfCall'
  BY <1>7, <1>a DEF EndedChange, Ended, OthersWait, Rests, RowOfCall, Booking, TypeOK
<1>8. ASSUME NEW t \in Threads, GaveUp(t), Dropped(t) PROVE RowOfCall'
  BY <1>8, <1>a DEF GaveUp, Dropped, OthersWait, Rests, RowOfCall, Booking, TypeOK
<1>9. ASSUME NEW t \in Threads, GaveUp(t), NEW l \in Late, Moved(t, l) PROVE RowOfCall'
  BY <1>9, <1>a DEF GaveUp, Moved, Rests, RowOfCall, Booking, TypeOK
<1>10. ASSUME NEW x \in X, Served(x) PROVE RowOfCall'
  BY <1>10, <1>a DEF Served, OthersWait, RowOfCall, Booking, TypeOK
<1>11. ASSUME NEW x \in X, Reserved(x) PROVE RowOfCall'
  <2>k. PICK k \in Clicks : k = call[x].click
    BY <1>11 DEF Reserved, RowSet
  <2>1. /\ booking' \in [Clicks -> Rows] /\ booking'[k] = "CONFIRMED"
        /\ \A j \in Clicks : j # k => booking'[j] = booking[j]
        /\ UNCHANGED <<resource, told, undone, thread, profile>>
    BY <1>11, <1>a, <2>k, RowSetEffect DEF Reserved, RowSet, TypeOK, Rows
  <2>2. call[x] # None /\ call[x].op = "book" /\ call[x].step = "named"
    BY <1>11 DEF Reserved, RowSet
  <2>3. /\ CallType' /\ \A z \in X : z # x => call'[z] = call[z]
        /\ call'[x] # None => /\ call'[x].step = "done" /\ call'[x].click = k
                              /\ call'[x].op = call[x].op /\ call'[x].status \in {"created", "error"}
                              /\ call'[x].view = call[x].view /\ call'[x].name = call[x].name
        /\ x \in Threads => call'[x] # None
    BY <1>11, <2>k DEF Reserved, Replied, OthersWait
  <2> QED
    BY <1>a, <2>k, <2>1, <2>2, <2>3 DEF RowOfCall, Booking, TypeOK, SentOnce, CallsFit
<1>12. ASSUME NEW x \in X, Cancelled(x) PROVE RowOfCall'
  <2>k. PICK k \in Clicks : k = call[x].click
    BY <1>12 DEF Cancelled, RowSet
  <2>1. /\ booking' \in [Clicks -> Rows] /\ booking'[k] = "deleted"
        /\ \A j \in Clicks : j # k => booking'[j] = booking[j]
        /\ UNCHANGED <<resource, told, undone, thread, profile>>
    BY <1>12, <1>a, <2>k, RowSetEffect DEF Cancelled, RowSet, TypeOK, Rows
  <2>2. call[x] # None /\ call[x].op = "cancel"
    BY <1>12 DEF Cancelled, RowSet
  <2>3. /\ CallType' /\ \A z \in X : z # x => call'[z] = call[z]
        /\ call'[x] # None => /\ call'[x].step = "done" /\ call'[x].click = k
                              /\ call'[x].op = call[x].op /\ call'[x].status \in {"deleted"}
                              /\ call'[x].view = call[x].view /\ call'[x].name = call[x].name
        /\ x \in Threads => call'[x] # None
    BY <1>12, <2>k DEF Cancelled, Replied, OthersWait
  <2> QED
    BY <1>a, <2>k, <2>1, <2>2, <2>3 DEF RowOfCall, Booking, TypeOK, ChangesOfRows,
     CallsFit
<1>13. ASSUME NEW x \in X, Completed(x) PROVE RowOfCall'
  <2>k. PICK k \in Clicks : k = call[x].click
    BY <1>13 DEF Completed, RowSet
  <2>1. /\ booking' \in [Clicks -> Rows] /\ booking'[k] = "COMPLETED"
        /\ \A j \in Clicks : j # k => booking'[j] = booking[j]
        /\ UNCHANGED <<resource, told, undone, thread, profile>>
    BY <1>13, <1>a, <2>k, RowSetEffect DEF Completed, RowSet, TypeOK, Rows
  <2>2. call[x] # None /\ call[x].op = "complete"
    BY <1>13 DEF Completed, RowSet
  <2>3. /\ CallType' /\ \A z \in X : z # x => call'[z] = call[z]
        /\ call'[x] # None => /\ call'[x].step = "done" /\ call'[x].click = k
                              /\ call'[x].op = call[x].op /\ call'[x].status \in {"ok"}
                              /\ call'[x].view = call[x].view /\ call'[x].name = call[x].name
        /\ x \in Threads => call'[x] # None
    BY <1>13, <2>k DEF Completed, Replied, OthersWait
  <2> QED
    BY <1>a, <2>k, <2>1, <2>2, <2>3 DEF RowOfCall, Booking, TypeOK, ChangesOfRows,
     CallsFit
<1>14. ASSUME Edited PROVE RowOfCall'
  BY <1>14, <1>a DEF Edited, RowOfCall, Booking, TypeOK
<1> QED
  BY <1>1, <1>2, <1>3, <1>4, <1>5, <1>6, <1>7, <1>8, <1>9, <1>10, <1>11, <1>12, <1>13,
     <1>14, StepKinds DEF IInv, GaveUp

\* A row that was there is never as if it had not been.
LEMMA ChangesOfRowsStep == ASSUME IInv, [Next]_vars PROVE ChangesOfRows'
<1> USE DEF X
<1>a. TypeOK /\ CallsFit /\ ChangesOfRows /\ Threads \subseteq X
  BY DEF IInv
<1>1. ASSUME NEW t \in Threads, NEW c \in Calls, Pushed(t, c) PROVE ChangesOfRows'
  BY <1>1, <1>a DEF Pushed, Sending, Sent, OthersWait, Waits, ChangesOfRows, TypeOK
<1>2. ASSUME NEW t \in Threads, NEW c \in Calls, Clicked(t, c) PROVE ChangesOfRows'
  BY <1>2, <1>a DEF Clicked, Sending, Sent, OthersWait, Waits, ChangesOfRows, TypeOK
<1>3. ASSUME NEW t \in Threads, NEW c \in Calls, Asked(t, c) PROVE ChangesOfRows'
  BY <1>3, <1>a DEF Asked, Sending, Sent, OthersWait, Waits, ChangesOfRows, TypeOK
<1>4. ASSUME NEW k \in Clicks, Refused(k) PROVE ChangesOfRows'
  BY <1>4, <1>a DEF Refused, ChangesOfRows, TypeOK
<1>5. ASSUME NEW t \in Threads, EndedPush(t) PROVE ChangesOfRows'
  BY <1>5, <1>a DEF EndedPush, Ended, OthersWait, Rests, ChangesOfRows, TypeOK
<1>6. ASSUME NEW t \in Threads, EndedBook(t) PROVE ChangesOfRows'
  BY <1>6, <1>a DEF EndedBook, Ended, OthersWait, Rests, ChangesOfRows, TypeOK
<1>7. ASSUME NEW t \in Threads, EndedChange(t) PROVE ChangesOfRows'
  BY <1>7, <1>a DEF EndedChange, Ended, OthersWait, Rests, ChangesOfRows, TypeOK
<1>8. ASSUME NEW t \in Threads, GaveUp(t), Dropped(t) PROVE ChangesOfRows'
  BY <1>8, <1>a DEF GaveUp, Dropped, OthersWait, Rests, ChangesOfRows, TypeOK
<1>9. ASSUME NEW t \in Threads, GaveUp(t), NEW l \in Late, Moved(t, l) PROVE ChangesOfRows'
  BY <1>9, <1>a DEF GaveUp, Moved, Rests, ChangesOfRows, TypeOK
<1>10. ASSUME NEW x \in X, Served(x) PROVE ChangesOfRows'
  BY <1>10, <1>a DEF Served, OthersWait, ChangesOfRows, TypeOK
<1>11. ASSUME NEW x \in X, Reserved(x) PROVE ChangesOfRows'
  <2>k. PICK k \in Clicks : k = call[x].click
    BY <1>11 DEF Reserved, RowSet
  <2>1. /\ booking' \in [Clicks -> Rows] /\ booking'[k] = "CONFIRMED"
        /\ \A j \in Clicks : j # k => booking'[j] = booking[j]
        /\ UNCHANGED <<resource, told, undone, thread, profile>>
    BY <1>11, <1>a, <2>k, RowSetEffect DEF Reserved, RowSet, TypeOK, Rows
  <2>2. call[x] # None /\ call[x].op = "book" /\ call[x].step = "named"
    BY <1>11 DEF Reserved, RowSet
  <2>3. /\ CallType' /\ \A z \in X : z # x => call'[z] = call[z]
        /\ call'[x] # None => /\ call'[x].step = "done" /\ call'[x].click = k
                              /\ call'[x].op = call[x].op /\ call'[x].status \in {"created", "error"}
                              /\ call'[x].view = call[x].view /\ call'[x].name = call[x].name
        /\ x \in Threads => call'[x] # None
    BY <1>11, <2>k DEF Reserved, Replied, OthersWait
  <2> QED
    BY <1>a, <2>k, <2>1, <2>2, <2>3 DEF ChangesOfRows, TypeOK, CallsFit
<1>12. ASSUME NEW x \in X, Cancelled(x) PROVE ChangesOfRows'
  <2>k. PICK k \in Clicks : k = call[x].click
    BY <1>12 DEF Cancelled, RowSet
  <2>1. /\ booking' \in [Clicks -> Rows] /\ booking'[k] = "deleted"
        /\ \A j \in Clicks : j # k => booking'[j] = booking[j]
        /\ UNCHANGED <<resource, told, undone, thread, profile>>
    BY <1>12, <1>a, <2>k, RowSetEffect DEF Cancelled, RowSet, TypeOK, Rows
  <2>2. call[x] # None /\ call[x].op = "cancel"
    BY <1>12 DEF Cancelled, RowSet
  <2>3. /\ CallType' /\ \A z \in X : z # x => call'[z] = call[z]
        /\ call'[x] # None => /\ call'[x].step = "done" /\ call'[x].click = k
                              /\ call'[x].op = call[x].op /\ call'[x].status \in {"deleted"}
                              /\ call'[x].view = call[x].view /\ call'[x].name = call[x].name
        /\ x \in Threads => call'[x] # None
    BY <1>12, <2>k DEF Cancelled, Replied, OthersWait
  <2> QED
    BY <1>a, <2>k, <2>1, <2>2, <2>3 DEF ChangesOfRows, TypeOK, CallsFit
<1>13. ASSUME NEW x \in X, Completed(x) PROVE ChangesOfRows'
  <2>k. PICK k \in Clicks : k = call[x].click
    BY <1>13 DEF Completed, RowSet
  <2>1. /\ booking' \in [Clicks -> Rows] /\ booking'[k] = "COMPLETED"
        /\ \A j \in Clicks : j # k => booking'[j] = booking[j]
        /\ UNCHANGED <<resource, told, undone, thread, profile>>
    BY <1>13, <1>a, <2>k, RowSetEffect DEF Completed, RowSet, TypeOK, Rows
  <2>2. call[x] # None /\ call[x].op = "complete"
    BY <1>13 DEF Completed, RowSet
  <2>3. /\ CallType' /\ \A z \in X : z # x => call'[z] = call[z]
        /\ call'[x] # None => /\ call'[x].step = "done" /\ call'[x].click = k
                              /\ call'[x].op = call[x].op /\ call'[x].status \in {"ok"}
                              /\ call'[x].view = call[x].view /\ call'[x].name = call[x].name
        /\ x \in Threads => call'[x] # None
    BY <1>13, <2>k DEF Completed, Replied, OthersWait
  <2> QED
    BY <1>a, <2>k, <2>1, <2>2, <2>3 DEF ChangesOfRows, TypeOK, CallsFit
<1>14. ASSUME Edited PROVE ChangesOfRows'
  BY <1>14, <1>a DEF Edited, ChangesOfRows, TypeOK
<1> QED
  BY <1>1, <1>2, <1>3, <1>4, <1>5, <1>6, <1>7, <1>8, <1>9, <1>10, <1>11, <1>12, <1>13,
     <1>14, StepKinds DEF IInv, GaveUp

\* Nothing confirms a row that is or was there.
LEMMA CancelledStaysStep == ASSUME IInv, [Next]_vars PROVE CancelledStays'
<1> USE DEF X
<1>a. TypeOK /\ CallsFit /\ RowOfCall /\ ChangesOfRows /\ CancelledStays /\ Threads \subseteq X
  BY DEF IInv
<1>1. ASSUME NEW t \in Threads, NEW c \in Calls, Pushed(t, c) PROVE CancelledStays'
  BY <1>1, <1>a DEF Pushed, Sending, Sent, OthersWait, Waits, CancelledStays, TypeOK
<1>2. ASSUME NEW t \in Threads, NEW c \in Calls, Clicked(t, c) PROVE CancelledStays'
  BY <1>2, <1>a DEF Clicked, Sending, Sent, OthersWait, Waits, CancelledStays, TypeOK
<1>3. ASSUME NEW t \in Threads, NEW c \in Calls, Asked(t, c) PROVE CancelledStays'
  BY <1>3, <1>a DEF Asked, Sending, Sent, OthersWait, Waits, CancelledStays, TypeOK
<1>4. ASSUME NEW k \in Clicks, Refused(k) PROVE CancelledStays'
  BY <1>4, <1>a DEF Refused, CancelledStays, TypeOK
<1>5. ASSUME NEW t \in Threads, EndedPush(t) PROVE CancelledStays'
  BY <1>5, <1>a DEF EndedPush, Ended, OthersWait, Rests, CancelledStays, TypeOK
<1>6. ASSUME NEW t \in Threads, EndedBook(t) PROVE CancelledStays'
  BY <1>6, <1>a DEF EndedBook, Ended, OthersWait, Rests, CancelledStays, TypeOK
<1>7. ASSUME NEW t \in Threads, EndedChange(t) PROVE CancelledStays'
  BY <1>7, <1>a DEF EndedChange, Ended, OthersWait, Rests, CancelledStays, TypeOK
<1>8. ASSUME NEW t \in Threads, GaveUp(t), Dropped(t) PROVE CancelledStays'
  BY <1>8, <1>a DEF GaveUp, Dropped, OthersWait, Rests, CancelledStays, TypeOK
<1>9. ASSUME NEW t \in Threads, GaveUp(t), NEW l \in Late, Moved(t, l) PROVE CancelledStays'
  BY <1>9, <1>a DEF GaveUp, Moved, Rests, CancelledStays, TypeOK
<1>10. ASSUME NEW x \in X, Served(x) PROVE CancelledStays'
  BY <1>10, <1>a DEF Served, OthersWait, CancelledStays, TypeOK
<1>11. ASSUME NEW x \in X, Reserved(x) PROVE CancelledStays'
  <2>k. PICK k \in Clicks : k = call[x].click
    BY <1>11 DEF Reserved, RowSet
  <2>1. /\ booking' \in [Clicks -> Rows] /\ booking'[k] = "CONFIRMED"
        /\ \A j \in Clicks : j # k => booking'[j] = booking[j]
        /\ UNCHANGED <<resource, told, undone, thread, profile>>
    BY <1>11, <1>a, <2>k, RowSetEffect DEF Reserved, RowSet, TypeOK, Rows
  <2>2. call[x] # None /\ call[x].op = "book" /\ call[x].step = "named"
    BY <1>11 DEF Reserved, RowSet
  <2>3. /\ CallType' /\ \A z \in X : z # x => call'[z] = call[z]
        /\ call'[x] # None => /\ call'[x].step = "done" /\ call'[x].click = k
                              /\ call'[x].op = call[x].op /\ call'[x].status \in {"created", "error"}
                              /\ call'[x].view = call[x].view /\ call'[x].name = call[x].name
        /\ x \in Threads => call'[x] # None
    BY <1>11, <2>k DEF Reserved, Replied, OthersWait
  <2> QED
    BY <1>a, <2>k, <2>1, <2>2, <2>3 DEF CancelledStays, TypeOK, RowOfCall, Booking,
     CallsFit
<1>12. ASSUME NEW x \in X, Cancelled(x) PROVE CancelledStays'
  <2>k. PICK k \in Clicks : k = call[x].click
    BY <1>12 DEF Cancelled, RowSet
  <2>1. /\ booking' \in [Clicks -> Rows] /\ booking'[k] = "deleted"
        /\ \A j \in Clicks : j # k => booking'[j] = booking[j]
        /\ UNCHANGED <<resource, told, undone, thread, profile>>
    BY <1>12, <1>a, <2>k, RowSetEffect DEF Cancelled, RowSet, TypeOK, Rows
  <2>2. call[x] # None /\ call[x].op = "cancel"
    BY <1>12 DEF Cancelled, RowSet
  <2>3. /\ CallType' /\ \A z \in X : z # x => call'[z] = call[z]
        /\ call'[x] # None => /\ call'[x].step = "done" /\ call'[x].click = k
                              /\ call'[x].op = call[x].op /\ call'[x].status \in {"deleted"}
                              /\ call'[x].view = call[x].view /\ call'[x].name = call[x].name
        /\ x \in Threads => call'[x] # None
    BY <1>12, <2>k DEF Cancelled, Replied, OthersWait
  <2> QED
    BY <1>a, <2>k, <2>1, <2>2, <2>3 DEF CancelledStays, TypeOK, CallsFit
<1>13. ASSUME NEW x \in X, Completed(x) PROVE CancelledStays'
  <2>k. PICK k \in Clicks : k = call[x].click
    BY <1>13 DEF Completed, RowSet
  <2>1. /\ booking' \in [Clicks -> Rows] /\ booking'[k] = "COMPLETED"
        /\ \A j \in Clicks : j # k => booking'[j] = booking[j]
        /\ UNCHANGED <<resource, told, undone, thread, profile>>
    BY <1>13, <1>a, <2>k, RowSetEffect DEF Completed, RowSet, TypeOK, Rows
  <2>2. call[x] # None /\ call[x].op = "complete"
    BY <1>13 DEF Completed, RowSet
  <2>3. /\ CallType' /\ \A z \in X : z # x => call'[z] = call[z]
        /\ call'[x] # None => /\ call'[x].step = "done" /\ call'[x].click = k
                              /\ call'[x].op = call[x].op /\ call'[x].status \in {"ok"}
                              /\ call'[x].view = call[x].view /\ call'[x].name = call[x].name
        /\ x \in Threads => call'[x] # None
    BY <1>13, <2>k DEF Completed, Replied, OthersWait
  <2> QED
    BY <1>a, <2>k, <2>1, <2>2, <2>3 DEF CancelledStays, TypeOK, CallsFit
<1>14. ASSUME Edited PROVE CancelledStays'
  BY <1>14, <1>a DEF Edited, CancelledStays, TypeOK
<1> QED
  BY <1>1, <1>2, <1>3, <1>4, <1>5, <1>6, <1>7, <1>8, <1>9, <1>10, <1>11, <1>12, <1>13,
     <1>14, StepKinds DEF IInv, GaveUp

\* A row is made while its click is open, and its answer tells of it.
LEMMA AnswersStayTrueStep == ASSUME IInv, [Next]_vars PROVE AnswersStayTrue'
<1> USE DEF X
<1>a. TypeOK /\ CallsFit /\ SentOnce /\ AnswerOpen /\ RowOfCall /\ ChangesOfRows /\ CancelledStays /\ AnswersStayTrue /\ Threads \subseteq X
  BY DEF IInv
<1>1. ASSUME NEW t \in Threads, NEW c \in Calls, Pushed(t, c) PROVE AnswersStayTrue'
  BY <1>1, <1>a DEF Pushed, Sending, Sent, OthersWait, Waits, AnswersStayTrue, TypeOK
<1>2. ASSUME NEW t \in Threads, NEW c \in Calls, Clicked(t, c) PROVE AnswersStayTrue'
  BY <1>2, <1>a DEF Clicked, Sending, Sent, OthersWait, Waits, AnswersStayTrue, TypeOK
<1>3. ASSUME NEW t \in Threads, NEW c \in Calls, Asked(t, c) PROVE AnswersStayTrue'
  BY <1>3, <1>a DEF Asked, Sending, Sent, OthersWait, Waits, AnswersStayTrue, TypeOK
<1>4. ASSUME NEW k \in Clicks, Refused(k) PROVE AnswersStayTrue'
  BY <1>4, <1>a DEF Refused, AnswersStayTrue, TypeOK, AnswerOpen
<1>5. ASSUME NEW t \in Threads, EndedPush(t) PROVE AnswersStayTrue'
  BY <1>5, <1>a DEF EndedPush, Ended, OthersWait, Rests, AnswersStayTrue, TypeOK
<1>6. ASSUME NEW t \in Threads, EndedBook(t) PROVE AnswersStayTrue'
  BY <1>6, <1>a DEF EndedBook, Ended, OthersWait, Rests, AnswersStayTrue, TypeOK,
     RowOfCall, Booking
<1>7. ASSUME NEW t \in Threads, EndedChange(t) PROVE AnswersStayTrue'
  BY <1>7, <1>a DEF EndedChange, Ended, OthersWait, Rests, AnswersStayTrue, TypeOK,
     CancelledStays
<1>8. ASSUME NEW t \in Threads, GaveUp(t), Dropped(t) PROVE AnswersStayTrue'
  BY <1>8, <1>a DEF GaveUp, Dropped, OthersWait, Rests, AnswersStayTrue, TypeOK
<1>9. ASSUME NEW t \in Threads, GaveUp(t), NEW l \in Late, Moved(t, l) PROVE AnswersStayTrue'
  BY <1>9, <1>a DEF GaveUp, Moved, Rests, AnswersStayTrue, TypeOK
<1>10. ASSUME NEW x \in X, Served(x) PROVE AnswersStayTrue'
  BY <1>10, <1>a DEF Served, OthersWait, AnswersStayTrue, TypeOK
<1>11. ASSUME NEW x \in X, Reserved(x) PROVE AnswersStayTrue'
  <2>k. PICK k \in Clicks : k = call[x].click
    BY <1>11 DEF Reserved, RowSet
  <2>1. /\ booking' \in [Clicks -> Rows] /\ booking'[k] = "CONFIRMED"
        /\ \A j \in Clicks : j # k => booking'[j] = booking[j]
        /\ UNCHANGED <<resource, told, undone, thread, profile>>
    BY <1>11, <1>a, <2>k, RowSetEffect DEF Reserved, RowSet, TypeOK, Rows
  <2>2. call[x] # None /\ call[x].op = "book" /\ call[x].step = "named"
    BY <1>11 DEF Reserved, RowSet
  <2>3. /\ CallType' /\ \A z \in X : z # x => call'[z] = call[z]
        /\ call'[x] # None => /\ call'[x].step = "done" /\ call'[x].click = k
                              /\ call'[x].op = call[x].op /\ call'[x].status \in {"created", "error"}
                              /\ call'[x].view = call[x].view /\ call'[x].name = call[x].name
        /\ x \in Threads => call'[x] # None
    BY <1>11, <2>k DEF Reserved, Replied, OthersWait
  <2> QED
    BY <1>a, <2>k, <2>1, <2>2, <2>3 DEF AnswersStayTrue, TypeOK, AnswerOpen,
     RowOfCall, CancelledStays, Booking
<1>12. ASSUME NEW x \in X, Cancelled(x) PROVE AnswersStayTrue'
  <2>k. PICK k \in Clicks : k = call[x].click
    BY <1>12 DEF Cancelled, RowSet
  <2>1. /\ booking' \in [Clicks -> Rows] /\ booking'[k] = "deleted"
        /\ \A j \in Clicks : j # k => booking'[j] = booking[j]
        /\ UNCHANGED <<resource, told, undone, thread, profile>>
    BY <1>12, <1>a, <2>k, RowSetEffect DEF Cancelled, RowSet, TypeOK, Rows
  <2>2. call[x] # None /\ call[x].op = "cancel"
    BY <1>12 DEF Cancelled, RowSet
  <2>3. /\ CallType' /\ \A z \in X : z # x => call'[z] = call[z]
        /\ call'[x] # None => /\ call'[x].step = "done" /\ call'[x].click = k
                              /\ call'[x].op = call[x].op /\ call'[x].status \in {"deleted"}
                              /\ call'[x].view = call[x].view /\ call'[x].name = call[x].name
        /\ x \in Threads => call'[x] # None
    BY <1>12, <2>k DEF Cancelled, Replied, OthersWait
  <2> QED
    BY <1>a, <2>k, <2>1, <2>2, <2>3 DEF AnswersStayTrue, TypeOK, ChangesOfRows
<1>13. ASSUME NEW x \in X, Completed(x) PROVE AnswersStayTrue'
  <2>k. PICK k \in Clicks : k = call[x].click
    BY <1>13 DEF Completed, RowSet
  <2>1. /\ booking' \in [Clicks -> Rows] /\ booking'[k] = "COMPLETED"
        /\ \A j \in Clicks : j # k => booking'[j] = booking[j]
        /\ UNCHANGED <<resource, told, undone, thread, profile>>
    BY <1>13, <1>a, <2>k, RowSetEffect DEF Completed, RowSet, TypeOK, Rows
  <2>2. call[x] # None /\ call[x].op = "complete"
    BY <1>13 DEF Completed, RowSet
  <2>3. /\ CallType' /\ \A z \in X : z # x => call'[z] = call[z]
        /\ call'[x] # None => /\ call'[x].step = "done" /\ call'[x].click = k
                              /\ call'[x].op = call[x].op /\ call'[x].status \in {"ok"}
                              /\ call'[x].view = call[x].view /\ call'[x].name = call[x].name
        /\ x \in Threads => call'[x] # None
    BY <1>13, <2>k DEF Completed, Replied, OthersWait
  <2> QED
    BY <1>a, <2>k, <2>1, <2>2, <2>3 DEF AnswersStayTrue, TypeOK, ChangesOfRows,
     CancelledStays
<1>14. ASSUME Edited PROVE AnswersStayTrue'
  BY <1>14, <1>a DEF Edited, AnswersStayTrue, TypeOK
<1> QED
  BY <1>1, <1>2, <1>3, <1>4, <1>5, <1>6, <1>7, <1>8, <1>9, <1>10, <1>11, <1>12, <1>13,
     <1>14, StepKinds DEF IInv, GaveUp

---------------------------------------------------------------------------
(* The theorems *)

LEMMA InitIInv == ASSUME Init PROVE IInv
<1> USE GatewayAssumption DEF Init
<1>1. TypeOK
  BY DEF TypeOK, Profile, Rows, Idle
<1>2. CallsFit /\ ThreadsFit
  BY DEF CallsFit, ThreadsFit, At, Idle
<1>3. SentOnce /\ AnswerOpen /\ RowOfCall /\ ChangesOfRows /\ CancelledStays
  BY DEF SentOnce, AnswerOpen, RowOfCall, ChangesOfRows, CancelledStays, Booking
<1>4. AnswersStayTrue
  BY DEF AnswersStayTrue
<1> QED
  BY <1>1, <1>2, <1>3, <1>4 DEF IInv

\* The invariant that carries the theorem below.
THEOREM Invariance == Spec => []IInv
<1>1. IInv /\ [Next]_vars => IInv'
  BY TypeOKStep, CallsFitStep, ThreadsFitStep, SentOnceStep, AnswerOpenStep, RowOfCallStep,
     ChangesOfRowsStep, CancelledStaysStep, AnswersStayTrueStep DEF IInv
<1> QED
  BY InitIInv, <1>1, PTL DEF Spec

\* What System A tells a customer stays true (accounts/views.py:1054-1067,
\* utils/saas_client.py:341-365), for any number of requests, of calls carried out
\* after System A gave up, of clicks and of failures.
THEOREM AnswersStayTrueHolds == Spec => []AnswersStayTrue
  BY Invariance, PTL DEF IInv

---------------------------------------------------------------------------
(* What is offered and what is accepted *)

\* Among subsets of a finite set one has nothing smaller below it: how recursion over
\* a finite set is undone here.
LEMMA Minimal ==
  ASSUME NEW S, IsFiniteSet(S), NEW T, T \subseteq SUBSET S, T # {}
  PROVE  \E x \in T : \A y \in T : y \subseteq x => y = x
<1>1. IsWellFoundedOn(StrictSubsetOrdering(S), SUBSET S)
  BY FS_StrictSubsetOrderingWellFounded, FS_FiniteSubsetsOfFinite
<1>2. \E x \in T : \A y \in T : ~ (<<y, x>> \in StrictSubsetOrdering(S))
  BY <1>1, WFMin
<1>3. QED
  BY <1>2 DEF StrictSubsetOrdering

\* The cut of the calendar (raw) or of the booking page.
Cut(raw, b, segments) ==
  IF raw THEN EventCut(b, segments) ELSE PublicCut(b, segments)

\* The element a fold takes first.
First(s) == CHOOSE x \in s : TRUE

\* f is the fold of the cut over S and its subsets.
Folded(raw, base, S, f) ==
  f = [s \in SUBSET S |-> IF s = {} THEN base ELSE Cut(raw, First(s), f[s \ {First(s)}])]

\* What is left of the segments in base when all of S are cut out.
AllCut(raw, base, S) == (CHOOSE f : Folded(raw, base, S, f))[S]

\* The element a fold takes first is one of the set.
LEMMA FirstIn == ASSUME NEW s, s # {} PROVE First(s) \in s
BY DEF First

\* FoldSet is the fold of the cuts.
LEMMA FoldIs ==
  ASSUME NEW S, NEW base
  PROVE  /\ FoldSet(PublicCut, base, S) = AllCut(FALSE, base, S)
         /\ FoldSet(EventCut, base, S) = AllCut(TRUE, base, S)
BY DEF FoldSet, MapThenFoldSet, Folded, AllCut, Cut, First

\* Two folds agree on the sets that both know.
LEMMA FoldedUnique ==
  ASSUME NEW raw, NEW base, NEW A, NEW B, NEW f, NEW g, IsFiniteSet(A),
         Folded(raw, base, A, f), Folded(raw, base, B, g), NEW s \in SUBSET A, s \in SUBSET B
  PROVE  f[s] = g[s]
<1> DEFINE differ == {t \in SUBSET A : t \in SUBSET B /\ f[t] # g[t]}
<1>1. SUFFICES ASSUME differ # {} PROVE FALSE
  OBVIOUS
<1>2. PICK t \in differ : \A u \in differ : u \subseteq t => u = t
  <2>1. differ \subseteq SUBSET A
    OBVIOUS
  <2> HIDE DEF differ
  <2> QED
    BY <1>1, <2>1, Minimal
<1>3. CASE t = {}
  BY <1>2, <1>3 DEF Folded
<1>4. CASE t # {}
  <2>1. First(t) \in t
    BY <1>4, FirstIn
  <2>2. f[t \ {First(t)}] = g[t \ {First(t)}]
    BY <1>2, <2>1
  <2>3. f[t] = Cut(raw, First(t), f[t \ {First(t)}]) /\ g[t] = Cut(raw, First(t), g[t \ {First(t)}])
    BY <1>2, <1>4 DEF Folded
  <2> QED
    BY <1>2, <2>2, <2>3
<1> QED
  BY <1>3, <1>4

\* The fold of a finite set is defined.
LEMMA FoldedExists ==
  ASSUME NEW raw, NEW base, NEW S, IsFiniteSet(S)
  PROVE  \E f : Folded(raw, base, S, f)
<1> DEFINE without == {t \in SUBSET S : ~\E f : Folded(raw, base, t, f)}
<1>1. SUFFICES ASSUME without # {} PROVE FALSE
  OBVIOUS
<1>2. PICK t \in without : \A u \in without : u \subseteq t => u = t
  <2>1. without \subseteq SUBSET S
    OBVIOUS
  <2> HIDE DEF without
  <2> QED
    BY <1>1, <2>1, Minimal
<1> DEFINE rest(s) == s \ {First(s)}
           of(s) == CHOOSE f : Folded(raw, base, s, f)
           whole == [s \in SUBSET t |-> IF s = {} THEN base
                                        ELSE Cut(raw, First(s), of(rest(s))[rest(s)])]
<1>3. ASSUME NEW s \in SUBSET t, s # {}
      PROVE  /\ rest(s) \in SUBSET t /\ rest(s) # t
             /\ Folded(raw, base, rest(s), of(rest(s)))
  <2>1. First(s) \in s
    BY <1>3, FirstIn
  <2>2. rest(s) \in SUBSET S /\ rest(s) # t /\ rest(s) \subseteq t
    BY <1>2, <2>1
  <2>3. \E f : Folded(raw, base, rest(s), f)
    BY <1>2, <2>2
  <2> QED
    BY <2>2, <2>3
<1>4. ASSUME NEW s \in SUBSET t, s # t PROVE whole[s] = of(s)[s] /\ IsFiniteSet(s)
  <2>1. IsFiniteSet(s)
    BY <1>2, FS_Subset
  <2>2. Folded(raw, base, s, of(s))
    BY <1>2, <1>4
  <2>3. CASE s = {}
    BY <2>1, <2>2, <2>3 DEF Folded
  <2>4. CASE s # {}
    <3>1. of(s)[s] = Cut(raw, First(s), of(s)[rest(s)])
      BY <2>2, <2>4 DEF Folded
    <3>2. of(s)[rest(s)] = of(rest(s))[rest(s)]
      <4> HIDE DEF of
      <4> QED
        BY <1>3, <2>1, <2>2, <2>4, FoldedUnique
    <3> QED
      BY <2>1, <2>4, <3>1, <3>2
  <2> QED
    BY <2>3, <2>4
<1>5. Folded(raw, base, t, whole)
  <2>1. ASSUME NEW s \in SUBSET t, s # {}
        PROVE  Cut(raw, First(s), of(rest(s))[rest(s)]) = Cut(raw, First(s), whole[rest(s)])
    BY <1>3, <1>4, <2>1
  <2> HIDE DEF of
  <2> QED
    BY <2>1 DEF Folded
<1> QED
  BY <1>2, <1>5

\* The recursion equation of cutting all bookings out of a shift.
LEMMA AllCutDef ==
  ASSUME NEW raw, NEW base, NEW S, IsFiniteSet(S)
  PROVE  AllCut(raw, base, S) =
           IF S = {} THEN base ELSE Cut(raw, First(S), AllCut(raw, base, S \ {First(S)}))
<1> DEFINE f == CHOOSE g : Folded(raw, base, S, g)
           r == S \ {First(S)}
           h == CHOOSE g : Folded(raw, base, r, g)
<1>1. Folded(raw, base, S, f)
  BY FoldedExists
<1>2. IsFiniteSet(r)
  BY FS_Subset
<1>3. Folded(raw, base, r, h)
  BY <1>2, FoldedExists
<1>4. f[S] = IF S = {} THEN base ELSE Cut(raw, First(S), f[r])
  <2> HIDE DEF f
  <2> QED
    BY <1>1 DEF Folded
<1>5. f[r] = h[r]
  <2> HIDE DEF f, h
  <2> QED
    BY <1>1, <1>2, <1>3, FoldedUnique
<1> QED
  BY <1>4, <1>5 DEF AllCut

\* Stretches of time; a booking or shift of any length is proper.
Intervals == [start : Int, end : Int]
Proper(r) == r.start < r.end

\* r lies within one of the segments.
Covered(G, r) == \E g \in G : Contains(g, r)

\* Cutting one booking for the booking page takes away what meets it, and nothing else.
LEMMA PublicCutKeeps ==
  ASSUME NEW b \in Intervals, Proper(b), Buffer \in Nat, NEW G \in SUBSET Intervals
  PROVE  /\ PublicCut(b, G) \in SUBSET Intervals
         /\ \A r \in Intervals : Proper(r) =>
              (Covered(PublicCut(b, G), r) <=> Covered(G, r) /\ ~Meets(b, r, Buffer))
<1> USE DEF Intervals, Proper, Covered, Contains, Meets, Iv, Blocked
<1> DEFINE cut == PublicCut(b, G)
           lo == b.start - Buffer
           hi == b.end + Buffer
<1>1. cut \in SUBSET Intervals
  BY DEF PublicCut
<1>2. \A g \in cut : \/ g \in G /\ (hi <= g.start \/ lo >= g.end)
                     \/ \E h \in G : g = Iv(h.start, lo) /\ lo < h.end
                     \/ \E h \in G : g = Iv(hi, h.end) /\ h.start < hi
  BY DEF PublicCut
<1>3. \A h \in G : \/ h \in cut /\ (hi <= h.start \/ lo >= h.end)
                   \/ /\ h.start < lo => Iv(h.start, lo) \in cut
                      /\ hi < h.end => Iv(hi, h.end) \in cut
  BY DEF PublicCut
<1> HIDE DEF cut
<1>4. ASSUME NEW r \in Intervals, Proper(r), NEW g \in cut, Contains(g, r)
      PROVE  Covered(G, r) /\ ~Meets(b, r, Buffer)
  BY <1>2, <1>4
<1>5. ASSUME NEW r \in Intervals, Proper(r), NEW h \in G, Contains(h, r),
             ~Meets(b, r, Buffer)
      PROVE  Covered(cut, r)
  <2>1. r.end <= lo \/ r.start >= hi
    BY <1>5
  <2>2. CASE h \in cut
    BY <1>5, <2>2
  <2>3. CASE h \notin cut /\ r.end <= lo
    <3>0. h.start < lo
      BY <1>5, <2>3
    <3>1. Iv(h.start, lo) \in cut
      BY <1>3, <2>3, <3>0
    <3> QED
      BY <1>5, <2>3, <3>1
  <2>4. CASE h \notin cut /\ r.start >= hi
    <3>0. hi < h.end
      BY <1>5, <2>4
    <3>1. Iv(hi, h.end) \in cut
      BY <1>3, <2>4, <3>0
    <3> QED
      BY <1>5, <2>4, <3>1
  <2> QED
    BY <2>1, <2>2, <2>3, <2>4
<1> QED
  BY <1>1, <1>4, <1>5 DEF cut

\* So does the cut of the calendar, which goes about it differently.
LEMMA EventCutKeeps ==
  ASSUME NEW b \in Intervals, Proper(b), Buffer \in Nat, NEW G \in SUBSET Intervals
  PROVE  /\ EventCut(b, G) \in SUBSET Intervals
         /\ \A r \in Intervals : Proper(r) =>
              (Covered(EventCut(b, G), r) <=> Covered(G, r) /\ ~Meets(b, r, Buffer))
<1> USE DEF Intervals, Proper, Covered, Contains, Meets, Iv
<1> DEFINE cut == EventCut(b, G)
           lo == b.start - Buffer
           hi == b.end + Buffer
<1>1. cut \in SUBSET Intervals
  BY DEF EventCut, Later, Earlier
<1>2. \A g \in cut : \/ g \in G /\ (hi <= g.start \/ lo >= g.end \/ ~Proper(g))
                     \/ \E h \in G : g = Iv(h.start, lo) /\ lo < h.end
                     \/ \E h \in G : g = Iv(hi, h.end) /\ h.start < hi
  BY DEF EventCut, Later, Earlier
<1>3. \A h \in G : \/ h \in cut
                   \/ /\ h.start < lo => Iv(h.start, lo) \in cut
                      /\ hi < h.end => Iv(hi, h.end) \in cut
  BY DEF EventCut, Later, Earlier
<1> HIDE DEF cut
<1>4. ASSUME NEW r \in Intervals, Proper(r), NEW g \in cut, Contains(g, r)
      PROVE  Covered(G, r) /\ ~Meets(b, r, Buffer)
  BY <1>2, <1>4
<1>5. ASSUME NEW r \in Intervals, Proper(r), NEW h \in G, Contains(h, r),
             ~Meets(b, r, Buffer)
      PROVE  Covered(cut, r)
  <2>1. r.end <= lo \/ r.start >= hi
    BY <1>5
  <2>2. CASE h \in cut
    BY <1>5, <2>2
  <2>3. CASE h \notin cut /\ r.end <= lo
    <3>0. h.start < lo
      BY <1>5, <2>3
    <3>1. Iv(h.start, lo) \in cut
      BY <1>3, <2>3, <3>0
    <3> QED
      BY <1>5, <2>3, <3>1
  <2>4. CASE h \notin cut /\ r.start >= hi
    <3>0. hi < h.end
      BY <1>5, <2>4
    <3>1. Iv(hi, h.end) \in cut
      BY <1>3, <2>4, <3>0
    <3> QED
      BY <1>5, <2>4, <3>1
  <2> QED
    BY <2>1, <2>2, <2>3, <2>4
<1> QED
  BY <1>1, <1>4, <1>5 DEF cut

\* The segments G are what is left of c without what meets a booking of H.
Exact(G, c, H) ==
  /\ G \in SUBSET Intervals
  /\ \A r \in Intervals : Proper(r) =>
       (Covered(G, r) <=> Contains(c, r) /\ \A b \in H : ~Meets(b, r, Buffer))

\* What is left when all bookings are cut out is what meets none of them, whatever their
\* order and overlap.
LEMMA AllCutExact ==
  ASSUME NEW raw \in BOOLEAN, NEW c \in Intervals, NEW H, IsFiniteSet(H),
         \A b \in H : b \in Intervals /\ Proper(b), Buffer \in Nat
  PROVE  Exact(AllCut(raw, {c}, H), c, H)
<1> DEFINE wrong == {s \in SUBSET H : ~Exact(AllCut(raw, {c}, s), c, s)}
<1>1. SUFFICES ASSUME wrong # {} PROVE FALSE
  OBVIOUS
<1>2. PICK s \in wrong : \A u \in wrong : u \subseteq s => u = s
  <2>1. wrong \subseteq SUBSET H
    OBVIOUS
  <2> HIDE DEF wrong
  <2> QED
    BY <1>1, <2>1, Minimal
<1>3. IsFiniteSet(s)
  BY <1>2, FS_Subset
<1>4. CASE s = {}
  <2>1. AllCut(raw, {c}, s) = {c}
    BY <1>3, <1>4, AllCutDef
  <2> QED
    BY <1>2, <1>4, <2>1 DEF Exact, Covered
<1>5. CASE s # {}
  <2> DEFINE b == First(s)
             r == s \ {b}
             G == AllCut(raw, {c}, r)
  <2>1. b \in s
    BY <1>5, FirstIn
  <2>2. r \in SUBSET H /\ r \subseteq s /\ r # s /\ s = r \cup {b} /\ b \in Intervals /\ Proper(b)
    BY <1>2, <2>1
  <2>3. Exact(G, c, r)
    BY <1>2, <2>2
  <2>4. AllCut(raw, {c}, s) = Cut(raw, b, G)
    BY <1>3, <1>5, AllCutDef
  <2> HIDE DEF b, r, G
  <2>5. /\ Cut(raw, b, G) \in SUBSET Intervals
        /\ \A q \in Intervals : Proper(q) =>
             (Covered(Cut(raw, b, G), q) <=> Covered(G, q) /\ ~Meets(b, q, Buffer))
    BY <2>2, <2>3, PublicCutKeeps, EventCutKeeps DEF Exact, Cut
  <2>6. Exact(Cut(raw, b, G), c, s)
    BY <2>2, <2>3, <2>5 DEF Exact
  <2> QED
    BY <1>2, <2>4, <2>6
<1> QED
  BY <1>4, <1>5

\* What the invariants about offers need to know of the tables.
SlotsTyped ==
  /\ shifts \in SUBSET Shifts /\ IsFiniteSet(shifts)
  /\ bookings \in SUBSET Asks /\ IsFiniteSet(bookings)
  /\ now \in 0..Latest

\* What is asked for and what is open are intervals.
LEMMA AsksProper ==
  /\ \A r \in Asks : r \in Intervals /\ Proper(r)
  /\ \A s \in Shifts : s.start \in Int /\ s.end \in Int /\ Proper(s)
  /\ Times \subseteq Nat /\ Buffer \in Nat /\ Lead \in Nat /\ Window \in Nat
  /\ MinSlot \in Nat \ {0}
<1>2. Times \subseteq Nat
  BY SlotAssumption DEF Times
<1>3. ASSUME NEW r \in Asks PROVE r \in Intervals /\ Proper(r)
  <2>1. PICK s \in Times, d \in Durations : r = [start |-> s, end |-> s + d]
    BY DEF Asks, Iv
  <2>2. s \in Nat /\ d \in Nat \ {0}
    BY SlotAssumption, <1>2, <2>1
  <2> QED
    BY <2>1, <2>2 DEF Intervals, Proper
<1>4. ASSUME NEW s \in Shifts PROVE s.start \in Int /\ s.end \in Int /\ Proper(s)
  <2>1. s.start \in Times /\ s.end \in Times /\ s.start < s.end
    BY SlotAssumption
  <2>2. s.start \in Nat /\ s.end \in Nat
    BY <1>2, <2>1
  <2>3. s.start \in Int /\ s.end \in Int
    BY <2>2
  <2> QED
    BY <2>1, <2>3 DEF Proper
<1> QED
  BY SlotAssumption, <1>2, <1>3, <1>4

\* There are finitely many rows and bookings at any time.
LEMMA SlotsTypedInv == OfferSpec => []SlotsTyped
<1>1. OfferInit => SlotsTyped
  <2>1. 0 \in 0..Latest
    BY SlotAssumption
  <2> QED
    BY <2>1, FS_EmptySet DEF OfferInit, SlotsTyped
<1>2. SlotsTyped /\ [OfferNext]_offerVars => SlotsTyped'
  <2> SUFFICES ASSUME SlotsTyped, [OfferNext]_offerVars PROVE SlotsTyped'
    OBVIOUS
  <2>1. ASSUME NEW s \in Shifts, AddShift(s) PROVE SlotsTyped'
    BY <2>1, FS_AddElement DEF AddShift, SlotsTyped
  <2>2. ASSUME NEW s \in shifts, DeleteShift(s) PROVE SlotsTyped'
    BY <2>2, FS_RemoveElement DEF DeleteShift, SlotsTyped
  <2>3. ASSUME NEW r \in Asks, Book(r) PROVE SlotsTyped'
    BY <2>3, FS_AddElement DEF Book, SlotsTyped
  <2>4. ASSUME NEW r \in Asks, CoreOrder(r) PROVE SlotsTyped'
    BY <2>4, FS_AddElement DEF CoreOrder, SlotsTyped
  <2>5. ASSUME NEW b \in bookings, CloseBooking(b) PROVE SlotsTyped'
    BY <2>5, FS_RemoveElement DEF CloseBooking, SlotsTyped
  <2>6. ASSUME Tick PROVE SlotsTyped'
    BY SlotAssumption, <2>6 DEF Tick, SlotsTyped
  <2>7. ASSUME UNCHANGED offerVars PROVE SlotsTyped'
    BY <2>7 DEF offerVars, SlotsTyped
  <2> QED
    BY <2>1, <2>2, <2>3, <2>4, <2>5, <2>6, <2>7 DEF OfferNext
<1> QED
  BY <1>1, <1>2, PTL DEF OfferSpec

\* In a typed state the clock, what it adds up to and the bounds of the rows are numbers.
LEMMA Instants ==
  ASSUME SlotsTyped
  PROVE  /\ now + Lead \in Nat /\ now + Window \in Nat
         /\ \A b \in bookings : b \in Intervals /\ Proper(b)
         /\ \A s \in shifts : s.start \in Int /\ s.end \in Int /\ Proper(s)
<1>1. now \in Nat
  BY SlotAssumption DEF SlotsTyped
<1>2. now + Lead \in Nat /\ now + Window \in Nat
  BY <1>1, SlotAssumption
<1>3. bookings \subseteq Asks /\ shifts \subseteq Shifts
  BY DEF SlotsTyped
<1> QED
  BY <1>2, <1>3, AsksProper

\* What the booking page offers of the rows it reads, in the terms of Covered.
LEMMA PublicSlotsExact ==
  ASSUME SlotsTyped, NEW rows \in SUBSET Open, NEW r \in Intervals, Proper(r)
  PROVE  Covered(PublicSlots(rows), r) <=>
           /\ r.start >= now + Lead /\ r.end <= now + Window
           /\ \E s \in rows : Contains(s, r)
           /\ \A b \in bookings : ~Meets(b, r, Buffer)
<1> DEFINE deadline == now + Lead
           horizon == now + Window
           held == {b \in bookings : b.start < horizon + Buffer /\ b.end > deadline - Buffer}
           clipped(s) == Iv(Later(s.start, deadline), Earlier(s.end, horizon))
           cut(s) == AllCut(FALSE, {clipped(s)}, held)
<1>1. /\ deadline \in Nat /\ horizon \in Nat /\ Buffer \in Nat
      /\ \A b \in bookings : b \in Intervals /\ Proper(b)
      /\ \A s \in shifts : s.start \in Int /\ s.end \in Int /\ Proper(s)
  BY AsksProper, Instants
<1>0. rows \subseteq shifts
  BY DEF Open
<1>2. IsFiniteSet(held)
  BY FS_Subset DEF SlotsTyped
<1>3. \A s \in shifts : clipped(s) \in Intervals
  BY <1>1 DEF Intervals, Iv, Later, Earlier
<1>4. \A s \in shifts : Exact(cut(s), clipped(s), held)
  <2> HIDE DEF clipped
  <2> QED
    BY <1>1, <1>2, <1>3, AllCutExact
<1>5. PublicSlots(rows) = {g \in UNION {cut(s) : s \in rows} : g.start < g.end}
  BY FoldIs DEF PublicSlots
<1>6. \A s \in shifts : Contains(clipped(s), r)
        <=> r.start >= deadline /\ r.end <= horizon /\ Contains(s, r)
  BY <1>1 DEF Contains, Iv, Later, Earlier, Intervals, Proper
<1>7. r.start >= deadline /\ r.end <= horizon =>
        \A b \in bookings \ held : ~Meets(b, r, Buffer)
  BY <1>1 DEF Meets, Intervals, Proper
<1>8. Covered(PublicSlots(rows), r) <=> \E s \in rows : Covered(cut(s), r)
  <2> HIDE DEF cut
  <2>1. \A s \in shifts : \A g \in cut(s) : Contains(g, r) => g.start < g.end
    BY <1>4 DEF Exact, Contains, Intervals, Proper
  <2> QED
    BY <1>0, <1>5, <2>1 DEF Covered
<1>9. \A s \in shifts : Covered(cut(s), r) <=>
        Contains(clipped(s), r) /\ \A b \in held : ~Meets(b, r, Buffer)
  BY <1>4 DEF Exact
<1> HIDE DEF cut, clipped
<1>10. held \subseteq bookings
  OBVIOUS
<1> HIDE DEF held
<1> QED
  BY <1>0, <1>6, <1>7, <1>8, <1>9, <1>10

\* What the calendar shows of a range, in the same terms.
LEMMA EventsExact ==
  ASSUME SlotsTyped, NEW range \in Intervals, Proper(range),
         NEW r \in Intervals, Contains(range, r), r.end - r.start >= MinSlot
  PROVE  Covered(Events(range), r) <=>
           /\ r.start >= now + Lead
           /\ \E s \in shifts : Contains(s, r)
           /\ \A b \in bookings : ~Meets(b, r, Buffer)
<1> DEFINE deadline == now + Lead
           held(s) == {b \in Held(range) : Meets(b, s, Buffer)}
           near(s) == Meets(s, range, 0) /\ s.end > deadline
           span(s) == Iv(s.start, s.end)
           cut(s) == AllCut(TRUE, {span(s)}, held(s))
           late(g) == Iv(Later(g.start, deadline), g.end)
<1>1. /\ deadline \in Nat /\ Buffer \in Nat /\ MinSlot \in Nat \ {0}
      /\ \A b \in bookings : b \in Intervals /\ Proper(b)
      /\ \A s \in shifts : s.start \in Int /\ s.end \in Int /\ Proper(s)
  BY AsksProper, Instants
<1>2. Proper(r)
  BY <1>1 DEF Proper, Intervals
<1>3. \A s \in shifts : IsFiniteSet(held(s)) /\ held(s) \subseteq bookings
  <2>1. \A s \in shifts : held(s) \in SUBSET bookings
    BY DEF Held
  <2> HIDE DEF held
  <2> QED
    BY <2>1, FS_Subset DEF SlotsTyped
<1>0. \A s \in shifts : span(s) \in Intervals /\ (Contains(span(s), r) <=> Contains(s, r))
  BY <1>1 DEF Intervals, Iv, Contains
<1>4. \A s \in shifts : Exact(cut(s), span(s), held(s))
  <2> HIDE DEF held, span
  <2> QED
    BY <1>0, <1>1, <1>3, AllCutExact
<1>5. Events(range) =
        {g \in {late(h) : h \in UNION {cut(s) : s \in {t \in shifts : near(t)}}} :
           g.end - g.start >= MinSlot}
  <2> DEFINE fold(s) == FoldSet(EventCut, {span(s)}, held(s))
             those == {t \in shifts : near(t)}
  <2>1. Events(range) =
          {g \in {late(h) : h \in UNION {fold(s) : s \in those}} : g.end - g.start >= MinSlot}
    BY DEF Events
  <2>2. \A s \in shifts : fold(s) = cut(s)
    BY FoldIs
  <2> HIDE DEF fold, cut, near
  <2>3. {fold(s) : s \in those} = {cut(s) : s \in those}
    BY <2>2
  <2> QED
    BY <2>1, <2>3
<1>6. \A s \in shifts : Contains(s, r) /\ r.start >= deadline => near(s)
  BY <1>1, <1>2 DEF Contains, Meets, Intervals, Proper
<1>7. \A s \in shifts : Contains(s, r) =>
        \A b \in bookings \ held(s) : ~Meets(b, r, Buffer)
  BY <1>1, <1>2 DEF Contains, Meets, Held, Intervals, Proper
<1>8. \A g \in Intervals : Contains(late(g), r) <=>
        Contains(g, r) /\ r.start >= deadline
  BY <1>1 DEF Contains, Iv, Later, Intervals
<1>9. \A g \in Intervals : late(g) \in Intervals
  BY <1>1 DEF Iv, Later, Intervals
<1>10. \A g \in Intervals : Contains(g, r) => g.end - g.start >= MinSlot
  BY <1>1 DEF Contains, Intervals
<1> HIDE DEF late
<1>11. Covered(Events(range), r) <=>
         \E s \in shifts : near(s) /\ r.start >= deadline /\ Covered(cut(s), r)
  <2> HIDE DEF cut, near
  <2>1. \A s \in shifts : cut(s) \subseteq Intervals
    BY <1>4 DEF Exact
  <2> QED
    BY <1>5, <1>8, <1>9, <1>10, <2>1 DEF Covered
<1>12. \A s \in shifts : Covered(cut(s), r) <=>
         Contains(s, r) /\ \A b \in held(s) : ~Meets(b, r, Buffer)
  BY <1>0, <1>2, <1>4 DEF Exact
<1> HIDE DEF cut, near, held
<1> QED
  BY <1>3, <1>6, <1>7, <1>11, <1>12

\* What the creation of a booking looks at.
LEMMA Accepted ==
  ASSUME NEW r \in Asks
  PROVE  PublicAccepts(r) <=>
           /\ r.start >= now + Lead
           /\ \E s \in shifts : Contains(s, r)
           /\ \A b \in bookings : ~Meets(b, r, Buffer)
BY AsksProper DEF PublicAccepts, Accepts, Conflicts, Proper

\* What the booking page offers is accepted, whatever bookings and shifts overlap
\* (PublicBookingAvailabilityApi, create_confirmed_booking_with_lock).
THEOREM OfferedIsBookableHolds == OfferSpec => []OfferedIsBookable
<1>1. SlotsTyped => OfferedIsBookable
  <2> SUFFICES ASSUME SlotsTyped, NEW rows \in Pages, NEW r \in Asks,
                      Covered(PublicSlots(rows), r)
               PROVE  PublicAccepts(r)
    BY DEF OfferedIsBookable, Covered
  <2>1. rows \in SUBSET Open /\ rows \subseteq shifts /\ r \in Intervals /\ Proper(r)
    BY AsksProper DEF Pages, Open
  <2> QED
    BY <2>1, PublicSlotsExact, Accepted
<1> QED
  BY <1>1, SlotsTypedInv, PTL

\* What would be accepted within the booking window is offered, unless each row with room
\* for it has at least Limit others before it (public_views.py:188).
THEOREM BookableIsOfferedHolds == OfferSpec => []BookableIsOffered
<1>1. SlotsTyped => BookableIsOffered
  <2> SUFFICES ASSUME SlotsTyped, NEW rows \in Pages, NEW r \in Asks, PublicAccepts(r),
                      r.end <= now + Window, NEW s \in shifts, Contains(s, r),
                      ~Covered(PublicSlots(rows), r)
               PROVE  Behind(s)
    BY DEF BookableIsOffered, Covered
  <2> DEFINE before == {t \in Open \ {s} : t.start <= s.start}
  <2>1. rows \in SUBSET Open /\ r \in Intervals /\ Proper(r)
    BY AsksProper DEF Pages
  <2>2. s \notin rows
    BY <2>1, PublicSlotsExact, Accepted
  <2>3. s \in Open
    <3>1. /\ s.start \in Int /\ s.end \in Int /\ now + Lead \in Nat /\ now + Window \in Nat
          /\ r.start \in Int /\ r.end \in Int /\ r.start < r.end /\ r.start >= now + Lead
      BY <2>1, Instants DEF Intervals, Proper, PublicAccepts
    <3> QED
      BY <3>1 DEF Open, Contains
  <2>4. rows \subseteq before
    BY <2>1, <2>2, <2>3 DEF Pages
  <2>5. IsFiniteSet(Open) /\ IsFiniteSet(before)
    BY FS_Subset DEF SlotsTyped, Open
  <2>6. Cardinality(rows) < Cardinality(Open)
    <3>1. Cardinality(rows) <= Cardinality(Open) /\ Cardinality(rows) # Cardinality(Open)
      BY <2>1, <2>2, <2>3, <2>5, FS_Subset
    <3> QED
      BY <2>1, <2>5, <3>1, FS_Subset, FS_CardinalityType
  <2>7. Cardinality(rows) = Limit
    BY <2>5, <2>6, FS_CardinalityType, SlotAssumption DEF Pages, Earlier
  <2>8. /\ Cardinality(rows) <= Cardinality(before)
        /\ Cardinality(rows) \in Nat /\ Cardinality(before) \in Nat
    BY <2>4, <2>5, FS_Subset, FS_CardinalityType
  <2> QED
    BY <2>7, <2>8 DEF Behind
<1> QED
  BY <1>1, SlotsTypedInv, PTL

\* System A finds a cast exactly when the booking that follows is accepted.
THEOREM SearchAgreesHolds == OfferSpec => []SearchAgrees
<1>1. SlotsTyped => SearchAgrees
  <2> SUFFICES ASSUME SlotsTyped, NEW r \in Asks
               PROVE  Found(r) <=> r.end - r.start \in Courses /\ PublicAccepts(r)
    BY DEF SearchAgrees
  <2>1. SearchFinds(r) <=> PublicAccepts(r)
    BY AsksProper DEF SearchFinds, PublicAccepts, Accepts, Proper
  <2>2. Contains(r, r)
    BY AsksProper DEF Contains, Intervals
  <2> QED
    BY <2>1, <2>2 DEF Found, Searched
<1> QED
  BY <1>1, SlotsTypedInv, PTL

\* The calendar of System A shows as free exactly what can be booked, and the cast all
\* her bookings (list_events).
THEOREM CalendarAgreesHolds == OfferSpec => []CalendarAgrees
<1>1. SlotsTyped => CalendarAgrees
  <2> SUFFICES ASSUME SlotsTyped, NEW range \in Ranges, Proper(range)
               PROVE  /\ \A r \in {q \in Asks : /\ Contains(range, q)
                                                       /\ q.end - q.start >= MinSlot} :
                           PublicAccepts(r) <=>
                             \E g \in Shown(range, FALSE) : Contains(g, r)
                      /\ {b \in bookings : Meets(b, range, 0)} \subseteq Shown(range, TRUE)
    BY DEF CalendarAgrees, Proper
  <2>1. range \in Intervals
    BY SlotAssumption DEF Ranges, Times, Iv, Intervals
  <2>2. Shown(range, FALSE) = Events(range)
    BY DEF Shown
  <2>3. ASSUME NEW r \in Asks, Contains(range, r), r.end - r.start >= MinSlot
        PROVE  PublicAccepts(r) <=>
                 \E g \in Shown(range, FALSE) : Contains(g, r)
    BY <2>1, <2>2, <2>3, AsksProper, EventsExact, Accepted DEF Covered
  <2>4. ASSUME NEW b \in bookings, Meets(b, range, 0)
        PROVE  b \in Shown(range, TRUE)
    <3>1. /\ b.start \in Int /\ b.end \in Int /\ range.start \in Int /\ range.end \in Int
          /\ Buffer \in Nat
      BY <2>1, <2>4, Instants, AsksProper DEF Intervals
    <3>2. Meets(b, range, 2 * Buffer)
      BY <2>4, <3>1 DEF Meets
    <3> QED
      BY <2>4, <3>2 DEF Shown, Held
  <2> QED
    BY <2>3, <2>4
<1> QED
  BY <1>1, SlotsTypedInv, PTL

=============================================================================
