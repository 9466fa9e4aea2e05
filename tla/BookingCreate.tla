------------------------------ MODULE BookingCreate ------------------------------
(***************************************************************************)
(* The creation of a booking, as bookings/services.py performs it inside   *)
(* one PostgreSQL transaction (READ COMMITTED), interleaved with           *)
(*   - other creations, public and integration;                            *)
(*   - the regeneration of a resource's recurring availability, one        *)
(*     transaction of resources/services/schedule_service.py;              *)
(*   - the deletion of single availability rows; and                       *)
(*   - the handlers that cancel, complete or delete a booking.             *)
(*                                                                         *)
(* A step is one statement as PostgreSQL sees it.  A row lock is kept by   *)
(* the process that took it until its transaction ends.  What the          *)
(* database does is taken from its documentation and marked external:      *)
(*   - SELECT .. FOR UPDATE with select_related("tenant") locks the        *)
(*     resource row and then the joined tenant row;                        *)
(*   - SELECT .. FOR UPDATE .. LIMIT 1 tries the rows of its snapshot in   *)
(*     order, waits for a locked row and passes over one deleted since;    *)
(*   - Django's foreign keys are deferred: the commit of a transaction     *)
(*     that inserted a child row of a resource needs the key-share lock of *)
(*     that resource, which a FOR UPDATE of another transaction blocks;    *)
(*   - a transaction on a cycle of waits is aborted and rolled back.       *)
(***************************************************************************)
EXTENDS Integers, FiniteSets

CONSTANTS
  Tenants, Resources, TenantOf,  \* every resource belongs to one tenant
  Creators,                      \* requests that create a booking, one each
  Editors,                       \* requests that regenerate the recurring slots
  Slots,                         \* ids of Availability rows, in id order
  SlotOf,                        \* the resource and interval of each of them
  RecurringSlots,                \* those with is_recurring
  Requests,                      \* what a creator may ask for
  Buffer,                        \* buffer_minutes, 30 at both call sites
  None

Intervals == [res : Resources, start : Int, end : Int]
Procs     == Creators \cup Editors
Rows      == Tenants \cup Resources \cup Slots

ASSUME BookingAssumption ==
  /\ TenantOf \in [Resources -> Tenants]
  /\ Slots \subseteq Nat
  /\ SlotOf \in [Slots -> Intervals]
  /\ RecurringSlots \subseteq Slots
  /\ Requests \subseteq Intervals
  /\ Buffer \in Nat
  /\ Creators \cap Editors = {}
  /\ None \notin Procs \cup Requests

VARIABLES
  slotState,  \* committed availability rows: "absent", "live" or "gone"
  status,     \* committed booking of a creator: "none", "CONFIRMED", "CLOSED"
  lock,       \* holder of each row lock, or None
  pc,         \* next statement of each process
  req,        \* the request of a creator
  cand,       \* rows the running SELECT or DELETE of a process has still to try
  edit,       \* what an editor's open transaction has changed so far
  queue,      \* bookings whose process_new_booking task is enqueued
  answer      \* how a creator's request was answered

vars == <<slotState, status, lock, pc, req, cand, edit, queue, answer>>

---------------------------------------------------------------------------
(* Reading the committed rows *)

Closer(a, b, gap) == a.start < b.end + gap /\ a.end > b.start - gap

Covers(s, r) ==
  SlotOf[s].res = r.res /\ SlotOf[s].start <= r.start /\ SlotOf[s].end >= r.end

Covering(r) == {s \in Slots : slotState[s] = "live" /\ Covers(s, r)}

\* Wrong on purpose: the tenant's buffer is forgotten.
ConflictingNoBuffer(r, gap) ==
  {q \in Creators : /\ status[q] = "CONFIRMED"
                    /\ req[q].res = r.res
                    /\ Closer(req[q], r, 0)}

Conflicting(r, gap) ==
  {q \in Creators : /\ status[q] = "CONFIRMED"
                    /\ req[q].res = r.res
                    /\ Closer(req[q], r, gap)}

\* s is the row order_by("start_time", "id").first() yields among S
IsFirst(s, S) ==
  /\ s \in S
  /\ \A t \in S : \/ SlotOf[s].start < SlotOf[t].start
                 \/ /\ SlotOf[s].start = SlotOf[t].start
                    /\ s <= t

---------------------------------------------------------------------------
Free(row)        == lock[row] = None
Take(p, row)     == Free(row) /\ lock' = [lock EXCEPT ![row] = p]
Goto(p, from, to) == pc[p] = from /\ pc' = [pc EXCEPT ![p] = to]

\* The end of a transaction releases every lock it took.
ReleaseLocks(p) == lock' = [row \in Rows |-> IF lock[row] = p THEN None ELSE lock[row]]

Answer(p, a) == answer' = [answer EXCEPT ![p] = a]

\* Wrong on purpose: the connection stays in its failed transaction.
RollbackKeepsLocks(p, a) ==
  /\ Answer(p, a)
  /\ pc' = [pc EXCEPT ![p] = "done"]
  /\ cand' = [cand EXCEPT ![p] = {}]
  /\ UNCHANGED <<slotState, status, lock, req, edit, queue>>

\* The atomic block is left by an exception: nothing it wrote remains.
Rollback(p, a) ==
  /\ ReleaseLocks(p)
  /\ Answer(p, a)
  /\ pc' = [pc EXCEPT ![p] = "done"]
  /\ cand' = [cand EXCEPT ![p] = {}]
  /\ UNCHANGED <<slotState, status, req, edit, queue>>

InTransaction == {"lockTenant", "scan", "lockSlot", "check", "insert"}

---------------------------------------------------------------------------
(* create_confirmed_booking_with_lock *)

Begin(p) ==
  \E r \in Requests :
    /\ pc[p] = "start"
    /\ req' = [req EXCEPT ![p] = r]
    /\ IF r.end <= r.start
         THEN Answer(p, "invalid") /\ pc' = [pc EXCEPT ![p] = "done"]
         ELSE UNCHANGED answer /\ pc' = [pc EXCEPT ![p] = "lockResource"]
    /\ UNCHANGED <<slotState, status, lock, cand, edit, queue>>

\* Wrong on purpose: the resource is read, not locked.
ReadResource(p) ==
  /\ Goto(p, "lockResource", "lockTenant")
  /\ UNCHANGED <<slotState, status, lock, req, cand, edit, queue, answer>>

LockResource(p) ==
  /\ Goto(p, "lockResource", "lockTenant")
  /\ Take(p, req[p].res)
  /\ UNCHANGED <<slotState, status, req, cand, edit, queue, answer>>

LockTenant(p) ==
  /\ Goto(p, "lockTenant", "scan")
  /\ Take(p, TenantOf[req[p].res])
  /\ UNCHANGED <<slotState, status, req, cand, edit, queue, answer>>

Scan(p) ==
  /\ Goto(p, "scan", "lockSlot")
  /\ cand' = [cand EXCEPT ![p] = Covering(req[p])]
  /\ UNCHANGED <<slotState, status, lock, req, edit, queue, answer>>

\* Wrong on purpose: the availability row is read, not locked.
ReadSlot(p) ==
  /\ Goto(p, "lockSlot", "check")
  /\ \E s \in cand[p] :
       /\ IsFirst(s, cand[p])
       /\ slotState[s] = "live"
       /\ cand' = [cand EXCEPT ![p] = {s}]
  /\ UNCHANGED <<slotState, status, lock, req, edit, queue, answer>>

LockSlot(p) ==
  /\ Goto(p, "lockSlot", "check")
  /\ \E s \in cand[p] :
       /\ IsFirst(s, cand[p])
       /\ slotState[s] = "live"
       /\ Take(p, s)
       /\ cand' = [cand EXCEPT ![p] = {s}]
  /\ UNCHANGED <<slotState, status, req, edit, queue, answer>>

PassDeletedSlot(p) ==
  /\ pc[p] = "lockSlot"
  /\ \E s \in cand[p] :
       /\ IsFirst(s, cand[p])
       /\ slotState[s] # "live"
       /\ cand' = [cand EXCEPT ![p] = @ \ {s}]
  /\ UNCHANGED <<slotState, status, lock, pc, req, edit, queue, answer>>

RefuseOutside(p) ==
  /\ pc[p] = "lockSlot"
  /\ cand[p] = {}
  /\ Rollback(p, "outside")

RefuseConflict(p) ==
  /\ pc[p] = "check"
  /\ Conflicting(req[p], Buffer) # {}
  /\ Rollback(p, "conflict")

\* Wrong on purpose: the task is enqueued inside the transaction.
PassAndEnqueue(p) ==
  /\ Goto(p, "check", "insert")
  /\ Conflicting(req[p], Buffer) = {}
  /\ queue' = queue \cup {p}
  /\ UNCHANGED <<slotState, status, lock, req, cand, edit, answer>>

PassConflictCheck(p) ==
  /\ Goto(p, "check", "insert")
  /\ Conflicting(req[p], Buffer) = {}
  /\ UNCHANGED <<slotState, status, lock, req, cand, edit, queue, answer>>

\* The INSERT and the statements of after_create become visible together.
Commit(p) ==
  /\ Goto(p, "insert", "enqueue")
  /\ status' = [status EXCEPT ![p] = "CONFIRMED"]
  /\ cand' = [cand EXCEPT ![p] = {}]
  /\ ReleaseLocks(p)
  /\ UNCHANGED <<slotState, req, edit, queue, answer>>

\* transaction.on_commit(process_new_booking.delay), then the response.
Enqueue(p) ==
  /\ Goto(p, "enqueue", "done")
  /\ queue' = queue \cup {p}
  /\ Answer(p, "created")
  /\ UNCHANGED <<slotState, status, lock, req, cand, edit>>

\* The broker refuses the task, or the worker process dies after the commit.
EnqueueFails(p) ==
  /\ Goto(p, "enqueue", "done")
  /\ Answer(p, "error")
  /\ UNCHANGED <<slotState, status, lock, req, cand, edit, queue>>

\* A statement of the transaction fails, or the worker process dies.
Fail(p) ==
  /\ pc[p] \in InTransaction \cup {"lockResource"}
  /\ Rollback(p, "error")

---------------------------------------------------------------------------
(* create_recurring_availability: the transaction deletes the recurring     *)
(* rows of its days and inserts rows for the week it was given.             *)

InEdit == {"edit", "commit"}

\* The day and week range select the recurring rows that will be deleted;
\* patterns says whether the week has a slot, hence RecurringPattern rows.
EditBegin(e) ==
  /\ Goto(e, "start", "edit")
  /\ \E r \in Resources, patterns \in BOOLEAN :
       \E D \in SUBSET {s \in RecurringSlots : slotState[s] = "live" /\ SlotOf[s].res = r} :
         /\ cand' = [cand EXCEPT ![e] = D]
         /\ edit' = [edit EXCEPT ![e] = [res |-> r, patterns |-> patterns,
                                         deleted |-> {}, added |-> {}]]
  /\ UNCHANGED <<slotState, status, lock, req, queue, answer>>

EditDelete(e) ==
  /\ pc[e] = "edit"
  /\ \E s \in cand[e] :
       /\ IsFirst(s, cand[e])
       /\ cand' = [cand EXCEPT ![e] = @ \ {s}]
       /\ IF slotState[s] = "live"
            THEN Take(e, s) /\ edit' = [edit EXCEPT ![e].deleted = @ \cup {s}]
            ELSE UNCHANGED <<lock, edit>>
  /\ UNCHANGED <<slotState, status, pc, req, queue, answer>>

\* _check_conflict as the editor's own transaction sees the tables
ShiftConflict(e, s) ==
  \/ \E t \in ({u \in Slots : slotState[u] = "live"} \ edit[e].deleted) \cup edit[e].added :
       SlotOf[t].res = SlotOf[s].res /\ Closer(SlotOf[t], SlotOf[s], 0)
  \/ Conflicting(SlotOf[s], Buffer) # {}

EditInsert(e) ==
  /\ pc[e] = "edit"
  /\ edit[e].patterns
  /\ \E s \in RecurringSlots :
       /\ slotState[s] = "absent"
       /\ SlotOf[s].res = edit[e].res
       /\ \A f \in Editors : pc[f] \in InEdit => s \notin edit[f].added
       /\ ~ShiftConflict(e, s)
       /\ edit' = [edit EXCEPT ![e].added = @ \cup {s}]
  /\ UNCHANGED <<slotState, status, lock, pc, req, cand, queue, answer>>

EditEnd(e) ==
  /\ Goto(e, "edit", "commit")
  /\ cand[e] = {}
  /\ UNCHANGED <<slotState, status, lock, req, cand, edit, queue, answer>>

\* Wrong on purpose: the inserted rows do not refer to the resource row.
EditCommitNoWait(e) ==
  /\ Goto(e, "commit", "done")
  /\ slotState' = [s \in Slots |-> IF s \in edit[e].deleted THEN "gone"
                                   ELSE IF s \in edit[e].added THEN "live"
                                   ELSE slotState[s]]
  /\ ReleaseLocks(e)
  /\ UNCHANGED <<status, req, cand, edit, queue, answer>>

EditCommit(e) ==
  /\ Goto(e, "commit", "done")
  /\ edit[e].patterns => Free(edit[e].res)
  /\ slotState' = [s \in Slots |-> IF s \in edit[e].deleted THEN "gone"
                                   ELSE IF s \in edit[e].added THEN "live"
                                   ELSE slotState[s]]
  /\ ReleaseLocks(e)
  /\ UNCHANGED <<status, req, cand, edit, queue, answer>>

EditFail(e) ==
  /\ pc[e] \in InEdit
  /\ ReleaseLocks(e)
  /\ pc' = [pc EXCEPT ![e] = "done"]
  /\ cand' = [cand EXCEPT ![e] = {}]
  /\ UNCHANGED <<slotState, status, req, edit, queue, answer>>

---------------------------------------------------------------------------
(* Autocommitted statements of other requests *)

\* delete_availability: one DELETE, which waits for the row lock.
DeleteAvailability(s) ==
  /\ slotState[s] = "live"
  /\ Free(s)
  /\ slotState' = [slotState EXCEPT ![s] = "gone"]
  /\ UNCHANGED <<status, lock, pc, req, cand, edit, queue, answer>>

\* Wrong on purpose: a status the model does not know.
CloseMisspelt(p) ==
  /\ status[p] = "CONFIRMED"
  /\ status' = [status EXCEPT ![p] = "CANCELED"]
  /\ UNCHANGED <<slotState, lock, pc, req, cand, edit, queue, answer>>

\* Any handler that takes a booking out of CONFIRMED, or deletes it.
CloseBooking(p) ==
  /\ status[p] = "CONFIRMED"
  /\ status' = [status EXCEPT ![p] = "CLOSED"]
  /\ UNCHANGED <<slotState, lock, pc, req, cand, edit, queue, answer>>

---------------------------------------------------------------------------
(* Waiting, and PostgreSQL's deadlock detector *)

Awaited(p) ==
  CASE pc[p] = "lockResource"                -> {req[p].res}
    [] pc[p] = "lockTenant"                  -> {TenantOf[req[p].res]}
    [] pc[p] \in {"lockSlot", "edit"}         -> {s \in cand[p] : IsFirst(s, cand[p])}
    [] pc[p] = "commit" /\ edit[p].patterns  -> {edit[p].res}
    [] OTHER                                 -> {}

WaitsFor(p, q) == p # q /\ \E row \in Awaited(p) : lock[row] = q

\* Every process waits for at most one other, so a set in which each waits
\* for a member and is awaited by a member is made of cycles.
OnCycle(p) ==
  /\ \E q \in Procs : WaitsFor(p, q)
  /\ \E C \in SUBSET Procs :
    /\ p \in C
    /\ \A x \in C : (\E y \in C : WaitsFor(x, y)) /\ (\E y \in C : WaitsFor(y, x))

DeadlockVictim(p) == p \in Creators /\ OnCycle(p) /\ Rollback(p, "deadlock")

EditDeadlockVictim(e) == e \in Editors /\ OnCycle(e) /\ EditFail(e)

---------------------------------------------------------------------------
Init ==
  /\ slotState \in [Slots -> {"absent", "live"}]
  /\ status = [p \in Creators |-> "none"]
  /\ lock = [row \in Rows |-> None]
  /\ pc = [p \in Procs |-> "start"]
  /\ req = [p \in Creators |-> None]
  /\ cand = [p \in Procs |-> {}]
  /\ edit = [e \in Editors |-> None]
  /\ queue = {}
  /\ answer = [p \in Creators |-> "none"]

Work(p) ==
  \/ Begin(p) \/ LockResource(p) \/ LockTenant(p) \/ Scan(p)
  \/ LockSlot(p) \/ PassDeletedSlot(p) \/ RefuseOutside(p)
  \/ RefuseConflict(p) \/ PassConflictCheck(p) \/ Commit(p) \/ Enqueue(p)
  \/ DeadlockVictim(p)

EditWork(e) == EditDelete(e) \/ EditEnd(e) \/ EditCommit(e) \/ EditDeadlockVictim(e)

Next ==
  \/ \E p \in Creators : Work(p) \/ EnqueueFails(p) \/ Fail(p) \/ CloseBooking(p)
  \/ \E e \in Editors : EditBegin(e) \/ EditInsert(e) \/ EditWork(e) \/ EditFail(e)
  \/ \E s \in Slots : DeleteAvailability(s)

Spec == Init /\ [][Next]_vars

\* A request in a gunicorn thread runs on whenever the database lets it, and
\* the detector breaks a lasting cycle.  Nobody has to start, fail or edit.
FairSpec ==
  /\ Spec
  /\ \A p \in Creators : WF_vars(Work(p))
  /\ \A e \in Editors : WF_vars(EditWork(e))

---------------------------------------------------------------------------
(* Properties *)

CreatorPc == InTransaction \cup {"start", "lockResource", "enqueue", "done"}
Edits     == [res : Resources, patterns : BOOLEAN, deleted : SUBSET Slots, added : SUBSET Slots]

TypeOK ==
  /\ slotState \in [Slots -> {"absent", "live", "gone"}]
  /\ status \in [Creators -> {"none", "CONFIRMED", "CLOSED"}]
  /\ lock \in [Rows -> Procs \cup {None}]
  /\ pc \in [Procs -> CreatorPc \cup InEdit]
  /\ req \in [Creators -> Requests \cup {None}]
  /\ cand \in [Procs -> SUBSET Slots]
  /\ edit \in [Editors -> Edits \cup {None}]
  /\ queue \subseteq Creators
  /\ answer \in [Creators -> {"none", "created", "invalid", "outside", "conflict",
                              "deadlock", "error"}]

\* Two confirmed bookings of one resource are at least the buffer apart,
\* whatever ran at the same time (README section 11, bookings/services.py:56-64).
NoDoubleBooking ==
  \A p, q \in Creators :
    (p # q /\ status[p] = "CONFIRMED" /\ status[q] = "CONFIRMED" /\ req[p].res = req[q].res)
      => ~Closer(req[p], req[q], Buffer)

\* A booking becomes visible only at an instant when an availability row that
\* covers it still exists: no deletion slips in between the SELECT and the commit.
ConfirmedWhenCovered ==
  [][\A p \in Creators :
       (status[p] = "none" /\ status'[p] = "CONFIRMED") => Covering(req[p]) # {}]_vars

\* "Outside available slots" is answered only when, at that instant, no
\* availability row covers the request: a regeneration running at the same
\* time never makes a request miss both the old and the new row.
OutsideAnswerIsTrue ==
  [][\A p \in Creators :
       (answer[p] = "none" /\ answer'[p] = "outside") => Covering(req[p]) = {}]_vars

\* A task is enqueued only for a booking a worker can read (README section 13):
\* process_new_booking returns silently when the row is not there yet.
EnqueuedAfterCommit == \A p \in queue : status[p] # "none"

\* The parts of the inductive invariant.  A creation past its first lock holds
\* its resource row until its transaction ends.
HoldsResource ==
  \A p \in Creators : pc[p] \in InTransaction => lock[req[p].res] = p

\* While the availability query waits for row locks, it has still to try every
\* row that covers the request: none can be added while the resource is held.
SeesEverySlot ==
  \A p \in Creators : pc[p] = "lockSlot" => Covering(req[p]) \subseteq cand[p]

\* Past the query, a row that covers the request is live and held.
HoldsCover ==
  \A p \in Creators :
    pc[p] \in {"check", "insert"} => \E s \in Covering(req[p]) : lock[s] = p

\* Nothing confirmed conflicts with a creation that passed the check.
CheckStillHolds ==
  \A p \in Creators : pc[p] = "insert" => Conflicting(req[p], Buffer) = {}

\* What an open regeneration has changed: it holds the rows it deleted, and it
\* adds rows of its resource only, with their recurring patterns.
EditIsOwn ==
  \A e \in Editors :
    pc[e] \in InEdit =>
      /\ edit[e] \in Edits
      /\ \A s \in edit[e].deleted : lock[s] = e
      /\ \A s \in edit[e].added : SlotOf[s].res = edit[e].res /\ edit[e].patterns

\* Which variables are set at which statement.
Progress ==
  /\ \A p \in Creators :
       /\ pc[p] \in CreatorPc
       /\ (pc[p] # "start") => (req[p] \in Requests)
       /\ (pc[p] \notin {"enqueue", "done"}) => (status[p] = "none")
       /\ (pc[p] = "enqueue") => (status[p] # "none")
       /\ (pc[p] = "lockSlot") => (\A s \in cand[p] : Covers(s, req[p]))
  /\ \A e \in Editors : pc[e] \in InEdit \cup {"start", "done"}

\* The inductive invariant behind NoDoubleBooking and the action properties.
IInv ==
  /\ TypeOK /\ Progress /\ HoldsResource /\ SeesEverySlot /\ HoldsCover
  /\ CheckStillHolds /\ EditIsOwn /\ NoDoubleBooking /\ EnqueuedAfterCommit

\* Every creation request is answered, also when it meets a deadlock.
EveryRequestAnswered == \A p \in Creators : <>(answer[p] # "none")

---------------------------------------------------------------------------
Abstract == INSTANCE BookingLedger WITH
  open   <- {s \in Slots : slotState[s] = "live"},
  asked  <- req,
  booked <- status,
  reply  <- answer

\* Each creation behaves as one decision taken at an instant (BookingLedger).
ImplementsLedger == Abstract!Ledger

=============================================================================
