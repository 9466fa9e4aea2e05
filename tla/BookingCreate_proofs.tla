----------------------------- MODULE BookingCreate_proofs -----------------------------
(***************************************************************************)
(* Proofs about BookingCreate, for any number of requests, regenerations,  *)
(* resources, tenants and availability rows, and any buffer.               *)
(*                                                                         *)
(* The invariant IInv is inductive.  Each conjunct has a lemma <name>Step  *)
(* with one step per action; the theorems at the end combine them.         *)
(***************************************************************************)
EXTENDS BookingCreate, TLAPS

\* Two intervals are closer than a gap in either order of the two.
LEMMA CloserSymmetric ==
  ASSUME NEW a \in Intervals, NEW b \in Intervals, NEW g \in Nat
  PROVE  Closer(a, b, g) <=> Closer(b, a, g)
BY DEF Closer, Intervals

\* Every variable keeps its type.
LEMMA TypeOKStep == ASSUME IInv, [Next]_vars PROVE TypeOK'
<1> USE BookingAssumption DEF Procs, Rows, Intervals, CreatorPc, InTransaction, InEdit, Edits
<1>a. TypeOK /\ Progress /\ EditIsOwn
  BY DEF IInv
<1>1. ASSUME NEW p \in Creators, Begin(p) PROVE TypeOK'
  BY <1>1, <1>a DEF Begin, Answer, TypeOK, Progress, EditIsOwn
<1>2. ASSUME NEW p \in Creators, LockResource(p) PROVE TypeOK'
  BY <1>2, <1>a DEF LockResource, Goto, Take, Free, TypeOK, Progress, EditIsOwn
<1>3. ASSUME NEW p \in Creators, LockTenant(p) PROVE TypeOK'
  BY <1>3, <1>a DEF LockTenant, Goto, Take, Free, TypeOK, Progress, EditIsOwn
<1>4. ASSUME NEW p \in Creators, Scan(p) PROVE TypeOK'
  BY <1>4, <1>a DEF Scan, Goto, Covering, Covers, TypeOK, Progress, EditIsOwn
<1>5. ASSUME NEW p \in Creators, LockSlot(p) PROVE TypeOK'
  BY <1>5, <1>a DEF LockSlot, Goto, Take, IsFirst, Free, TypeOK, Progress, EditIsOwn
<1>6. ASSUME NEW p \in Creators, PassDeletedSlot(p) PROVE TypeOK'
  BY <1>6, <1>a DEF PassDeletedSlot, IsFirst, TypeOK, Progress, EditIsOwn
<1>7. ASSUME NEW p \in Creators, RefuseOutside(p) PROVE TypeOK'
  BY <1>7, <1>a DEF RefuseOutside, Rollback, ReleaseLocks, Answer, TypeOK, Progress,
       EditIsOwn
<1>8. ASSUME NEW p \in Creators, RefuseConflict(p) PROVE TypeOK'
  BY <1>8, <1>a DEF RefuseConflict, Rollback, Conflicting, ReleaseLocks, Answer, TypeOK,
       Progress, EditIsOwn
<1>9. ASSUME NEW p \in Creators, PassConflictCheck(p) PROVE TypeOK'
  BY <1>9, <1>a DEF PassConflictCheck, Goto, Conflicting, TypeOK, Progress, EditIsOwn
<1>10. ASSUME NEW p \in Creators, Commit(p) PROVE TypeOK'
  BY <1>10, <1>a DEF Commit, Goto, ReleaseLocks, TypeOK, Progress, EditIsOwn
<1>11. ASSUME NEW p \in Creators, Enqueue(p) PROVE TypeOK'
  BY <1>11, <1>a DEF Enqueue, Goto, Answer, TypeOK, Progress, EditIsOwn
<1>12. ASSUME NEW p \in Creators, DeadlockVictim(p) PROVE TypeOK'
  BY <1>12, <1>a DEF DeadlockVictim, Rollback, ReleaseLocks, Answer, TypeOK, Progress,
       EditIsOwn
<1>13. ASSUME NEW p \in Creators, EnqueueFails(p) PROVE TypeOK'
  BY <1>13, <1>a DEF EnqueueFails, Goto, Answer, TypeOK, Progress, EditIsOwn
<1>14. ASSUME NEW p \in Creators, Fail(p) PROVE TypeOK'
  BY <1>14, <1>a DEF Fail, Rollback, ReleaseLocks, Answer, TypeOK, Progress, EditIsOwn
<1>15. ASSUME NEW p \in Creators, CloseBooking(p) PROVE TypeOK'
  BY <1>15, <1>a DEF CloseBooking, TypeOK, Progress, EditIsOwn
<1>16. ASSUME NEW e \in Editors, EditBegin(e) PROVE TypeOK'
  BY <1>16, <1>a DEF EditBegin, Goto, TypeOK, Progress, EditIsOwn
<1>17. ASSUME NEW e \in Editors, EditInsert(e) PROVE TypeOK'
  <2>1. PICK s \in RecurringSlots : edit' = [edit EXCEPT ![e].added = @ \cup {s}]
    BY <1>17 DEF EditInsert
  <2>2. edit[e] \in Edits
    BY <1>17, <1>a DEF EditInsert, EditIsOwn
  <2>3. [edit[e] EXCEPT !.added = @ \cup {s}] \in Edits
    BY <2>2
  <2>4. edit' \in [Editors -> Edits \cup {None}]
    BY <2>1, <2>3, <1>a DEF TypeOK
  <2>5. QED
    BY <1>17, <2>4, <1>a DEF EditInsert, TypeOK
<1>18. ASSUME NEW e \in Editors, EditDelete(e) PROVE TypeOK'
  <2>1. PICK s \in cand[e] :
          /\ cand' = [cand EXCEPT ![e] = @ \ {s}]
          /\ IF slotState[s] = "live"
               THEN Take(e, s) /\ edit' = [edit EXCEPT ![e].deleted = @ \cup {s}]
               ELSE UNCHANGED <<lock, edit>>
    BY <1>18 DEF EditDelete
  <2>2. s \in Slots /\ cand' \in [Procs -> SUBSET Slots]
    BY <2>1, <1>a DEF TypeOK
  <2>3. lock' \in [Rows -> Procs \cup {None}]
    BY <2>1, <2>2, <1>a DEF TypeOK, Take
  <2>4. edit' \in [Editors -> Edits \cup {None}]
    <3>1. edit[e] \in Edits
      BY <1>18, <1>a DEF EditDelete, EditIsOwn
    <3>2. [edit[e] EXCEPT !.deleted = @ \cup {s}] \in Edits
      BY <3>1, <2>2
    <3>3. QED
      BY ZenonT(60), <2>1, <3>2, <1>a DEF TypeOK
  <2>5. QED
    BY <1>18, <2>2, <2>3, <2>4, <1>a DEF EditDelete, TypeOK
<1>19. ASSUME NEW e \in Editors, EditEnd(e) PROVE TypeOK'
  BY <1>19, <1>a DEF EditEnd, Goto, TypeOK, Progress, EditIsOwn
<1>20. ASSUME NEW e \in Editors, EditCommit(e) PROVE TypeOK'
  BY <1>20, <1>a DEF EditCommit, Goto, Free, ReleaseLocks, TypeOK, Progress, EditIsOwn
<1>21. ASSUME NEW e \in Editors, EditDeadlockVictim(e) PROVE TypeOK'
  BY <1>21, <1>a DEF EditDeadlockVictim, EditFail, ReleaseLocks, TypeOK, Progress,
       EditIsOwn
<1>22. ASSUME NEW e \in Editors, EditFail(e) PROVE TypeOK'
  BY <1>22, <1>a DEF EditFail, ReleaseLocks, TypeOK, Progress, EditIsOwn
<1>23. ASSUME NEW s \in Slots, DeleteAvailability(s) PROVE TypeOK'
  BY <1>23, <1>a DEF DeleteAvailability, Free, TypeOK, Progress, EditIsOwn
<1>24. ASSUME UNCHANGED vars PROVE TypeOK'
  BY <1>24, <1>a DEF vars, TypeOK
<1> QED
  BY <1>1, <1>2, <1>3, <1>4, <1>5, <1>6, <1>7, <1>8, <1>9, <1>10, <1>11, <1>12, <1>13,
     <1>14, <1>15, <1>16, <1>17, <1>18, <1>19, <1>20, <1>21, <1>22, <1>23, <1>24 DEF
     Next, Work, EditWork

\* The program counter tells which variables of a request are set.
LEMMA ProgressStep == ASSUME IInv, [Next]_vars PROVE Progress'
<1> USE BookingAssumption DEF Procs, Rows, Intervals, CreatorPc, InTransaction, InEdit, Edits
<1>a. Progress /\ TypeOK
  BY DEF IInv
<1>1. ASSUME NEW p \in Creators, Begin(p) PROVE Progress'
  BY <1>1, <1>a DEF Begin, Answer, Progress, Covers, TypeOK
<1>2. ASSUME NEW p \in Creators, LockResource(p) PROVE Progress'
  BY <1>2, <1>a DEF LockResource, Goto, Take, Free, Progress, Covers, TypeOK
<1>3. ASSUME NEW p \in Creators, LockTenant(p) PROVE Progress'
  BY <1>3, <1>a DEF LockTenant, Goto, Take, Free, Progress, Covers, TypeOK
<1>4. ASSUME NEW p \in Creators, Scan(p) PROVE Progress'
  BY <1>4, <1>a DEF Scan, Goto, Covering, Covers, Progress, TypeOK
<1>5. ASSUME NEW p \in Creators, LockSlot(p) PROVE Progress'
  BY <1>5, <1>a DEF LockSlot, Goto, Take, IsFirst, Free, Progress, Covers, TypeOK
<1>6. ASSUME NEW p \in Creators, PassDeletedSlot(p) PROVE Progress'
  BY <1>6, <1>a DEF PassDeletedSlot, IsFirst, Progress, Covers, TypeOK
<1>7. ASSUME NEW p \in Creators, RefuseOutside(p) PROVE Progress'
  BY <1>7, <1>a DEF RefuseOutside, Rollback, ReleaseLocks, Answer, Progress, Covers,
       TypeOK
<1>8. ASSUME NEW p \in Creators, RefuseConflict(p) PROVE Progress'
  BY <1>8, <1>a DEF RefuseConflict, Rollback, Conflicting, ReleaseLocks, Answer,
       Progress, Covers, TypeOK
<1>9. ASSUME NEW p \in Creators, PassConflictCheck(p) PROVE Progress'
  BY <1>9, <1>a DEF PassConflictCheck, Goto, Conflicting, Progress, Covers, TypeOK
<1>10. ASSUME NEW p \in Creators, Commit(p) PROVE Progress'
  BY <1>10, <1>a DEF Commit, Goto, ReleaseLocks, Progress, Covers, TypeOK
<1>11. ASSUME NEW p \in Creators, Enqueue(p) PROVE Progress'
  BY <1>11, <1>a DEF Enqueue, Goto, Answer, Progress, Covers, TypeOK
<1>12. ASSUME NEW p \in Creators, DeadlockVictim(p) PROVE Progress'
  <2>1. pc[p] # "start"
    <3>1. PICK q \in Procs : WaitsFor(p, q)
      BY <1>12 DEF DeadlockVictim, OnCycle
    <3>2. Awaited(p) # {}
      BY <3>1 DEF WaitsFor
    <3>3. QED
      BY <3>2 DEF Awaited
  <2>2. /\ pc' = [pc EXCEPT ![p] = "done"] /\ req' = req /\ status' = status
        /\ cand' = [cand EXCEPT ![p] = {}]
    BY <1>12 DEF DeadlockVictim, Rollback
  <2>3. QED
    BY <2>1, <2>2, <1>a DEF Progress, TypeOK, Covers
<1>13. ASSUME NEW p \in Creators, EnqueueFails(p) PROVE Progress'
  BY <1>13, <1>a DEF EnqueueFails, Goto, Answer, Progress, Covers, TypeOK
<1>14. ASSUME NEW p \in Creators, Fail(p) PROVE Progress'
  BY <1>14, <1>a DEF Fail, Rollback, ReleaseLocks, Answer, Progress, Covers, TypeOK
<1>15. ASSUME NEW p \in Creators, CloseBooking(p) PROVE Progress'
  BY <1>15, <1>a DEF CloseBooking, Progress, Covers, TypeOK
<1>16. ASSUME NEW e \in Editors, EditBegin(e) PROVE Progress'
  BY <1>16, <1>a DEF EditBegin, Goto, Progress, Covers, TypeOK
<1>17. ASSUME NEW e \in Editors, EditInsert(e) PROVE Progress'
  BY <1>17, <1>a DEF EditInsert, Progress, Covers, TypeOK
<1>18. ASSUME NEW e \in Editors, EditDelete(e) PROVE Progress'
  BY <1>18, <1>a DEF EditDelete, Take, IsFirst, Free, Progress, Covers, TypeOK
<1>19. ASSUME NEW e \in Editors, EditEnd(e) PROVE Progress'
  BY <1>19, <1>a DEF EditEnd, Goto, Progress, Covers, TypeOK
<1>20. ASSUME NEW e \in Editors, EditCommit(e) PROVE Progress'
  BY <1>20, <1>a DEF EditCommit, Goto, Free, ReleaseLocks, Progress, Covers, TypeOK
<1>21. ASSUME NEW e \in Editors, EditDeadlockVictim(e) PROVE Progress'
  BY <1>21, <1>a DEF EditDeadlockVictim, EditFail, ReleaseLocks, Progress, Covers,
       TypeOK
<1>22. ASSUME NEW e \in Editors, EditFail(e) PROVE Progress'
  BY <1>22, <1>a DEF EditFail, ReleaseLocks, Progress, Covers, TypeOK
<1>23. ASSUME NEW s \in Slots, DeleteAvailability(s) PROVE Progress'
  BY <1>23, <1>a DEF DeleteAvailability, Free, Progress, Covers, TypeOK
<1>24. ASSUME UNCHANGED vars PROVE Progress'
  BY <1>24, <1>a DEF vars, Progress, Covers
<1> QED
  BY <1>1, <1>2, <1>3, <1>4, <1>5, <1>6, <1>7, <1>8, <1>9, <1>10, <1>11, <1>12, <1>13,
     <1>14, <1>15, <1>16, <1>17, <1>18, <1>19, <1>20, <1>21, <1>22, <1>23, <1>24 DEF
     Next, Work, EditWork

\* Only the holder of the resource lock runs inside the transaction.
LEMMA HoldsResourceStep == ASSUME IInv, [Next]_vars PROVE HoldsResource'
<1> USE BookingAssumption DEF Procs, Rows, Intervals, CreatorPc, InTransaction, InEdit, Edits
<1>a. HoldsResource /\ TypeOK /\ Progress
  BY DEF IInv
<1>1. ASSUME NEW p \in Creators, Begin(p) PROVE HoldsResource'
  BY <1>1, <1>a DEF Begin, Answer, HoldsResource, TypeOK, Progress
<1>2. ASSUME NEW p \in Creators, LockResource(p) PROVE HoldsResource'
  BY <1>2, <1>a DEF LockResource, Goto, Take, Free, HoldsResource, TypeOK, Progress
<1>3. ASSUME NEW p \in Creators, LockTenant(p) PROVE HoldsResource'
  BY <1>3, <1>a DEF LockTenant, Goto, Take, Free, HoldsResource, TypeOK, Progress
<1>4. ASSUME NEW p \in Creators, Scan(p) PROVE HoldsResource'
  BY <1>4, <1>a DEF Scan, Goto, Covering, Covers, HoldsResource, TypeOK, Progress
<1>5. ASSUME NEW p \in Creators, LockSlot(p) PROVE HoldsResource'
  BY <1>5, <1>a DEF LockSlot, Goto, Take, IsFirst, Free, HoldsResource, TypeOK, Progress
<1>6. ASSUME NEW p \in Creators, PassDeletedSlot(p) PROVE HoldsResource'
  BY <1>6, <1>a DEF PassDeletedSlot, IsFirst, HoldsResource, TypeOK, Progress
<1>7. ASSUME NEW p \in Creators, RefuseOutside(p) PROVE HoldsResource'
  BY <1>7, <1>a DEF RefuseOutside, Rollback, ReleaseLocks, Answer, HoldsResource,
       TypeOK, Progress
<1>8. ASSUME NEW p \in Creators, RefuseConflict(p) PROVE HoldsResource'
  BY <1>8, <1>a DEF RefuseConflict, Rollback, Conflicting, ReleaseLocks, Answer,
       HoldsResource, TypeOK, Progress
<1>9. ASSUME NEW p \in Creators, PassConflictCheck(p) PROVE HoldsResource'
  BY <1>9, <1>a DEF PassConflictCheck, Goto, Conflicting, HoldsResource, TypeOK,
       Progress
<1>10. ASSUME NEW p \in Creators, Commit(p) PROVE HoldsResource'
  BY <1>10, <1>a DEF Commit, Goto, ReleaseLocks, HoldsResource, TypeOK, Progress
<1>11. ASSUME NEW p \in Creators, Enqueue(p) PROVE HoldsResource'
  BY <1>11, <1>a DEF Enqueue, Goto, Answer, HoldsResource, TypeOK, Progress
<1>12. ASSUME NEW p \in Creators, DeadlockVictim(p) PROVE HoldsResource'
  BY <1>12, <1>a DEF DeadlockVictim, Rollback, ReleaseLocks, Answer, HoldsResource,
       TypeOK, Progress
<1>13. ASSUME NEW p \in Creators, EnqueueFails(p) PROVE HoldsResource'
  BY <1>13, <1>a DEF EnqueueFails, Goto, Answer, HoldsResource, TypeOK, Progress
<1>14. ASSUME NEW p \in Creators, Fail(p) PROVE HoldsResource'
  BY <1>14, <1>a DEF Fail, Rollback, ReleaseLocks, Answer, HoldsResource, TypeOK,
       Progress
<1>15. ASSUME NEW p \in Creators, CloseBooking(p) PROVE HoldsResource'
  BY <1>15, <1>a DEF CloseBooking, HoldsResource, TypeOK, Progress
<1>16. ASSUME NEW e \in Editors, EditBegin(e) PROVE HoldsResource'
  BY <1>16, <1>a DEF EditBegin, Goto, HoldsResource, TypeOK, Progress
<1>17. ASSUME NEW e \in Editors, EditInsert(e) PROVE HoldsResource'
  BY <1>17, <1>a DEF EditInsert, HoldsResource, TypeOK, Progress
<1>18. ASSUME NEW e \in Editors, EditDelete(e) PROVE HoldsResource'
  BY <1>18, <1>a DEF EditDelete, Take, IsFirst, Free, HoldsResource, TypeOK, Progress
<1>19. ASSUME NEW e \in Editors, EditEnd(e) PROVE HoldsResource'
  BY <1>19, <1>a DEF EditEnd, Goto, HoldsResource, TypeOK, Progress
<1>20. ASSUME NEW e \in Editors, EditCommit(e) PROVE HoldsResource'
  BY <1>20, <1>a DEF EditCommit, Goto, Free, ReleaseLocks, HoldsResource, TypeOK,
       Progress
<1>21. ASSUME NEW e \in Editors, EditDeadlockVictim(e) PROVE HoldsResource'
  BY <1>21, <1>a DEF EditDeadlockVictim, EditFail, ReleaseLocks, HoldsResource, TypeOK,
       Progress
<1>22. ASSUME NEW e \in Editors, EditFail(e) PROVE HoldsResource'
  BY <1>22, <1>a DEF EditFail, ReleaseLocks, HoldsResource, TypeOK, Progress
<1>23. ASSUME NEW s \in Slots, DeleteAvailability(s) PROVE HoldsResource'
  BY <1>23, <1>a DEF DeleteAvailability, Free, HoldsResource, TypeOK, Progress
<1>24. ASSUME UNCHANGED vars PROVE HoldsResource'
  BY <1>24, <1>a DEF vars, HoldsResource
<1> QED
  BY <1>1, <1>2, <1>3, <1>4, <1>5, <1>6, <1>7, <1>8, <1>9, <1>10, <1>11, <1>12, <1>13,
     <1>14, <1>15, <1>16, <1>17, <1>18, <1>19, <1>20, <1>21, <1>22, <1>23, <1>24 DEF
     Next, Work, EditWork

\* The rows still to try contain every live row that covers the request.
LEMMA SeesEverySlotStep == ASSUME IInv, [Next]_vars PROVE SeesEverySlot'
<1> USE BookingAssumption DEF Procs, Rows, Intervals, CreatorPc, InTransaction, InEdit, Edits
<1>a. SeesEverySlot /\ TypeOK /\ Progress /\ HoldsResource /\ EditIsOwn
  BY DEF IInv
<1>1. ASSUME NEW p \in Creators, Begin(p) PROVE SeesEverySlot'
  BY <1>1, <1>a DEF Begin, Answer, SeesEverySlot, Covering, Covers, TypeOK, Progress,
       HoldsResource, EditIsOwn
<1>2. ASSUME NEW p \in Creators, LockResource(p) PROVE SeesEverySlot'
  BY <1>2, <1>a DEF LockResource, Goto, Take, Free, SeesEverySlot, Covering, Covers,
       TypeOK, Progress, HoldsResource, EditIsOwn
<1>3. ASSUME NEW p \in Creators, LockTenant(p) PROVE SeesEverySlot'
  BY <1>3, <1>a DEF LockTenant, Goto, Take, Free, SeesEverySlot, Covering, Covers,
       TypeOK, Progress, HoldsResource, EditIsOwn
<1>4. ASSUME NEW p \in Creators, Scan(p) PROVE SeesEverySlot'
  BY <1>4, <1>a DEF Scan, Goto, Covering, Covers, SeesEverySlot, TypeOK, Progress,
       HoldsResource, EditIsOwn
<1>5. ASSUME NEW p \in Creators, LockSlot(p) PROVE SeesEverySlot'
  BY <1>5, <1>a DEF LockSlot, Goto, Take, IsFirst, Free, SeesEverySlot, Covering,
       Covers, TypeOK, Progress, HoldsResource, EditIsOwn
<1>6. ASSUME NEW p \in Creators, PassDeletedSlot(p) PROVE SeesEverySlot'
  BY <1>6, <1>a DEF PassDeletedSlot, IsFirst, SeesEverySlot, Covering, Covers, TypeOK,
       Progress, HoldsResource, EditIsOwn
<1>7. ASSUME NEW p \in Creators, RefuseOutside(p) PROVE SeesEverySlot'
  BY <1>7, <1>a DEF RefuseOutside, Rollback, ReleaseLocks, Answer, SeesEverySlot,
       Covering, Covers, TypeOK, Progress, HoldsResource, EditIsOwn
<1>8. ASSUME NEW p \in Creators, RefuseConflict(p) PROVE SeesEverySlot'
  BY <1>8, <1>a DEF RefuseConflict, Rollback, Conflicting, ReleaseLocks, Answer,
       SeesEverySlot, Covering, Covers, TypeOK, Progress, HoldsResource, EditIsOwn
<1>9. ASSUME NEW p \in Creators, PassConflictCheck(p) PROVE SeesEverySlot'
  BY <1>9, <1>a DEF PassConflictCheck, Goto, Conflicting, SeesEverySlot, Covering,
       Covers, TypeOK, Progress, HoldsResource, EditIsOwn
<1>10. ASSUME NEW p \in Creators, Commit(p) PROVE SeesEverySlot'
  BY <1>10, <1>a DEF Commit, Goto, ReleaseLocks, SeesEverySlot, Covering, Covers,
       TypeOK, Progress, HoldsResource, EditIsOwn
<1>11. ASSUME NEW p \in Creators, Enqueue(p) PROVE SeesEverySlot'
  BY <1>11, <1>a DEF Enqueue, Goto, Answer, SeesEverySlot, Covering, Covers, TypeOK,
       Progress, HoldsResource, EditIsOwn
<1>12. ASSUME NEW p \in Creators, DeadlockVictim(p) PROVE SeesEverySlot'
  BY <1>12, <1>a DEF DeadlockVictim, Rollback, ReleaseLocks, Answer, SeesEverySlot,
       Covering, Covers, TypeOK, Progress, HoldsResource, EditIsOwn
<1>13. ASSUME NEW p \in Creators, EnqueueFails(p) PROVE SeesEverySlot'
  BY <1>13, <1>a DEF EnqueueFails, Goto, Answer, SeesEverySlot, Covering, Covers,
       TypeOK, Progress, HoldsResource, EditIsOwn
<1>14. ASSUME NEW p \in Creators, Fail(p) PROVE SeesEverySlot'
  BY <1>14, <1>a DEF Fail, Rollback, ReleaseLocks, Answer, SeesEverySlot, Covering,
       Covers, TypeOK, Progress, HoldsResource, EditIsOwn
<1>15. ASSUME NEW p \in Creators, CloseBooking(p) PROVE SeesEverySlot'
  BY <1>15, <1>a DEF CloseBooking, SeesEverySlot, Covering, Covers, TypeOK, Progress,
       HoldsResource, EditIsOwn
<1>16. ASSUME NEW e \in Editors, EditBegin(e) PROVE SeesEverySlot'
  BY <1>16, <1>a DEF EditBegin, Goto, SeesEverySlot, Covering, Covers, TypeOK, Progress,
       HoldsResource, EditIsOwn
<1>17. ASSUME NEW e \in Editors, EditInsert(e) PROVE SeesEverySlot'
  BY <1>17, <1>a DEF EditInsert, SeesEverySlot, Covering, Covers, TypeOK, Progress,
       HoldsResource, EditIsOwn
<1>18. ASSUME NEW e \in Editors, EditDelete(e) PROVE SeesEverySlot'
  BY <1>18, <1>a DEF EditDelete, Take, IsFirst, Free, SeesEverySlot, Covering, Covers,
       TypeOK, Progress, HoldsResource, EditIsOwn
<1>19. ASSUME NEW e \in Editors, EditEnd(e) PROVE SeesEverySlot'
  BY <1>19, <1>a DEF EditEnd, Goto, SeesEverySlot, Covering, Covers, TypeOK, Progress,
       HoldsResource, EditIsOwn
<1>20. ASSUME NEW e \in Editors, EditCommit(e) PROVE SeesEverySlot'
  <2> SUFFICES ASSUME NEW p \in Creators, pc'[p] = "lockSlot", NEW s \in Covering(req[p])'
               PROVE  s \in cand'[p]
    BY DEF SeesEverySlot
  <2>1. /\ req' = req /\ cand' = cand /\ pc[p] = "lockSlot"
        /\ s \in Slots /\ Covers(s, req[p])
    BY <1>20, <1>a DEF EditCommit, Goto, TypeOK, Covering, Covers
  <2>2. slotState[s] = "live" \/ s \in edit[e].added
    BY <1>20, <2>1, <1>a DEF EditCommit, Covering, TypeOK
  <2>3. CASE slotState[s] = "live"
    BY <2>1, <2>3, <1>a DEF SeesEverySlot, Covering
  <2>4. CASE s \in edit[e].added
    <3>1. edit[e].patterns /\ edit[e].res = req[p].res
      <4>1. pc[e] \in InEdit
        BY <1>20 DEF EditCommit, Goto
      <4>2. SlotOf[s].res = edit[e].res /\ edit[e].patterns
        BY <2>4, <4>1, <1>a DEF EditIsOwn
      <4>3. QED
        BY <2>1, <4>2 DEF Covers
    <3>2. lock[req[p].res] = None
      BY <1>20, <3>1 DEF EditCommit, Free
    <3>3. lock[req[p].res] = p
      BY <2>1, <1>a DEF HoldsResource
    <3>4. QED
      BY <3>2, <3>3
  <2>5. QED
    BY <2>2, <2>3, <2>4
<1>21. ASSUME NEW e \in Editors, EditDeadlockVictim(e) PROVE SeesEverySlot'
  BY <1>21, <1>a DEF EditDeadlockVictim, EditFail, ReleaseLocks, SeesEverySlot,
       Covering, Covers, TypeOK, Progress, HoldsResource, EditIsOwn
<1>22. ASSUME NEW e \in Editors, EditFail(e) PROVE SeesEverySlot'
  BY <1>22, <1>a DEF EditFail, ReleaseLocks, SeesEverySlot, Covering, Covers, TypeOK,
       Progress, HoldsResource, EditIsOwn
<1>23. ASSUME NEW s \in Slots, DeleteAvailability(s) PROVE SeesEverySlot'
  BY <1>23, <1>a DEF DeleteAvailability, Free, SeesEverySlot, Covering, Covers, TypeOK,
       Progress, HoldsResource, EditIsOwn
<1>24. ASSUME UNCHANGED vars PROVE SeesEverySlot'
  BY <1>24, <1>a DEF vars, SeesEverySlot, Covering, Covers
<1> QED
  BY <1>1, <1>2, <1>3, <1>4, <1>5, <1>6, <1>7, <1>8, <1>9, <1>10, <1>11, <1>12, <1>13,
     <1>14, <1>15, <1>16, <1>17, <1>18, <1>19, <1>20, <1>21, <1>22, <1>23, <1>24 DEF
     Next, Work, EditWork

\* A held covering row cannot be deleted, nor regenerated away.
LEMMA HoldsCoverStep == ASSUME IInv, [Next]_vars PROVE HoldsCover'
<1> USE BookingAssumption DEF Procs, Rows, Intervals, CreatorPc, InTransaction, InEdit, Edits
<1>a. HoldsCover /\ TypeOK /\ Progress /\ EditIsOwn
  BY DEF IInv
<1>1. ASSUME NEW p \in Creators, Begin(p) PROVE HoldsCover'
  BY <1>1, <1>a DEF Begin, Answer, HoldsCover, Covering, Covers, TypeOK, Progress,
       EditIsOwn
<1>2. ASSUME NEW p \in Creators, LockResource(p) PROVE HoldsCover'
  BY <1>2, <1>a DEF LockResource, Goto, Take, Free, HoldsCover, Covering, Covers,
       TypeOK, Progress, EditIsOwn
<1>3. ASSUME NEW p \in Creators, LockTenant(p) PROVE HoldsCover'
  BY <1>3, <1>a DEF LockTenant, Goto, Take, Free, HoldsCover, Covering, Covers, TypeOK,
       Progress, EditIsOwn
<1>4. ASSUME NEW p \in Creators, Scan(p) PROVE HoldsCover'
  BY <1>4, <1>a DEF Scan, Goto, Covering, Covers, HoldsCover, TypeOK, Progress,
       EditIsOwn
<1>5. ASSUME NEW p \in Creators, LockSlot(p) PROVE HoldsCover'
  BY <1>5, <1>a DEF LockSlot, Goto, Take, IsFirst, Free, HoldsCover, Covering, Covers,
       TypeOK, Progress, EditIsOwn
<1>6. ASSUME NEW p \in Creators, PassDeletedSlot(p) PROVE HoldsCover'
  BY <1>6, <1>a DEF PassDeletedSlot, IsFirst, HoldsCover, Covering, Covers, TypeOK,
       Progress, EditIsOwn
<1>7. ASSUME NEW p \in Creators, RefuseOutside(p) PROVE HoldsCover'
  BY <1>7, <1>a DEF RefuseOutside, Rollback, ReleaseLocks, Answer, HoldsCover, Covering,
       Covers, TypeOK, Progress, EditIsOwn
<1>8. ASSUME NEW p \in Creators, RefuseConflict(p) PROVE HoldsCover'
  BY <1>8, <1>a DEF RefuseConflict, Rollback, Conflicting, ReleaseLocks, Answer,
       HoldsCover, Covering, Covers, TypeOK, Progress, EditIsOwn
<1>9. ASSUME NEW p \in Creators, PassConflictCheck(p) PROVE HoldsCover'
  BY <1>9, <1>a DEF PassConflictCheck, Goto, Conflicting, HoldsCover, Covering, Covers,
       TypeOK, Progress, EditIsOwn
<1>10. ASSUME NEW p \in Creators, Commit(p) PROVE HoldsCover'
  BY <1>10, <1>a DEF Commit, Goto, ReleaseLocks, HoldsCover, Covering, Covers, TypeOK,
       Progress, EditIsOwn
<1>11. ASSUME NEW p \in Creators, Enqueue(p) PROVE HoldsCover'
  BY <1>11, <1>a DEF Enqueue, Goto, Answer, HoldsCover, Covering, Covers, TypeOK,
       Progress, EditIsOwn
<1>12. ASSUME NEW p \in Creators, DeadlockVictim(p) PROVE HoldsCover'
  BY <1>12, <1>a DEF DeadlockVictim, Rollback, ReleaseLocks, Answer, HoldsCover,
       Covering, Covers, TypeOK, Progress, EditIsOwn
<1>13. ASSUME NEW p \in Creators, EnqueueFails(p) PROVE HoldsCover'
  BY <1>13, <1>a DEF EnqueueFails, Goto, Answer, HoldsCover, Covering, Covers, TypeOK,
       Progress, EditIsOwn
<1>14. ASSUME NEW p \in Creators, Fail(p) PROVE HoldsCover'
  BY <1>14, <1>a DEF Fail, Rollback, ReleaseLocks, Answer, HoldsCover, Covering, Covers,
       TypeOK, Progress, EditIsOwn
<1>15. ASSUME NEW p \in Creators, CloseBooking(p) PROVE HoldsCover'
  BY <1>15, <1>a DEF CloseBooking, HoldsCover, Covering, Covers, TypeOK, Progress,
       EditIsOwn
<1>16. ASSUME NEW e \in Editors, EditBegin(e) PROVE HoldsCover'
  BY <1>16, <1>a DEF EditBegin, Goto, HoldsCover, Covering, Covers, TypeOK, Progress,
       EditIsOwn
<1>17. ASSUME NEW e \in Editors, EditInsert(e) PROVE HoldsCover'
  BY <1>17, <1>a DEF EditInsert, HoldsCover, Covering, Covers, TypeOK, Progress,
       EditIsOwn
<1>18. ASSUME NEW e \in Editors, EditDelete(e) PROVE HoldsCover'
  BY <1>18, <1>a DEF EditDelete, Take, IsFirst, Free, HoldsCover, Covering, Covers,
       TypeOK, Progress, EditIsOwn
<1>19. ASSUME NEW e \in Editors, EditEnd(e) PROVE HoldsCover'
  BY <1>19, <1>a DEF EditEnd, Goto, HoldsCover, Covering, Covers, TypeOK, Progress,
       EditIsOwn
<1>20. ASSUME NEW e \in Editors, EditCommit(e) PROVE HoldsCover'
  BY <1>20, <1>a DEF EditCommit, Goto, Free, ReleaseLocks, HoldsCover, Covering, Covers,
       TypeOK, Progress, EditIsOwn
<1>21. ASSUME NEW e \in Editors, EditDeadlockVictim(e) PROVE HoldsCover'
  BY <1>21, <1>a DEF EditDeadlockVictim, EditFail, ReleaseLocks, HoldsCover, Covering,
       Covers, TypeOK, Progress, EditIsOwn
<1>22. ASSUME NEW e \in Editors, EditFail(e) PROVE HoldsCover'
  BY <1>22, <1>a DEF EditFail, ReleaseLocks, HoldsCover, Covering, Covers, TypeOK,
       Progress, EditIsOwn
<1>23. ASSUME NEW s \in Slots, DeleteAvailability(s) PROVE HoldsCover'
  BY <1>23, <1>a DEF DeleteAvailability, Free, HoldsCover, Covering, Covers, TypeOK,
       Progress, EditIsOwn
<1>24. ASSUME UNCHANGED vars PROVE HoldsCover'
  BY <1>24, <1>a DEF vars, HoldsCover, Covering, Covers
<1> QED
  BY <1>1, <1>2, <1>3, <1>4, <1>5, <1>6, <1>7, <1>8, <1>9, <1>10, <1>11, <1>12, <1>13,
     <1>14, <1>15, <1>16, <1>17, <1>18, <1>19, <1>20, <1>21, <1>22, <1>23, <1>24 DEF
     Next, Work, EditWork

\* No other creation for the resource can commit between check and commit.
LEMMA CheckStillHoldsStep == ASSUME IInv, [Next]_vars PROVE CheckStillHolds'
<1> USE BookingAssumption DEF Procs, Rows, Intervals, CreatorPc, InTransaction, InEdit, Edits
<1>a. CheckStillHolds /\ TypeOK /\ Progress /\ HoldsResource
  BY DEF IInv
<1>1. ASSUME NEW p \in Creators, Begin(p) PROVE CheckStillHolds'
  BY <1>1, <1>a DEF Begin, Answer, CheckStillHolds, Conflicting, TypeOK, Progress,
       HoldsResource
<1>2. ASSUME NEW p \in Creators, LockResource(p) PROVE CheckStillHolds'
  BY <1>2, <1>a DEF LockResource, Goto, Take, Free, CheckStillHolds, Conflicting,
       TypeOK, Progress, HoldsResource
<1>3. ASSUME NEW p \in Creators, LockTenant(p) PROVE CheckStillHolds'
  BY <1>3, <1>a DEF LockTenant, Goto, Take, Free, CheckStillHolds, Conflicting, TypeOK,
       Progress, HoldsResource
<1>4. ASSUME NEW p \in Creators, Scan(p) PROVE CheckStillHolds'
  BY <1>4, <1>a DEF Scan, Goto, Covering, Covers, CheckStillHolds, Conflicting, TypeOK,
       Progress, HoldsResource
<1>5. ASSUME NEW p \in Creators, LockSlot(p) PROVE CheckStillHolds'
  BY <1>5, <1>a DEF LockSlot, Goto, Take, IsFirst, Free, CheckStillHolds, Conflicting,
       TypeOK, Progress, HoldsResource
<1>6. ASSUME NEW p \in Creators, PassDeletedSlot(p) PROVE CheckStillHolds'
  BY <1>6, <1>a DEF PassDeletedSlot, IsFirst, CheckStillHolds, Conflicting, TypeOK,
       Progress, HoldsResource
<1>7. ASSUME NEW p \in Creators, RefuseOutside(p) PROVE CheckStillHolds'
  BY <1>7, <1>a DEF RefuseOutside, Rollback, ReleaseLocks, Answer, CheckStillHolds,
       Conflicting, TypeOK, Progress, HoldsResource
<1>8. ASSUME NEW p \in Creators, RefuseConflict(p) PROVE CheckStillHolds'
  BY <1>8, <1>a DEF RefuseConflict, Rollback, Conflicting, ReleaseLocks, Answer,
       CheckStillHolds, TypeOK, Progress, HoldsResource
<1>9. ASSUME NEW p \in Creators, PassConflictCheck(p) PROVE CheckStillHolds'
  BY <1>9, <1>a DEF PassConflictCheck, Goto, Conflicting, CheckStillHolds, TypeOK,
       Progress, HoldsResource
<1>10. ASSUME NEW p \in Creators, Commit(p) PROVE CheckStillHolds'
  BY <1>10, <1>a DEF Commit, Goto, ReleaseLocks, CheckStillHolds, Conflicting, TypeOK,
       Progress, HoldsResource
<1>11. ASSUME NEW p \in Creators, Enqueue(p) PROVE CheckStillHolds'
  BY <1>11, <1>a DEF Enqueue, Goto, Answer, CheckStillHolds, Conflicting, TypeOK,
       Progress, HoldsResource
<1>12. ASSUME NEW p \in Creators, DeadlockVictim(p) PROVE CheckStillHolds'
  BY <1>12, <1>a DEF DeadlockVictim, Rollback, ReleaseLocks, Answer, CheckStillHolds,
       Conflicting, TypeOK, Progress, HoldsResource
<1>13. ASSUME NEW p \in Creators, EnqueueFails(p) PROVE CheckStillHolds'
  BY <1>13, <1>a DEF EnqueueFails, Goto, Answer, CheckStillHolds, Conflicting, TypeOK,
       Progress, HoldsResource
<1>14. ASSUME NEW p \in Creators, Fail(p) PROVE CheckStillHolds'
  BY <1>14, <1>a DEF Fail, Rollback, ReleaseLocks, Answer, CheckStillHolds, Conflicting,
       TypeOK, Progress, HoldsResource
<1>15. ASSUME NEW p \in Creators, CloseBooking(p) PROVE CheckStillHolds'
  BY <1>15, <1>a DEF CloseBooking, CheckStillHolds, Conflicting, TypeOK, Progress,
       HoldsResource
<1>16. ASSUME NEW e \in Editors, EditBegin(e) PROVE CheckStillHolds'
  BY <1>16, <1>a DEF EditBegin, Goto, CheckStillHolds, Conflicting, TypeOK, Progress,
       HoldsResource
<1>17. ASSUME NEW e \in Editors, EditInsert(e) PROVE CheckStillHolds'
  BY <1>17, <1>a DEF EditInsert, CheckStillHolds, Conflicting, TypeOK, Progress,
       HoldsResource
<1>18. ASSUME NEW e \in Editors, EditDelete(e) PROVE CheckStillHolds'
  BY <1>18, <1>a DEF EditDelete, Take, IsFirst, Free, CheckStillHolds, Conflicting,
       TypeOK, Progress, HoldsResource
<1>19. ASSUME NEW e \in Editors, EditEnd(e) PROVE CheckStillHolds'
  BY <1>19, <1>a DEF EditEnd, Goto, CheckStillHolds, Conflicting, TypeOK, Progress,
       HoldsResource
<1>20. ASSUME NEW e \in Editors, EditCommit(e) PROVE CheckStillHolds'
  BY <1>20, <1>a DEF EditCommit, Goto, Free, ReleaseLocks, CheckStillHolds, Conflicting,
       TypeOK, Progress, HoldsResource
<1>21. ASSUME NEW e \in Editors, EditDeadlockVictim(e) PROVE CheckStillHolds'
  BY <1>21, <1>a DEF EditDeadlockVictim, EditFail, ReleaseLocks, CheckStillHolds,
       Conflicting, TypeOK, Progress, HoldsResource
<1>22. ASSUME NEW e \in Editors, EditFail(e) PROVE CheckStillHolds'
  BY <1>22, <1>a DEF EditFail, ReleaseLocks, CheckStillHolds, Conflicting, TypeOK,
       Progress, HoldsResource
<1>23. ASSUME NEW s \in Slots, DeleteAvailability(s) PROVE CheckStillHolds'
  BY <1>23, <1>a DEF DeleteAvailability, Free, CheckStillHolds, Conflicting, TypeOK,
       Progress, HoldsResource
<1>24. ASSUME UNCHANGED vars PROVE CheckStillHolds'
  BY <1>24, <1>a DEF vars, CheckStillHolds, Conflicting
<1> QED
  BY <1>1, <1>2, <1>3, <1>4, <1>5, <1>6, <1>7, <1>8, <1>9, <1>10, <1>11, <1>12, <1>13,
     <1>14, <1>15, <1>16, <1>17, <1>18, <1>19, <1>20, <1>21, <1>22, <1>23, <1>24 DEF
     Next, Work, EditWork

\* A regeneration keeps the locks of the rows it deleted.
LEMMA EditIsOwnStep == ASSUME IInv, [Next]_vars PROVE EditIsOwn'
<1> USE BookingAssumption DEF Procs, Rows, Intervals, CreatorPc, InTransaction, InEdit, Edits
<1>a. EditIsOwn /\ TypeOK /\ Progress
  BY DEF IInv
<1>1. ASSUME NEW p \in Creators, Begin(p) PROVE EditIsOwn'
  BY <1>1, <1>a DEF Begin, Answer, EditIsOwn, TypeOK, Progress
<1>2. ASSUME NEW p \in Creators, LockResource(p) PROVE EditIsOwn'
  BY <1>2, <1>a DEF LockResource, Goto, Take, Free, EditIsOwn, TypeOK, Progress
<1>3. ASSUME NEW p \in Creators, LockTenant(p) PROVE EditIsOwn'
  BY <1>3, <1>a DEF LockTenant, Goto, Take, Free, EditIsOwn, TypeOK, Progress
<1>4. ASSUME NEW p \in Creators, Scan(p) PROVE EditIsOwn'
  BY <1>4, <1>a DEF Scan, Goto, Covering, Covers, EditIsOwn, TypeOK, Progress
<1>5. ASSUME NEW p \in Creators, LockSlot(p) PROVE EditIsOwn'
  BY <1>5, <1>a DEF LockSlot, Goto, Take, IsFirst, Free, EditIsOwn, TypeOK, Progress
<1>6. ASSUME NEW p \in Creators, PassDeletedSlot(p) PROVE EditIsOwn'
  BY <1>6, <1>a DEF PassDeletedSlot, IsFirst, EditIsOwn, TypeOK, Progress
<1>7. ASSUME NEW p \in Creators, RefuseOutside(p) PROVE EditIsOwn'
  BY <1>7, <1>a DEF RefuseOutside, Rollback, ReleaseLocks, Answer, EditIsOwn, TypeOK,
       Progress
<1>8. ASSUME NEW p \in Creators, RefuseConflict(p) PROVE EditIsOwn'
  BY <1>8, <1>a DEF RefuseConflict, Rollback, Conflicting, ReleaseLocks, Answer,
       EditIsOwn, TypeOK, Progress
<1>9. ASSUME NEW p \in Creators, PassConflictCheck(p) PROVE EditIsOwn'
  BY <1>9, <1>a DEF PassConflictCheck, Goto, Conflicting, EditIsOwn, TypeOK, Progress
<1>10. ASSUME NEW p \in Creators, Commit(p) PROVE EditIsOwn'
  BY <1>10, <1>a DEF Commit, Goto, ReleaseLocks, EditIsOwn, TypeOK, Progress
<1>11. ASSUME NEW p \in Creators, Enqueue(p) PROVE EditIsOwn'
  BY <1>11, <1>a DEF Enqueue, Goto, Answer, EditIsOwn, TypeOK, Progress
<1>12. ASSUME NEW p \in Creators, DeadlockVictim(p) PROVE EditIsOwn'
  BY <1>12, <1>a DEF DeadlockVictim, Rollback, ReleaseLocks, Answer, EditIsOwn, TypeOK,
       Progress
<1>13. ASSUME NEW p \in Creators, EnqueueFails(p) PROVE EditIsOwn'
  BY <1>13, <1>a DEF EnqueueFails, Goto, Answer, EditIsOwn, TypeOK, Progress
<1>14. ASSUME NEW p \in Creators, Fail(p) PROVE EditIsOwn'
  BY <1>14, <1>a DEF Fail, Rollback, ReleaseLocks, Answer, EditIsOwn, TypeOK, Progress
<1>15. ASSUME NEW p \in Creators, CloseBooking(p) PROVE EditIsOwn'
  BY <1>15, <1>a DEF CloseBooking, EditIsOwn, TypeOK, Progress
<1>16. ASSUME NEW e \in Editors, EditBegin(e) PROVE EditIsOwn'
  BY <1>16, <1>a DEF EditBegin, Goto, EditIsOwn, TypeOK, Progress
<1>17. ASSUME NEW e \in Editors, EditInsert(e) PROVE EditIsOwn'
  <2>1. ASSUME NEW f \in Editors, pc'[f] \in InEdit
        PROVE  /\ edit'[f] \in Edits
               /\ \A s \in edit'[f].deleted : lock'[s] = f
               /\ \A s \in edit'[f].added : SlotOf[s].res = edit'[f].res /\ edit'[f].patterns
    <3>1. PICK s \in RecurringSlots :
            /\ SlotOf[s].res = edit[e].res
            /\ edit' = [edit EXCEPT ![e].added = @ \cup {s}]
      BY <1>17 DEF EditInsert
    <3>2. pc[f] \in InEdit /\ lock' = lock /\ edit[e].patterns /\ pc[e] \in InEdit
      BY <1>17, <2>1 DEF EditInsert
    <3>3. /\ edit[f] \in Edits
          /\ \A u \in edit[f].deleted : lock[u] = f
          /\ \A u \in edit[f].added : SlotOf[u].res = edit[f].res /\ edit[f].patterns
      BY <3>2, <1>a DEF EditIsOwn
    <3>4. CASE f # e
      BY <3>1, <3>2, <3>3, <3>4, <1>a DEF TypeOK
    <3>5. CASE f = e
      <4>1. edit'[e] = [edit[e] EXCEPT !.added = @ \cup {s}]
        BY <3>1, <1>a DEF TypeOK
      <4>2. QED
        BY <4>1, <3>1, <3>2, <3>3, <3>5
    <3>6. QED
      BY <3>4, <3>5
  <2>2. QED
    BY <2>1 DEF EditIsOwn
<1>18. ASSUME NEW e \in Editors, EditDelete(e) PROVE EditIsOwn'
  <2>1. ASSUME NEW f \in Editors, pc'[f] \in InEdit
        PROVE  /\ edit'[f] \in Edits
               /\ \A s \in edit'[f].deleted : lock'[s] = f
               /\ \A s \in edit'[f].added : SlotOf[s].res = edit'[f].res /\ edit'[f].patterns
    <3>1. pc' = pc /\ pc[f] \in InEdit /\ pc[e] \in InEdit
      BY <1>18, <2>1 DEF EditDelete
    <3>2. /\ edit[f] \in Edits
          /\ \A u \in edit[f].deleted : lock[u] = f
          /\ \A u \in edit[f].added : SlotOf[u].res = edit[f].res /\ edit[f].patterns
      BY <3>1, <1>a DEF EditIsOwn
    <3>3. PICK s \in cand[e] :
            IF slotState[s] = "live"
              THEN Take(e, s) /\ edit' = [edit EXCEPT ![e].deleted = @ \cup {s}]
              ELSE UNCHANGED <<lock, edit>>
      BY <1>18 DEF EditDelete
    <3>4. CASE slotState[s] # "live"
      BY <3>2, <3>3, <3>4
    <3>5. CASE slotState[s] = "live" /\ f # e
      <4>1. edit'[f] = edit[f]
        BY <3>3, <3>5, <1>a DEF TypeOK
      <4>2. \A u \in Slots : lock[u] = f => lock'[u] = f
        BY <3>3, <3>5, <1>a DEF Take, Free, TypeOK
      <4>3. QED
        BY <3>2, <4>1, <4>2
    <3>6. CASE slotState[s] = "live" /\ f = e
      <4>1. edit'[e] = [edit[e] EXCEPT !.deleted = @ \cup {s}] /\ s \in Slots
        BY <3>3, <3>6, <1>a DEF TypeOK
      <4>2. lock'[s] = e /\ \A u \in Slots : lock[u] = e => lock'[u] = e
        BY <3>3, <3>6, <4>1, <1>a DEF Take, Free, TypeOK
      <4>3. QED
        BY <3>2, <3>6, <4>1, <4>2
    <3>7. QED
      BY <3>4, <3>5, <3>6
  <2>2. QED
    BY <2>1 DEF EditIsOwn
<1>19. ASSUME NEW e \in Editors, EditEnd(e) PROVE EditIsOwn'
  <2>1. ASSUME NEW f \in Editors, pc'[f] \in InEdit
        PROVE  /\ edit'[f] \in Edits
               /\ \A s \in edit'[f].deleted : lock'[s] = f
               /\ \A s \in edit'[f].added : SlotOf[s].res = edit'[f].res /\ edit'[f].patterns
    <3>1. edit' = edit /\ lock' = lock /\ pc[f] \in InEdit
      BY <1>19, <2>1, <1>a DEF EditEnd, Goto, TypeOK
    <3>2. QED
      BY <3>1, <1>a DEF EditIsOwn
  <2>2. QED
    BY <2>1 DEF EditIsOwn
<1>20. ASSUME NEW e \in Editors, EditCommit(e) PROVE EditIsOwn'
  BY <1>20, <1>a DEF EditCommit, Goto, Free, ReleaseLocks, EditIsOwn, TypeOK, Progress
<1>21. ASSUME NEW e \in Editors, EditDeadlockVictim(e) PROVE EditIsOwn'
  BY <1>21, <1>a DEF EditDeadlockVictim, EditFail, ReleaseLocks, EditIsOwn, TypeOK,
       Progress
<1>22. ASSUME NEW e \in Editors, EditFail(e) PROVE EditIsOwn'
  BY <1>22, <1>a DEF EditFail, ReleaseLocks, EditIsOwn, TypeOK, Progress
<1>23. ASSUME NEW s \in Slots, DeleteAvailability(s) PROVE EditIsOwn'
  BY <1>23, <1>a DEF DeleteAvailability, Free, EditIsOwn, TypeOK, Progress
<1>24. ASSUME UNCHANGED vars PROVE EditIsOwn'
  BY <1>24, <1>a DEF vars, EditIsOwn
<1> QED
  BY <1>1, <1>2, <1>3, <1>4, <1>5, <1>6, <1>7, <1>8, <1>9, <1>10, <1>11, <1>12, <1>13,
     <1>14, <1>15, <1>16, <1>17, <1>18, <1>19, <1>20, <1>21, <1>22, <1>23, <1>24 DEF
     Next, Work, EditWork

\* Confirmed bookings stay the buffer apart: only Commit confirms one.
LEMMA NoDoubleBookingStep == ASSUME IInv, [Next]_vars PROVE NoDoubleBooking'
<1> USE BookingAssumption DEF Procs, Rows, Intervals, CreatorPc, InTransaction, InEdit, Edits
<1>a. NoDoubleBooking /\ TypeOK /\ Progress /\ CheckStillHolds
  BY DEF IInv
<1>1. ASSUME NEW p \in Creators, Begin(p) PROVE NoDoubleBooking'
  BY <1>1, <1>a DEF Begin, Answer, NoDoubleBooking, Conflicting, TypeOK, Progress,
       CheckStillHolds
<1>2. ASSUME NEW p \in Creators, LockResource(p) PROVE NoDoubleBooking'
  BY <1>2, <1>a DEF LockResource, Goto, Take, Free, NoDoubleBooking, Conflicting,
       TypeOK, Progress, CheckStillHolds
<1>3. ASSUME NEW p \in Creators, LockTenant(p) PROVE NoDoubleBooking'
  BY <1>3, <1>a DEF LockTenant, Goto, Take, Free, NoDoubleBooking, Conflicting, TypeOK,
       Progress, CheckStillHolds
<1>4. ASSUME NEW p \in Creators, Scan(p) PROVE NoDoubleBooking'
  BY <1>4, <1>a DEF Scan, Goto, Covering, Covers, NoDoubleBooking, Conflicting, TypeOK,
       Progress, CheckStillHolds
<1>5. ASSUME NEW p \in Creators, LockSlot(p) PROVE NoDoubleBooking'
  BY <1>5, <1>a DEF LockSlot, Goto, Take, IsFirst, Free, NoDoubleBooking, Conflicting,
       TypeOK, Progress, CheckStillHolds
<1>6. ASSUME NEW p \in Creators, PassDeletedSlot(p) PROVE NoDoubleBooking'
  BY <1>6, <1>a DEF PassDeletedSlot, IsFirst, NoDoubleBooking, Conflicting, TypeOK,
       Progress, CheckStillHolds
<1>7. ASSUME NEW p \in Creators, RefuseOutside(p) PROVE NoDoubleBooking'
  BY <1>7, <1>a DEF RefuseOutside, Rollback, ReleaseLocks, Answer, NoDoubleBooking,
       Conflicting, TypeOK, Progress, CheckStillHolds
<1>8. ASSUME NEW p \in Creators, RefuseConflict(p) PROVE NoDoubleBooking'
  BY <1>8, <1>a DEF RefuseConflict, Rollback, Conflicting, ReleaseLocks, Answer,
       NoDoubleBooking, TypeOK, Progress, CheckStillHolds
<1>9. ASSUME NEW p \in Creators, PassConflictCheck(p) PROVE NoDoubleBooking'
  BY <1>9, <1>a DEF PassConflictCheck, Goto, Conflicting, NoDoubleBooking, TypeOK,
       Progress, CheckStillHolds
<1>10. ASSUME NEW p \in Creators, Commit(p) PROVE NoDoubleBooking'
  <2>1. \A q \in Creators : q # p /\ status[q] = "CONFIRMED" /\ req[q].res = req[p].res
          => ~Closer(req[q], req[p], Buffer)
    BY <1>10, <1>a DEF Commit, Goto, CheckStillHolds, Conflicting
  <2>2. req[p] \in Intervals /\ \A q \in Creators : status[q] = "CONFIRMED" => req[q] \in Intervals
    BY <1>10, <1>a DEF Commit, Goto, Progress
  <2>3. \A q \in Creators : q # p /\ status[q] = "CONFIRMED" /\ req[q].res = req[p].res
          => ~Closer(req[p], req[q], Buffer)
    BY <2>1, <2>2, CloserSymmetric
  <2>4. /\ req' = req
        /\ \A q \in Creators : q # p => status'[q] = status[q]
    BY <1>10, <1>a DEF Commit, TypeOK
  <2>5. QED
    BY <2>1, <2>3, <2>4, <1>a DEF NoDoubleBooking
<1>11. ASSUME NEW p \in Creators, Enqueue(p) PROVE NoDoubleBooking'
  BY <1>11, <1>a DEF Enqueue, Goto, Answer, NoDoubleBooking, Conflicting, TypeOK,
       Progress, CheckStillHolds
<1>12. ASSUME NEW p \in Creators, DeadlockVictim(p) PROVE NoDoubleBooking'
  BY <1>12, <1>a DEF DeadlockVictim, Rollback, ReleaseLocks, Answer, NoDoubleBooking,
       Conflicting, TypeOK, Progress, CheckStillHolds
<1>13. ASSUME NEW p \in Creators, EnqueueFails(p) PROVE NoDoubleBooking'
  BY <1>13, <1>a DEF EnqueueFails, Goto, Answer, NoDoubleBooking, Conflicting, TypeOK,
       Progress, CheckStillHolds
<1>14. ASSUME NEW p \in Creators, Fail(p) PROVE NoDoubleBooking'
  BY <1>14, <1>a DEF Fail, Rollback, ReleaseLocks, Answer, NoDoubleBooking, Conflicting,
       TypeOK, Progress, CheckStillHolds
<1>15. ASSUME NEW p \in Creators, CloseBooking(p) PROVE NoDoubleBooking'
  BY <1>15, <1>a DEF CloseBooking, NoDoubleBooking, Conflicting, TypeOK, Progress,
       CheckStillHolds
<1>16. ASSUME NEW e \in Editors, EditBegin(e) PROVE NoDoubleBooking'
  BY <1>16, <1>a DEF EditBegin, Goto, NoDoubleBooking, Conflicting, TypeOK, Progress,
       CheckStillHolds
<1>17. ASSUME NEW e \in Editors, EditInsert(e) PROVE NoDoubleBooking'
  BY <1>17, <1>a DEF EditInsert, NoDoubleBooking, Conflicting, TypeOK, Progress,
       CheckStillHolds
<1>18. ASSUME NEW e \in Editors, EditDelete(e) PROVE NoDoubleBooking'
  BY <1>18, <1>a DEF EditDelete, Take, IsFirst, Free, NoDoubleBooking, Conflicting,
       TypeOK, Progress, CheckStillHolds
<1>19. ASSUME NEW e \in Editors, EditEnd(e) PROVE NoDoubleBooking'
  BY <1>19, <1>a DEF EditEnd, Goto, NoDoubleBooking, Conflicting, TypeOK, Progress,
       CheckStillHolds
<1>20. ASSUME NEW e \in Editors, EditCommit(e) PROVE NoDoubleBooking'
  BY <1>20, <1>a DEF EditCommit, Goto, Free, ReleaseLocks, NoDoubleBooking, Conflicting,
       TypeOK, Progress, CheckStillHolds
<1>21. ASSUME NEW e \in Editors, EditDeadlockVictim(e) PROVE NoDoubleBooking'
  BY <1>21, <1>a DEF EditDeadlockVictim, EditFail, ReleaseLocks, NoDoubleBooking,
       Conflicting, TypeOK, Progress, CheckStillHolds
<1>22. ASSUME NEW e \in Editors, EditFail(e) PROVE NoDoubleBooking'
  BY <1>22, <1>a DEF EditFail, ReleaseLocks, NoDoubleBooking, Conflicting, TypeOK,
       Progress, CheckStillHolds
<1>23. ASSUME NEW s \in Slots, DeleteAvailability(s) PROVE NoDoubleBooking'
  BY <1>23, <1>a DEF DeleteAvailability, Free, NoDoubleBooking, Conflicting, TypeOK,
       Progress, CheckStillHolds
<1>24. ASSUME UNCHANGED vars PROVE NoDoubleBooking'
  BY <1>24, <1>a DEF vars, NoDoubleBooking, Conflicting
<1> QED
  BY <1>1, <1>2, <1>3, <1>4, <1>5, <1>6, <1>7, <1>8, <1>9, <1>10, <1>11, <1>12, <1>13,
     <1>14, <1>15, <1>16, <1>17, <1>18, <1>19, <1>20, <1>21, <1>22, <1>23, <1>24 DEF
     Next, Work, EditWork

\* Only a creation that has committed enqueues its task.
LEMMA EnqueuedAfterCommitStep == ASSUME IInv, [Next]_vars PROVE EnqueuedAfterCommit'
<1> USE BookingAssumption DEF Procs, Rows, Intervals, CreatorPc, InTransaction, InEdit, Edits
<1>a. EnqueuedAfterCommit /\ TypeOK /\ Progress
  BY DEF IInv
<1>1. ASSUME NEW p \in Creators, Begin(p) PROVE EnqueuedAfterCommit'
  BY <1>1, <1>a DEF Begin, Answer, EnqueuedAfterCommit, TypeOK, Progress
<1>2. ASSUME NEW p \in Creators, LockResource(p) PROVE EnqueuedAfterCommit'
  BY <1>2, <1>a DEF LockResource, Goto, Take, Free, EnqueuedAfterCommit, TypeOK,
       Progress
<1>3. ASSUME NEW p \in Creators, LockTenant(p) PROVE EnqueuedAfterCommit'
  BY <1>3, <1>a DEF LockTenant, Goto, Take, Free, EnqueuedAfterCommit, TypeOK, Progress
<1>4. ASSUME NEW p \in Creators, Scan(p) PROVE EnqueuedAfterCommit'
  BY <1>4, <1>a DEF Scan, Goto, Covering, Covers, EnqueuedAfterCommit, TypeOK, Progress
<1>5. ASSUME NEW p \in Creators, LockSlot(p) PROVE EnqueuedAfterCommit'
  BY <1>5, <1>a DEF LockSlot, Goto, Take, IsFirst, Free, EnqueuedAfterCommit, TypeOK,
       Progress
<1>6. ASSUME NEW p \in Creators, PassDeletedSlot(p) PROVE EnqueuedAfterCommit'
  BY <1>6, <1>a DEF PassDeletedSlot, IsFirst, EnqueuedAfterCommit, TypeOK, Progress
<1>7. ASSUME NEW p \in Creators, RefuseOutside(p) PROVE EnqueuedAfterCommit'
  BY <1>7, <1>a DEF RefuseOutside, Rollback, ReleaseLocks, Answer, EnqueuedAfterCommit,
       TypeOK, Progress
<1>8. ASSUME NEW p \in Creators, RefuseConflict(p) PROVE EnqueuedAfterCommit'
  BY <1>8, <1>a DEF RefuseConflict, Rollback, Conflicting, ReleaseLocks, Answer,
       EnqueuedAfterCommit, TypeOK, Progress
<1>9. ASSUME NEW p \in Creators, PassConflictCheck(p) PROVE EnqueuedAfterCommit'
  BY <1>9, <1>a DEF PassConflictCheck, Goto, Conflicting, EnqueuedAfterCommit, TypeOK,
       Progress
<1>10. ASSUME NEW p \in Creators, Commit(p) PROVE EnqueuedAfterCommit'
  BY <1>10, <1>a DEF Commit, Goto, ReleaseLocks, EnqueuedAfterCommit, TypeOK, Progress
<1>11. ASSUME NEW p \in Creators, Enqueue(p) PROVE EnqueuedAfterCommit'
  BY <1>11, <1>a DEF Enqueue, Goto, Answer, EnqueuedAfterCommit, TypeOK, Progress
<1>12. ASSUME NEW p \in Creators, DeadlockVictim(p) PROVE EnqueuedAfterCommit'
  BY <1>12, <1>a DEF DeadlockVictim, Rollback, ReleaseLocks, Answer,
       EnqueuedAfterCommit, TypeOK, Progress
<1>13. ASSUME NEW p \in Creators, EnqueueFails(p) PROVE EnqueuedAfterCommit'
  BY <1>13, <1>a DEF EnqueueFails, Goto, Answer, EnqueuedAfterCommit, TypeOK, Progress
<1>14. ASSUME NEW p \in Creators, Fail(p) PROVE EnqueuedAfterCommit'
  BY <1>14, <1>a DEF Fail, Rollback, ReleaseLocks, Answer, EnqueuedAfterCommit, TypeOK,
       Progress
<1>15. ASSUME NEW p \in Creators, CloseBooking(p) PROVE EnqueuedAfterCommit'
  BY <1>15, <1>a DEF CloseBooking, EnqueuedAfterCommit, TypeOK, Progress
<1>16. ASSUME NEW e \in Editors, EditBegin(e) PROVE EnqueuedAfterCommit'
  BY <1>16, <1>a DEF EditBegin, Goto, EnqueuedAfterCommit, TypeOK, Progress
<1>17. ASSUME NEW e \in Editors, EditInsert(e) PROVE EnqueuedAfterCommit'
  BY <1>17, <1>a DEF EditInsert, EnqueuedAfterCommit, TypeOK, Progress
<1>18. ASSUME NEW e \in Editors, EditDelete(e) PROVE EnqueuedAfterCommit'
  BY <1>18, <1>a DEF EditDelete, Take, IsFirst, Free, EnqueuedAfterCommit, TypeOK,
       Progress
<1>19. ASSUME NEW e \in Editors, EditEnd(e) PROVE EnqueuedAfterCommit'
  BY <1>19, <1>a DEF EditEnd, Goto, EnqueuedAfterCommit, TypeOK, Progress
<1>20. ASSUME NEW e \in Editors, EditCommit(e) PROVE EnqueuedAfterCommit'
  BY <1>20, <1>a DEF EditCommit, Goto, Free, ReleaseLocks, EnqueuedAfterCommit, TypeOK,
       Progress
<1>21. ASSUME NEW e \in Editors, EditDeadlockVictim(e) PROVE EnqueuedAfterCommit'
  BY <1>21, <1>a DEF EditDeadlockVictim, EditFail, ReleaseLocks, EnqueuedAfterCommit,
       TypeOK, Progress
<1>22. ASSUME NEW e \in Editors, EditFail(e) PROVE EnqueuedAfterCommit'
  BY <1>22, <1>a DEF EditFail, ReleaseLocks, EnqueuedAfterCommit, TypeOK, Progress
<1>23. ASSUME NEW s \in Slots, DeleteAvailability(s) PROVE EnqueuedAfterCommit'
  BY <1>23, <1>a DEF DeleteAvailability, Free, EnqueuedAfterCommit, TypeOK, Progress
<1>24. ASSUME UNCHANGED vars PROVE EnqueuedAfterCommit'
  BY <1>24, <1>a DEF vars, EnqueuedAfterCommit
<1> QED
  BY <1>1, <1>2, <1>3, <1>4, <1>5, <1>6, <1>7, <1>8, <1>9, <1>10, <1>11, <1>12, <1>13,
     <1>14, <1>15, <1>16, <1>17, <1>18, <1>19, <1>20, <1>21, <1>22, <1>23, <1>24 DEF
     Next, Work, EditWork

---------------------------------------------------------------------------
\* IInv holds of every reachable state.
THEOREM Invariance == Spec => []IInv
<1> USE BookingAssumption
<1>1. Init => IInv
  BY DEF Init, IInv, TypeOK, Progress, HoldsResource, SeesEverySlot, HoldsCover,
         CheckStillHolds, EditIsOwn, NoDoubleBooking, EnqueuedAfterCommit, Procs, Rows,
         CreatorPc, InTransaction, InEdit, Edits
<1>2. IInv /\ [Next]_vars => IInv'
  BY TypeOKStep, ProgressStep, HoldsResourceStep, SeesEverySlotStep, HoldsCoverStep,
     CheckStillHoldsStep, EditIsOwnStep, NoDoubleBookingStep, EnqueuedAfterCommitStep
     DEF IInv
<1>3. QED
  BY <1>1, <1>2, PTL DEF Spec

\* Every variable of BookingCreate keeps its type.
THEOREM TypeCorrect == Spec => []TypeOK
<1>1. IInv => TypeOK
  BY DEF IInv
<1>2. QED
  BY <1>1, Invariance, PTL

\* Whatever runs concurrently, two confirmed bookings of one resource are at
\* least the buffer apart (create_confirmed_booking_with_lock, README section 11).
THEOREM NoDoubleBookingHolds == Spec => []NoDoubleBooking
<1>1. IInv => NoDoubleBooking
  BY DEF IInv
<1>2. QED
  BY <1>1, Invariance, PTL

\* A worker always finds the booking its task names (README section 13).
THEOREM EnqueuedAfterCommitHolds == Spec => []EnqueuedAfterCommit
<1>1. IInv => EnqueuedAfterCommit
  BY DEF IInv
<1>2. QED
  BY <1>1, Invariance, PTL

\* At the instant a booking becomes visible, an availability row covers it:
\* no deletion slips in between the availability query and the commit.
THEOREM ConfirmedWhenCoveredHolds == Spec => ConfirmedWhenCovered
<1>1. IInv /\ [Next]_vars =>
        [\A p \in Creators :
           (status[p] = "none" /\ status'[p] = "CONFIRMED") => Covering(req[p]) # {}]_vars
  <2> SUFFICES ASSUME IInv, Next,
                      NEW p \in Creators, status[p] = "none", status'[p] = "CONFIRMED"
               PROVE  Covering(req[p]) # {}
    OBVIOUS
  <2>1. pc[p] = "insert"
    <3>1. PICK q \in Creators : status' = [status EXCEPT ![q] = "CONFIRMED"] /\ pc[q] = "insert"
      BY BookingAssumption DEF IInv, TypeOK, Next, Work, EditWork, Begin, LockResource, LockTenant, Scan, LockSlot,
         PassDeletedSlot, RefuseOutside, RefuseConflict, PassConflictCheck, Commit, Enqueue,
         DeadlockVictim, EnqueueFails, Fail, CloseBooking, EditBegin, EditInsert, EditDelete,
         EditEnd, EditCommit, EditDeadlockVictim, EditFail, DeleteAvailability, Goto, Rollback
    <3>2. QED
      BY <3>1 DEF IInv, TypeOK
  <2>2. QED
    BY <2>1 DEF IInv, HoldsCover
<1>2. QED
  BY <1>1, Invariance, PTL DEF Spec, ConfirmedWhenCovered

\* "Outside available slots" is true when it is answered, also when a
\* regeneration replaces the covering row at the same time.
THEOREM OutsideAnswerIsTrueHolds == Spec => OutsideAnswerIsTrue
<1>1. IInv /\ [Next]_vars =>
        [\A p \in Creators :
           (answer[p] = "none" /\ answer'[p] = "outside") => Covering(req[p]) = {}]_vars
  <2> SUFFICES ASSUME IInv, Next,
                      NEW p \in Creators, answer[p] = "none", answer'[p] = "outside"
               PROVE  Covering(req[p]) = {}
    OBVIOUS
  <2>1. pc[p] = "lockSlot" /\ cand[p] = {}
    <3>1. PICK q \in Creators :
            answer' = [answer EXCEPT ![q] = "outside"] /\ pc[q] = "lockSlot" /\ cand[q] = {}
      BY BookingAssumption DEF IInv, TypeOK, Next, Work, EditWork, Begin, LockResource, LockTenant, Scan, LockSlot,
         PassDeletedSlot, RefuseOutside, RefuseConflict, PassConflictCheck, Commit, Enqueue,
         DeadlockVictim, EnqueueFails, Fail, CloseBooking, EditBegin, EditInsert, EditDelete,
         EditEnd, EditCommit, EditDeadlockVictim, EditFail, DeleteAvailability, Rollback, Answer
    <3>2. QED
      BY <3>1 DEF IInv, TypeOK
  <2>2. QED
    BY <2>1 DEF IInv, SeesEverySlot
<1>2. QED
  BY <1>1, Invariance, PTL DEF Spec, OutsideAnswerIsTrue

---------------------------------------------------------------------------
(* Each creation is one decision taken at an instant: every step of the    *)
(* statements is a step of BookingLedger or leaves its variables alone.    *)

\* A request has no interval before it begins and no answer before it is over.
Unanswered ==
  \A p \in Creators : /\ pc[p] = "start" => req[p] = None
                      /\ pc[p] # "done" => answer[p] = "none"

\* The answer is given by the statement that ends the request.
LEMMA UnansweredStep == ASSUME IInv, Unanswered, [Next]_vars PROVE Unanswered'
<1> USE BookingAssumption DEF Procs
<1>a. Unanswered /\ TypeOK
  BY DEF IInv
<1>1. ASSUME NEW p \in Creators, Begin(p) PROVE Unanswered'
  BY <1>1, <1>a DEF Begin, Answer, Unanswered, TypeOK
<1>2. ASSUME NEW p \in Creators, LockResource(p) PROVE Unanswered'
  BY <1>2, <1>a DEF LockResource, Goto, Unanswered, TypeOK
<1>3. ASSUME NEW p \in Creators, LockTenant(p) PROVE Unanswered'
  BY <1>3, <1>a DEF LockTenant, Goto, Unanswered, TypeOK
<1>4. ASSUME NEW p \in Creators, Scan(p) PROVE Unanswered'
  BY <1>4, <1>a DEF Scan, Goto, Unanswered, TypeOK
<1>5. ASSUME NEW p \in Creators, LockSlot(p) PROVE Unanswered'
  BY <1>5, <1>a DEF LockSlot, Goto, Unanswered, TypeOK
<1>6. ASSUME NEW p \in Creators, PassDeletedSlot(p) PROVE Unanswered'
  BY <1>6, <1>a DEF PassDeletedSlot, Unanswered, TypeOK
<1>7. ASSUME NEW p \in Creators, RefuseOutside(p) PROVE Unanswered'
  BY <1>7, <1>a DEF RefuseOutside, Rollback, Answer, Unanswered, TypeOK
<1>8. ASSUME NEW p \in Creators, RefuseConflict(p) PROVE Unanswered'
  BY <1>8, <1>a DEF RefuseConflict, Rollback, Answer, Unanswered, TypeOK
<1>9. ASSUME NEW p \in Creators, PassConflictCheck(p) PROVE Unanswered'
  BY <1>9, <1>a DEF PassConflictCheck, Goto, Unanswered, TypeOK
<1>10. ASSUME NEW p \in Creators, Commit(p) PROVE Unanswered'
  BY <1>10, <1>a DEF Commit, Goto, Unanswered, TypeOK
<1>11. ASSUME NEW p \in Creators, Enqueue(p) PROVE Unanswered'
  BY <1>11, <1>a DEF Enqueue, Goto, Answer, Unanswered, TypeOK
<1>12. ASSUME NEW p \in Creators, DeadlockVictim(p) PROVE Unanswered'
  BY <1>12, <1>a DEF DeadlockVictim, Rollback, Answer, Unanswered, TypeOK
<1>13. ASSUME NEW p \in Creators, EnqueueFails(p) PROVE Unanswered'
  BY <1>13, <1>a DEF EnqueueFails, Goto, Answer, Unanswered, TypeOK
<1>14. ASSUME NEW p \in Creators, Fail(p) PROVE Unanswered'
  BY <1>14, <1>a DEF Fail, Rollback, Answer, Unanswered, TypeOK
<1>15. ASSUME NEW p \in Creators, CloseBooking(p) PROVE Unanswered'
  BY <1>15, <1>a DEF CloseBooking, Unanswered, TypeOK
<1>16. ASSUME NEW e \in Editors, EditBegin(e) PROVE Unanswered'
  BY <1>16, <1>a DEF EditBegin, Goto, Unanswered, TypeOK
<1>17. ASSUME NEW e \in Editors, EditInsert(e) PROVE Unanswered'
  BY <1>17, <1>a DEF EditInsert, Unanswered, TypeOK
<1>18. ASSUME NEW e \in Editors, EditDelete(e) PROVE Unanswered'
  BY <1>18, <1>a DEF EditDelete, Unanswered, TypeOK
<1>19. ASSUME NEW e \in Editors, EditEnd(e) PROVE Unanswered'
  BY <1>19, <1>a DEF EditEnd, Goto, Unanswered, TypeOK
<1>20. ASSUME NEW e \in Editors, EditCommit(e) PROVE Unanswered'
  BY <1>20, <1>a DEF EditCommit, Goto, Unanswered, TypeOK
<1>21. ASSUME NEW e \in Editors, EditDeadlockVictim(e) PROVE Unanswered'
  BY <1>21, <1>a DEF EditDeadlockVictim, EditFail, Unanswered, TypeOK
<1>22. ASSUME NEW e \in Editors, EditFail(e) PROVE Unanswered'
  BY <1>22, <1>a DEF EditFail, Unanswered, TypeOK
<1>23. ASSUME NEW s \in Slots, DeleteAvailability(s) PROVE Unanswered'
  BY <1>23, <1>a DEF DeleteAvailability, Unanswered, TypeOK
<1>24. ASSUME UNCHANGED vars PROVE Unanswered'
  BY <1>24, <1>a DEF vars, Unanswered, TypeOK
<1> QED
  BY <1>1, <1>2, <1>3, <1>4, <1>5, <1>6, <1>7, <1>8, <1>9, <1>10, <1>11, <1>12, <1>13,
       <1>14, <1>15, <1>16, <1>17, <1>18, <1>19, <1>20, <1>21, <1>22, <1>23, <1>24 DEF
       Next, Work, EditWork

\* A request that waits for a decision is pending in the ledger.
LEMMA PendingWhileOpen ==
  ASSUME IInv, Unanswered, NEW p \in Creators, pc[p] \in InTransaction \cup {"lockResource"}
  PROVE  Abstract!Pending(p)
<1>1. status[p] = "none" /\ answer[p] = "none"
  BY DEF IInv, Progress, Unanswered, InTransaction
<1>2. req[p] \in Requests
  BY DEF IInv, Progress, InTransaction
<1>3. QED
  BY <1>1, <1>2, BookingAssumption DEF Abstract!Pending

\* What the ledger calls a clash is a booking the conflict query returns.
LEMMA ClashIsConflict ==
  ASSUME IInv, NEW p \in Creators, NEW q \in Creators, req[p] \in Requests
  PROVE  Abstract!Clash(q, req[p]) <=> q \in Conflicting(req[p], Buffer)
<1>1. CASE status[q] = "CONFIRMED"
  <2>1. pc[q] \in {"enqueue", "done"}
    BY <1>1 DEF IInv, Progress
  <2>2. req[q] \in Intervals /\ req[p] \in Intervals
    BY <2>1, BookingAssumption DEF IInv, Progress
  <2>3. req[p].start < req[q].end + Buffer <=> req[q].end > req[p].start - Buffer
    BY <2>2, BookingAssumption DEF Intervals
  <2>4. QED
    BY <1>1, <2>3 DEF Abstract!Clash, Conflicting, Closer
<1>2. CASE status[q] # "CONFIRMED"
  BY <1>2 DEF Abstract!Clash, Conflicting
<1>3. QED
  BY <1>1, <1>2

\* Every step of a creation, a regeneration or a deletion is a step of the ledger.
LEMMA LedgerStep ==
  ASSUME IInv, Unanswered, [Next]_vars
  PROVE  [Abstract!Step]_(Abstract!ledger)
<1> DEFINE Goal == [Abstract!Step]_(Abstract!ledger)
           Open == {s \in Slots : slotState[s] = "live"}
<1> USE DEF Abstract!ledger
<1>a. Progress /\ TypeOK /\ Unanswered
  BY DEF IInv
<1>1. ASSUME NEW p \in Creators, Begin(p) PROVE Goal
  <2>1. PICK r \in Requests :
          /\ pc[p] = "start" /\ req' = [req EXCEPT ![p] = r]
          /\ IF r.end <= r.start THEN Answer(p, "invalid") ELSE UNCHANGED answer
    BY <1>1 DEF Begin
  <2>2. req[p] = None /\ slotState' = slotState /\ status' = status
    BY <1>1, <2>1, <1>a DEF Unanswered, Begin
  <2>3. r.start \in Int /\ r.end \in Int
    BY BookingAssumption DEF Intervals
  <2>4. answer' = IF r.start < r.end THEN answer ELSE [answer EXCEPT ![p] = "invalid"]
    BY <2>1, <2>3 DEF Answer
  <2>5. Abstract!Ask(p)
    BY <2>1, <2>2, <2>4 DEF Abstract!Ask
  <2>6. QED
    BY <2>5 DEF Abstract!Step
<1>2. ASSUME NEW p \in Creators, LockResource(p) PROVE Goal
  BY <1>2 DEF LockResource
<1>3. ASSUME NEW p \in Creators, LockTenant(p) PROVE Goal
  BY <1>3 DEF LockTenant
<1>4. ASSUME NEW p \in Creators, Scan(p) PROVE Goal
  BY <1>4 DEF Scan
<1>5. ASSUME NEW p \in Creators, LockSlot(p) PROVE Goal
  BY <1>5 DEF LockSlot
<1>6. ASSUME NEW p \in Creators, PassDeletedSlot(p) PROVE Goal
  BY <1>6 DEF PassDeletedSlot
<1>7. ASSUME NEW p \in Creators, PassConflictCheck(p) PROVE Goal
  BY <1>7 DEF PassConflictCheck
<1>8. ASSUME NEW p \in Creators, RefuseOutside(p) PROVE Goal
  <2>1. pc[p] = "lockSlot" /\ cand[p] = {} /\ Rollback(p, "outside")
    BY <1>8 DEF RefuseOutside
  <2>2. \A s \in Open : ~Abstract!Within(s, req[p])
    BY <2>1 DEF IInv, SeesEverySlot, Covering, Covers, Abstract!Within
  <2>3. Abstract!Pending(p)
    BY <2>1, PendingWhileOpen DEF InTransaction
  <2>4. Abstract!RefuseUnavailable(p)
    BY <2>1, <2>2, <2>3 DEF Abstract!RefuseUnavailable, Abstract!Reply, Rollback, Answer
  <2>5. QED
    BY <2>4 DEF Abstract!Step
<1>9. ASSUME NEW p \in Creators, RefuseConflict(p) PROVE Goal
  <2>1. pc[p] = "check" /\ Rollback(p, "conflict") /\ req[p] \in Requests
    BY <1>9, <1>a DEF RefuseConflict, Progress
  <2>2. PICK q \in Creators : q \in Conflicting(req[p], Buffer)
    BY <1>9 DEF RefuseConflict, Conflicting
  <2>3. Abstract!Clash(q, req[p])
    BY <2>1, <2>2, ClashIsConflict
  <2>4. Abstract!Pending(p)
    BY <2>1, PendingWhileOpen DEF InTransaction
  <2>5. Abstract!RefuseClash(p)
    BY <2>1, <2>3, <2>4 DEF Abstract!RefuseClash, Abstract!Reply, Rollback, Answer
  <2>6. QED
    BY <2>5 DEF Abstract!Step
<1>10. ASSUME NEW p \in Creators, Commit(p) PROVE Goal
  <2>1. pc[p] = "insert" /\ req[p] \in Requests
    BY <1>10, <1>a DEF Commit, Goto, Progress
  <2>2. Abstract!Pending(p)
    BY <2>1, PendingWhileOpen DEF InTransaction
  <2>3. \E s \in Open : Abstract!Within(s, req[p])
    BY <2>1 DEF IInv, HoldsCover, Covering, Covers, Abstract!Within
  <2>4. \A q \in Creators : ~Abstract!Clash(q, req[p])
    BY <2>1, ClashIsConflict DEF IInv, CheckStillHolds
  <2>5. Abstract!Reserve(p)
    BY <1>10, <2>2, <2>3, <2>4 DEF Abstract!Reserve, Commit
  <2>6. QED
    BY <2>5 DEF Abstract!Step
<1>11. ASSUME NEW p \in Creators, Enqueue(p) PROVE Goal
  <2>1. pc[p] = "enqueue" /\ status[p] # "none" /\ answer[p] = "none"
    BY <1>11, <1>a DEF Enqueue, Goto, Progress, Unanswered
  <2>2. Abstract!Acknowledge(p)
    BY <1>11, <2>1 DEF Enqueue, Answer, Abstract!Acknowledge, Abstract!Reply
  <2>3. QED
    BY <2>2 DEF Abstract!Step
<1>12. ASSUME NEW p \in Creators, EnqueueFails(p) PROVE Goal
  <2>1. pc[p] = "enqueue" /\ status[p] # "none" /\ answer[p] = "none"
    BY <1>12, <1>a DEF EnqueueFails, Goto, Progress, Unanswered
  <2>2. Abstract!Acknowledge(p)
    BY <1>12, <2>1 DEF EnqueueFails, Answer, Abstract!Acknowledge, Abstract!Reply
  <2>3. QED
    BY <2>2 DEF Abstract!Step
<1>13. ASSUME NEW p \in Creators, Fail(p) PROVE Goal
  <2>1. Abstract!Pending(p)
    BY <1>13, PendingWhileOpen DEF Fail
  <2>2. Abstract!GiveUp(p)
    BY <1>13, <2>1 DEF Fail, Rollback, Answer, Abstract!GiveUp, Abstract!Reply
  <2>3. QED
    BY <2>2 DEF Abstract!Step
<1>14. ASSUME NEW p \in Creators, DeadlockVictim(p) PROVE Goal
  <2>1. PICK q \in Procs : WaitsFor(p, q)
    BY <1>14 DEF DeadlockVictim, OnCycle
  <2>2. pc[p] \in InTransaction \cup {"lockResource"}
    <3>1. Awaited(p) # {}
      BY <2>1 DEF WaitsFor
    <3>2. pc[p] \in CreatorPc
      BY <1>a DEF Progress
    <3>3. QED
      BY <3>1, <3>2 DEF Awaited, CreatorPc, InTransaction
  <2>3. Abstract!Pending(p)
    BY <2>2, PendingWhileOpen
  <2>4. Abstract!GiveUp(p)
    BY <1>14, <2>3 DEF DeadlockVictim, Rollback, Answer, Abstract!GiveUp, Abstract!Reply
  <2>5. QED
    BY <2>4 DEF Abstract!Step
<1>15. ASSUME NEW p \in Creators, CloseBooking(p) PROVE Goal
  <2>1. Abstract!Close(p)
    BY <1>15 DEF CloseBooking, Abstract!Close
  <2>2. QED
    BY <2>1 DEF Abstract!Step
<1>16. ASSUME NEW e \in Editors, EditBegin(e) PROVE Goal
  BY <1>16 DEF EditBegin
<1>17. ASSUME NEW e \in Editors, EditInsert(e) PROVE Goal
  BY <1>17 DEF EditInsert
<1>18. ASSUME NEW e \in Editors, EditDelete(e) PROVE Goal
  BY <1>18 DEF EditDelete
<1>19. ASSUME NEW e \in Editors, EditEnd(e) PROVE Goal
  BY <1>19 DEF EditEnd
<1>20. ASSUME NEW e \in Editors, EditDeadlockVictim(e) PROVE Goal
  BY <1>20 DEF EditDeadlockVictim, EditFail
<1>21. ASSUME NEW e \in Editors, EditFail(e) PROVE Goal
  BY <1>21 DEF EditFail
<1>22. ASSUME NEW e \in Editors, EditCommit(e) PROVE Goal
  <2>1. Abstract!Reopen
    BY <1>22 DEF EditCommit, Abstract!Reopen
  <2>2. QED
    BY <2>1 DEF Abstract!Step
<1>23. ASSUME NEW s \in Slots, DeleteAvailability(s) PROVE Goal
  <2>1. Abstract!Reopen
    BY <1>23 DEF DeleteAvailability, Abstract!Reopen
  <2>2. QED
    BY <2>1 DEF Abstract!Step
<1>24. ASSUME UNCHANGED vars PROVE Goal
  BY <1>24 DEF vars
<1> QED
  BY <1>1, <1>2, <1>3, <1>4, <1>5, <1>6, <1>7, <1>8, <1>9, <1>10, <1>11, <1>12, <1>13,
       <1>14, <1>15, <1>16, <1>17, <1>18, <1>19, <1>20, <1>21, <1>22, <1>23, <1>24 DEF
       Next, Work, EditWork

\* The locks and statements of create_confirmed_booking_with_lock implement the
\* atomic decision of BookingLedger, whatever runs concurrently.
THEOREM ImplementsLedgerHolds == Spec => ImplementsLedger
<1>1. Init => Abstract!Start
  BY DEF Init, Abstract!Start
<1>2. Init => Unanswered
  BY DEF Init, Unanswered, Procs
<1>3. IInv /\ Unanswered /\ [Next]_vars => Unanswered'
  BY UnansweredStep
<1>4. IInv /\ Unanswered /\ [Next]_vars => [Abstract!Step]_(Abstract!ledger)
  BY LedgerStep
<1>5. QED
  BY <1>1, <1>2, <1>3, <1>4, Invariance, PTL DEF Spec, ImplementsLedger, Abstract!Ledger

=============================================================================
