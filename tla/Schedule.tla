------------------------------- MODULE Schedule -------------------------------
(***************************************************************************)
(* The shifts of a resource, as resources/services/schedule_service.py     *)
(* lets staff, administrators and System A edit them:                      *)
(*   - a single shift is checked by one statement and inserted by the next *)
(*     with no lock and no transaction around the two;                     *)
(*   - saving a week is one transaction, which replaces the patterns, then *)
(*     goes through the days of the range, deletes what the old week made  *)
(*     of each and adds what the new one makes of it;                      *)
(*   - a core-time store takes shifts within its opening hours only, and   *)
(*     hours as well as shifts may run past midnight;                      *)
(*   - core-time orders are bookings that nothing is checked for.          *)
(* Times are counted in units of a day's DayLen, days from 0.  A statement *)
(* is a step; READ COMMITTED shows it what is committed and what its own   *)
(* transaction did.                                                        *)
(***************************************************************************)
EXTENDS Integers, FiniteSets, Sequences

CONSTANTS
  Resources,
  Posts,       \* requests that may be made: [caller, asked, job]
  Requests,    \* requests made, one each
  OldRows,     \* availability rows that may be there at the beginning, apart from each other
  Orders,      \* core-time orders that may be saved: [res, start, end]
  Cores,       \* opening hours a store may have; Flex for FLEX_SHIFT
  DayLen, Night, Week,  \* 24 hours, 6 hours, 7 days
  Lead, Buffer,         \* 24 hours, 30 minutes
  Latest,      \* bound of the model: the last instant
  MaxOrders,   \* bound of the model: core-time orders at once
  Flex, None

TimesOfDay == [start : 0 .. DayLen - 1, end : 0 .. DayLen - 1]
WeekDays   == 0 .. Week - 1

\* What a request may ask for: one shift, or a week from one day until another.
Callers == [role : {"STAFF", "ADMIN", "CONSUMER", "CAST"}, own : Resources \cup {None}]
Singles == [kind : {"single"}, start : Int, end : Int]
Weeks   == [kind : {"week"}, from : Nat, until : Nat, week : [WeekDays -> Seq(TimesOfDay)]]

Row     == [res : Resources, start : Nat, end : Nat, weekly : BOOLEAN, by : Requests \cup {None}]
Pattern == [res : Resources, day : WeekDays, start : Nat, end : Nat, by : Requests]

Meets(a, b, gap) == a.start < b.end + gap /\ a.end > b.start - gap

ASSUME ScheduleAssumption ==
  /\ DayLen \in Nat \ {0} /\ Night \in 0 .. DayLen /\ Week \in Nat \ {0}
  /\ Lead \in Nat /\ Buffer \in Nat /\ Latest \in Nat /\ MaxOrders \in Nat
  /\ Cores \subseteq [WeekDays -> SUBSET TimesOfDay] \cup {Flex}
  /\ Resources # {} /\ None \notin Requests \cup Resources
  /\ Posts \subseteq [caller : Callers, asked : Resources \cup {None}, job : Singles \cup Weeks]
  /\ OldRows \subseteq {r \in Row : r.start < r.end /\ r.by = None}
  /\ \A a, b \in OldRows : a # b /\ a.res = b.res => ~Meets(a, b, 0)
  /\ Orders \subseteq [res : Resources, start : Nat, end : Nat]

VARIABLES
  core,      \* the store's opening hours
  now,
  rows,      \* committed Availability rows: [res, start, end, weekly, by]
  patterns,  \* committed RecurringPattern rows: [res, day, start, end, by]
  orders,    \* confirmed bookings
  post,      \* what each request asks for, on which resource, what it read
  pc,        \* next statement of each request
  work,      \* what its open transaction has done so far
  beside,    \* requests that were handled at the same time as this one
  alone      \* nobody else's change was committed since it began

vars == <<core, now, rows, patterns, orders, post, pc, work, beside, alone>>

---------------------------------------------------------------------------
Iv(s, e)        == [start |-> s, end |-> e]
Within(a, w)    == w.start <= a.start /\ a.end <= w.end
DayOf(t)        == t \div DayLen

\* Wrong on purpose: hours that end after midnight are not carried over.
WindowSameDay(d, t) == Iv(d * DayLen + t.start, d * DayLen + t.end)

\* The hours t on day d; what ends before it starts ends the day after.
Window(d, t) ==
  Iv(d * DayLen + t.start,
     (IF t.end <= t.start THEN d + 1 ELSE d) * DayLen + t.end)

\* The opening hours configured for the weekday of d.
HoursOn(hours, d) == hours[d % Week]

WithinCore(hours, a) ==
  hours # Flex =>
    \E d \in {DayOf(a.start), DayOf(a.end), DayOf(a.start) - 1} :
      \E t \in HoursOn(hours, d) : Within(a, Window(d, t))

---------------------------------------------------------------------------
(* Requests: who asks about which resource *)

\* System A's proxy names the resource of the cast signed in, whatever is asked.
Proxied(caller) == caller.own

\* STAFF edit their own resource, every other role of the dashboard any of the
\* tenant, or the first one when none is named.
Resolved(caller, asked) ==
  CASE caller.role = "STAFF" -> IF asked \in {None, caller.own} THEN caller.own ELSE None
    [] caller.role = "CAST"  -> Proxied(caller)
    [] OTHER                 -> IF asked = None THEN CHOOSE r \in Resources : TRUE ELSE asked

\* The two uses of one POST: a week in its payload, or a single shift.
Posted(kind) == {q \in Posts : q.job.kind = kind}

Open     == {p \in Requests : pc[p] \notin {"idle", "done"}}
Goto(p, s) == pc' = [pc EXCEPT ![p] = s]
Finish(p) == Goto(p, "done") /\ post' = [post EXCEPT ![p] = None]
Job(p)   == post[p].job
NoWork   == [goneRows |-> {}, newRows |-> {}, gonePatterns |-> {}, newPatterns |-> {},
             day |-> 0, slot |-> 1]

\* A change of what others read is committed.
Disturbs(p) == alone' = [q \in Requests |-> q = p \/ (alone[q] /\ q \notin Open)]
Nobody      == alone' = [q \in Requests |-> alone[q] /\ q \notin Open]

\* The request arrives: the resource, the tenant and the clock are read.
Arrive(p, res, job, first) ==
  /\ pc[p] = "idle"
  /\ res # None
  /\ post' = [post EXCEPT ![p] = [res |-> res, job |-> job, core |-> core, now |-> now]]
  /\ Goto(p, first)
  /\ beside' = [q \in Requests |-> IF q = p THEN Open ELSE IF q \in Open THEN beside[q] \cup {p} ELSE beside[q]]
  /\ UNCHANGED <<core, now, rows, patterns, orders, alone>>

---------------------------------------------------------------------------
(* create_single_availability *)

Near(res, a) == \E b \in orders : b.res = res /\ Meets(b, a, Buffer)

\* Wrong on purpose: only shifts that lie within the new one are in its way.
ConflictInside(seen, res, a) ==
  \/ \E r \in seen : r.res = res /\ Within(r, a)
  \/ Near(res, a)

Conflict(seen, res, a) ==
  \/ \E r \in seen : r.res = res /\ Meets(r, a, 0)
  \/ Near(res, a)

AskSingle(p) ==
  \E q \in Posted("single") :
    LET res == Resolved(q.caller, q.asked)
        a   == Iv(q.job.start, q.job.end) IN
      /\ a.start < a.end /\ WithinCore(core, a) /\ a.start >= now + Lead
      /\ ~Conflict(rows, res, a)
      /\ Arrive(p, res, q.job, "insert")
      /\ UNCHANGED work

InsertSingle(p) ==
  /\ pc[p] = "insert"
  /\ rows' = rows \cup {[res |-> post[p].res, start |-> Job(p).start, end |-> Job(p).end,
                         weekly |-> FALSE, by |-> p]}
  /\ Finish(p)
  /\ Disturbs(p)
  /\ UNCHANGED <<core, now, patterns, orders, work, beside>>

---------------------------------------------------------------------------
(* create_recurring_availability *)

Hours(p, d) == Job(p).week[d % Week]

AskWeek(p) ==
  \E q \in Posted("week") :
    /\ q.job.from <= q.job.until
    /\ Arrive(p, Resolved(q.caller, q.asked), q.job, "wipe")
    /\ work' = [work EXCEPT ![p] = [NoWork EXCEPT !.day = q.job.from]]

\* Wrong on purpose: the patterns of the old week stay.
WipeNothing(p) ==
  /\ pc[p] = "wipe"
  /\ Goto(p, "save")
  /\ UNCHANGED <<core, now, rows, patterns, orders, post, work, beside, alone>>

\* A DELETE waits for a transaction that has deleted one of its rows.  It works on
\* what was committed when it began: of found, it may miss what a request handled at
\* the same time has committed while it waited.
Deletes(p, found) ==
  {found \ missed : missed \in SUBSET {x \in found : ~alone[p] /\ x.by \in beside[p]}}

WipePatterns(p) ==
  LET mine == {x \in patterns : x.res = post[p].res} IN
    /\ pc[p] = "wipe"
    /\ \A q \in Open \ {p} : work[q].gonePatterns \cap mine = {}
    /\ \E gone \in Deletes(p, mine) : work' = [work EXCEPT ![p].gonePatterns = gone]
    /\ Goto(p, "save")
    /\ UNCHANGED <<core, now, rows, patterns, orders, post, beside, alone>>

Key(x) == [res |-> x.res, day |-> x.day, start |-> x.start, end |-> x.end]

Asked(p) ==
  UNION {{[res |-> post[p].res, day |-> d, start |-> Job(p).week[d][i].start,
           end |-> Job(p).week[d][i].end, by |-> p] : i \in DOMAIN Job(p).week[d]} :
           d \in WeekDays}

Repeats(p) ==
  \E d \in WeekDays : \E i, j \in DOMAIN Job(p).week[d] :
    i # j /\ Job(p).week[d][i] = Job(p).week[d][j]

\* unique_together: an INSERT waits for a transaction that inserted the same
\* key, and fails when the key is there.
Taken(p) ==
  \E x \in patterns \ work[p].gonePatterns, y \in Asked(p) : Key(x) = Key(y)

SavePatterns(p) ==
  /\ pc[p] = "save"
  /\ \A q \in Open \ {p} : \A x \in work[q].newPatterns, y \in Asked(p) : Key(x) # Key(y)
  /\ ~Taken(p) /\ ~Repeats(p)
  /\ work' = [work EXCEPT ![p].newPatterns = Asked(p)]
  /\ Goto(p, "clear")
  /\ UNCHANGED <<core, now, rows, patterns, orders, post, beside, alone>>

\* The IntegrityError ends the transaction: nothing it did remains.
SaveRepeats(p) ==
  /\ pc[p] = "save"
  /\ Taken(p) \/ Repeats(p)
  /\ Finish(p)
  /\ work' = [work EXCEPT ![p] = NoWork]
  /\ UNCHANGED <<core, now, rows, patterns, orders, beside, alone>>

\* What a statement of p sees.
Seen(p) == (rows \ work[p].goneRows) \cup work[p].newRows

\* Wrong on purpose: only the calendar day is cleared.
DayRows24(p) ==
  {r \in Seen(p) : /\ r.res = post[p].res /\ r.weekly
                   /\ r.start >= work[p].day * DayLen
                   /\ r.start < (work[p].day + 1) * DayLen}

DayRows(p) ==
  {r \in Seen(p) : /\ r.res = post[p].res /\ r.weekly
                   /\ r.start >= work[p].day * DayLen
                   /\ r.start < (work[p].day + 1) * DayLen + Night}

ClearDay(p) ==
  /\ pc[p] = "clear"
  /\ \A q \in Open \ {p} : work[q].goneRows \cap DayRows(p) = {}
  /\ \E gone \in Deletes(p, DayRows(p) \cap rows) :
       work' = [work EXCEPT ![p].goneRows = @ \cup gone,
                            ![p].newRows = @ \ DayRows(p),
                            ![p].slot = 1]
  /\ Goto(p, "add")
  /\ UNCHANGED <<core, now, rows, patterns, orders, post, beside, alone>>

\* Skipped when outside the opening hours, too soon, or in conflict.
AddSlot(p) ==
  LET a == Window(work[p].day, Hours(p, work[p].day)[work[p].slot])
      wanted == /\ WithinCore(post[p].core, a)
                /\ a.start >= post[p].now + Lead
                /\ ~Conflict(Seen(p), post[p].res, a)
      new == [res |-> post[p].res, start |-> a.start, end |-> a.end, weekly |-> TRUE, by |-> p]
  IN  /\ pc[p] = "add"
      /\ work[p].slot \in DOMAIN Hours(p, work[p].day)
      /\ work' = [work EXCEPT ![p].newRows = @ \cup {x \in {new} : wanted},
                              ![p].slot = @ + 1]
      /\ UNCHANGED <<core, now, rows, patterns, orders, post, pc, beside, alone>>

NextDay(p) ==
  /\ pc[p] = "add"
  /\ work[p].slot \notin DOMAIN Hours(p, work[p].day)
  /\ IF work[p].day < Job(p).until
       THEN Goto(p, "clear") /\ work' = [work EXCEPT ![p].day = @ + 1]
       ELSE Goto(p, "commit") /\ UNCHANGED work
  /\ UNCHANGED <<core, now, rows, patterns, orders, post, beside, alone>>

CommitWeek(p) ==
  /\ pc[p] = "commit"
  /\ rows' = Seen(p)
  /\ patterns' = (patterns \ work[p].gonePatterns) \cup work[p].newPatterns
  /\ work' = [work EXCEPT ![p] = NoWork]
  /\ Finish(p)
  /\ Disturbs(p)
  /\ UNCHANGED <<core, now, orders, beside>>

---------------------------------------------------------------------------
(* What else is written meanwhile *)

\* delete_availability; its DELETE waits for a week that is being saved.
DeleteRow(r) ==
  /\ \A q \in Open : r \notin work[q].goneRows
  /\ rows' = rows \ {r}
  /\ Nobody
  /\ UNCHANGED <<core, now, patterns, orders, post, pc, work, beside>>

\* _save_core_time_order creates an order or moves one to another time or
\* resource; no shift, no other booking and no opening hours are looked at.
SaveOrder(b) ==
  /\ core # Flex
  /\ b \notin orders
  /\ \E moved \in {{}} \cup {{x} : x \in orders} : orders' = (orders \ moved) \cup {b}
  /\ Cardinality(orders') <= MaxOrders
  /\ Nobody
  /\ UNCHANGED <<core, now, rows, patterns, post, pc, work, beside>>

DeleteOrder(b) ==
  /\ core # Flex
  /\ orders' = orders \ {b}
  /\ Nobody
  /\ UNCHANGED <<core, now, rows, patterns, post, pc, work, beside>>

\* The store's settings are saved; shifts that are there stay as they are.
SetHours(hours) ==
  /\ hours # core
  /\ core' = hours
  /\ UNCHANGED <<now, rows, patterns, orders, post, pc, work, beside, alone>>

Tick ==
  /\ now < Latest
  /\ now' = now + 1
  /\ UNCHANGED <<core, rows, patterns, orders, post, pc, work, beside, alone>>

---------------------------------------------------------------------------
Init ==
  /\ core \in Cores
  /\ now = 0
  /\ rows \in SUBSET OldRows
  /\ patterns = {}
  /\ orders = {}
  /\ post = [p \in Requests |-> None]
  /\ pc = [p \in Requests |-> "idle"]
  /\ work = [p \in Requests |-> NoWork]
  /\ beside = [p \in Requests |-> {}]
  /\ alone = [p \in Requests |-> TRUE]

Next ==
  \/ \E p \in Requests :
       \/ AskSingle(p) \/ InsertSingle(p)
       \/ AskWeek(p) \/ WipePatterns(p) \/ SavePatterns(p) \/ SaveRepeats(p)
       \/ ClearDay(p) \/ AddSlot(p) \/ NextDay(p) \/ CommitWeek(p)
  \/ \E r \in rows : DeleteRow(r)
  \/ \E b \in Orders : SaveOrder(b)
  \/ \E b \in orders : DeleteOrder(b)
  \/ \E hours \in Cores : SetHours(hours)
  \/ Tick

Spec == Init /\ [][Next]_vars

---------------------------------------------------------------------------
(* Properties *)

TypeOK ==
  /\ core \in Cores
  /\ now \in 0..Latest
  /\ rows \subseteq {r \in Row : r.start < r.end}
  /\ patterns \subseteq Pattern
  /\ orders \subseteq Orders
  /\ pc \in [Requests -> {"idle", "insert", "wipe", "save", "clear", "add", "commit", "done"}]
  /\ \A p \in Requests :
       /\ work[p].goneRows \subseteq Row /\ work[p].newRows \subseteq Row
       /\ work[p].gonePatterns \subseteq Pattern /\ work[p].newPatterns \subseteq Pattern
  /\ beside \in [Requests -> SUBSET Requests]
  /\ alone \in [Requests -> BOOLEAN]

\* Shifts of one resource overlap only when the requests that made them were
\* handled at the same time: nothing but the check before the insert keeps
\* them apart (schedule_service.py:181-195, 342).
RowsApart ==
  \A a, b \in rows :
    (a # b /\ a.res = b.res /\ Meets(a, b, 0)) =>
      a.by # None /\ b.by # None /\ b.by \in beside[a.by]

\* What a week comes to, said without its loop.
Opened(hours, a) ==
  hours # Flex => \E d \in -1 .. DayOf(a.end) : \E t \in hours[d % Week] : Within(a, Window(d, t))

Kept(p) ==
  {r \in rows : ~(/\ r.res = post[p].res /\ r.weekly
                  /\ r.start >= Job(p).from * DayLen
                  /\ r.start < (Job(p).until + 1) * DayLen + Night)}

Wanted(p) ==
  {a \in UNION {{Window(d, Hours(p, d)[i]) : i \in DOMAIN Hours(p, d)}
                  : d \in Job(p).from .. Job(p).until} :
     /\ a.start >= post[p].now + Lead
     /\ Opened(post[p].core, a)
     /\ ~Conflict(Kept(p), post[p].res, a)}

\* A shift that ends later than six in the morning can meet a shift of the old
\* week that is deleted only after it was skipped.
EndsByMorning(p) ==
  \A d \in WeekDays : \A i \in DOMAIN Job(p).week[d] :
    Window(d, Job(p).week[d][i]).end <= (d + 1) * DayLen + Night

\* A week saved undisturbed leaves what is not part of the old week as it was
\* and adds every shift the new week asks for that is open, in time and free
\* (schedule_service.py:395-437).
WeekTakesEffect ==
  [][\A p \in Requests :
       (pc[p] = "commit" /\ pc'[p] = "done" /\ alone[p] /\ EndsByMorning(p)) =>
         LET made == {Iv(r.start, r.end) : r \in rows' \ Kept(p)} IN
           /\ Kept(p) \subseteq rows'
           /\ made \subseteq Wanted(p)
           /\ \A a \in Wanted(p) \ made : \E b \in made : Meets(a, b, 0)]_vars

\* get_recurring_config: the hours the form shows for day d.
FormHours(res, d) ==
  IF \E x \in patterns : x.res = res
    THEN {Iv(x.start, x.end) : x \in {y \in patterns : y.res = res /\ y.day = d}}
    ELSE IF core = Flex THEN {} ELSE core[d]

\* The form shows a week as it was last saved; only hours of a week saved at
\* the same time can be mixed into it (schedule_service.py:381-393, 454-493).
FormShowsSaved ==
  [][\A p \in Requests :
       (pc[p] = "commit" /\ pc'[p] = "done" /\ Asked(p) # {}) =>
         \A d \in WeekDays : \E res \in {post[p].res} :
           LET wanted == {Iv(x.start, x.end) : x \in {y \in Asked(p) : y.day = d}} IN
             /\ wanted \subseteq FormHours(res, d)'
             /\ beside[p] = {} => FormHours(res, d)' = wanted]_vars

=============================================================================
