---------------------------- MODULE Schedule_proofs ----------------------------
(***************************************************************************)
(* Proofs about the shifts of a shop: what requests that add, replace and  *)
(* delete shifts at the same time leave behind, for any resources,         *)
(* requests, hours and lengths of day, night and week.                     *)
(* A lemma <name>Step says that every step keeps a conjunct of the         *)
(* inductive invariant IInv.                                               *)
(***************************************************************************)
EXTENDS Schedule, FiniteSetTheorems, TLAPS

---------------------------------------------------------------------------
(* The inductive invariant *)

Post == [res : Resources, job : Singles \cup Weeks, core : Cores, now : 0 .. Latest]
Work == [goneRows : SUBSET Row, newRows : SUBSET Row,
         gonePatterns : SUBSET Pattern, newPatterns : SUBSET Pattern, day : Nat, slot : Nat \ {0}]

Weekly(p) == pc[p] \in {"wipe", "save", "clear", "add", "commit"}

\* A request that is open has read what it is about and is in the days it asked for.
PostTyped ==
  /\ work \in [Requests -> Work]
  /\ DOMAIN post = Requests
  /\ \A p \in Open : post[p] \in Post
  /\ \A p \in Requests :
       /\ pc[p] \in {"idle", "insert"} => work[p] = NoWork
       /\ pc[p] = "insert" => Job(p) \in Singles /\ 0 <= Job(p).start /\ Job(p).start < Job(p).end
       /\ Weekly(p) => /\ Job(p) \in Weeks
                       /\ Job(p).from <= work[p].day /\ work[p].day <= Job(p).until

\* Requests that are open at once are beside each other, and nobody is beside
\* a request that has not come.
Beside ==
  /\ \A p, q \in Requests : q \in beside[p] <=> p \in beside[q]
  /\ \A p \in Requests : p \notin beside[p]
  /\ \A p, q \in Open : p # q => q \in beside[p]
  /\ \A p, q \in Requests : pc[p] = "idle" => q \notin beside[p]

\* Committed rows were made by nobody or by a request that has ended.
RowsMade == \A r \in rows : r.start < r.end /\ (r.by # None => pc[r.by] = "done")

\* What a request is about to commit.
Pending(p) ==
  IF pc[p] = "insert"
    THEN {[res |-> post[p].res, start |-> Job(p).start, end |-> Job(p).end,
           weekly |-> FALSE, by |-> p]}
    ELSE work[p].newRows

\* It is the request's own, its shifts are apart, and a committed shift in its way
\* is one it deletes or one that was made beside it.
PendingFree ==
  \A p \in Open : \A n \in Pending(p) :
    /\ n.res = post[p].res /\ n.by = p /\ n.start < n.end
    /\ \A m \in Pending(p) : m # n => ~Meets(m, n, 0)
    /\ \A r \in rows : (r.res = n.res /\ Meets(r, n, 0)) =>
         r \in work[p].goneRows \/ (r.by # None /\ r.by \in beside[p])

\* A request that saves a week deletes all patterns that were there, but for
\* those of weeks saved beside it, and adds the ones asked for.
PatternsHeld ==
  \A p \in Requests :
    /\ pc[p] \in {"clear", "add", "commit"} => work[p].newPatterns = Asked(p)
    /\ (pc[p] \in {"save", "clear", "add", "commit"} /\ beside[p] = {}) =>
         {x \in patterns : x.res = post[p].res} \subseteq work[p].gonePatterns

\* A row of the week that p replaces.
OfOldWeek(p, r) ==
  /\ r.res = post[p].res /\ r.weekly
  /\ r.start >= Job(p).from * DayLen
  /\ r.start < (Job(p).until + 1) * DayLen + Night

DaysEnd(p) == (IF pc[p] = "clear" THEN work[p].day ELSE work[p].day + 1) * DayLen

\* What is cleared is of the old week; undisturbed, it is all of it up to the
\* morning after the day reached.
Cleared ==
  \A p \in Requests :
    /\ pc[p] \in {"wipe", "save"} =>
         /\ work[p].goneRows = {} /\ work[p].newRows = {} /\ work[p].day = Job(p).from
    /\ Weekly(p) => \A r \in work[p].goneRows : OfOldWeek(p, r)
    /\ (/\ alone[p]
        /\ pc[p] \in {"add", "commit"} \/ (pc[p] = "clear" /\ work[p].day > Job(p).from)) =>
         \A r \in rows : (OfOldWeek(p, r) /\ r.start < DaysEnd(p) + Night) =>
           r \in work[p].goneRows
    /\ pc[p] = "commit" => work[p].day = Job(p).until

\* The hours of the week gone through so far.
Reached(p, d, i) ==
  /\ d \in Job(p).from .. Job(p).until /\ i \in DOMAIN Hours(p, d)
  /\ \/ d < work[p].day
     \/ d = work[p].day /\ pc[p] = "add" /\ i < work[p].slot
     \/ pc[p] = "commit"

Shift(p, d, i) == Window(d, Hours(p, d)[i])

\* A shift that the week asks for, that is open, in time and free.
Fits(p, a) ==
  /\ a.start >= post[p].now + Lead
  /\ WithinCore(post[p].core, a)
  /\ ~Conflict(Kept(p), post[p].res, a)

\* What an undisturbed week adds is of the hours reached and fits; hours that fit were
\* added or meet what was added.
Filled ==
  \A p \in Requests :
    (pc[p] \in {"clear", "add", "commit"} /\ alone[p]) =>
      /\ \A n \in work[p].newRows :
           /\ n.start < DaysEnd(p)
           /\ Fits(p, Iv(n.start, n.end))
           /\ \E d \in Nat, i \in Nat : Reached(p, d, i) /\ Iv(n.start, n.end) = Shift(p, d, i)
      /\ EndsByMorning(p) =>
           \A d \in Nat, i \in Nat : (Reached(p, d, i) /\ Fits(p, Shift(p, d, i))) =>
             \E n \in work[p].newRows : Meets(Shift(p, d, i), Iv(n.start, n.end), 0)

IInv ==
  /\ TypeOK /\ PostTyped /\ Beside /\ RowsMade /\ PendingFree /\ RowsApart
  /\ PatternsHeld /\ Cleared /\ Filled

---------------------------------------------------------------------------
(* Days and hours *)

\* A day starts when the one before has ended.
LEMMA DaysApart ==
  ASSUME NEW m \in Int, NEW n \in Int
  PROVE  /\ m * DayLen \in Int /\ (m + 1) * DayLen = m * DayLen + DayLen
         /\ m < n => m * DayLen + DayLen <= n * DayLen
         /\ m <= n => m * DayLen <= n * DayLen
<1>1. DayLen \in Nat /\ DayLen > 0
  BY ScheduleAssumption
<1>2. m * DayLen \in Int /\ n * DayLen \in Int /\ (m + 1) * DayLen = m * DayLen + DayLen
  BY <1>1
<1>3. m < n => (n - m - 1) * DayLen >= 0
  BY <1>1
<1>4. (n - m - 1) * DayLen = n * DayLen - m * DayLen - DayLen
  BY <1>1
<1>5. m < n => m * DayLen + DayLen <= n * DayLen
  BY <1>1, <1>2, <1>3, <1>4
<1> QED
  BY <1>1, <1>2, <1>5

\* An instant lies in its day.
LEMMA InItsDay ==
  ASSUME NEW t \in Int
  PROVE  DayOf(t) \in Int /\ DayOf(t) * DayLen <= t /\ t < DayOf(t) * DayLen + DayLen
BY ScheduleAssumption DEF DayOf

\* Every day has a weekday.
LEMMA OnWeekDay == ASSUME NEW d \in Int PROVE d % Week \in WeekDays
BY ScheduleAssumption DEF WeekDays

\* Hours start on their day and end on it or on the next.
LEMMA WindowBounds ==
  ASSUME NEW d \in Int, NEW t \in TimesOfDay
  PROVE  /\ Window(d, t) = Iv(Window(d, t).start, Window(d, t).end)
         /\ Window(d, t).start \in Int /\ Window(d, t).end \in Int
         /\ d * DayLen <= Window(d, t).start /\ Window(d, t).start < d * DayLen + DayLen
         /\ Window(d, t).start < Window(d, t).end
         /\ Window(d, t).end < d * DayLen + DayLen + DayLen
         /\ Window(d, t).end = d * DayLen + t.end + IF t.end <= t.start THEN DayLen ELSE 0
<1>1. /\ DayLen \in Nat /\ DayLen > 0 /\ t.start \in Int /\ t.end \in Int
      /\ 0 <= t.start /\ t.start < DayLen /\ 0 <= t.end /\ t.end < DayLen
  BY ScheduleAssumption DEF TimesOfDay
<1>2. d * DayLen \in Int /\ (d + 1) * DayLen = d * DayLen + DayLen
  BY DaysApart
<1>3. /\ Window(d, t).start = d * DayLen + t.start
      /\ Window(d, t).end = (IF t.end <= t.start THEN d + 1 ELSE d) * DayLen + t.end
      /\ Window(d, t) = Iv(Window(d, t).start, Window(d, t).end)
  BY DEF Window, Iv
<1>4. Window(d, t).end = d * DayLen + t.end + IF t.end <= t.start THEN DayLen ELSE 0
  BY <1>1, <1>2, <1>3
<1> QED
  BY <1>1, <1>2, <1>3, <1>4

\* The days whose opening hours the code looks at are all that matter.
LEMMA OpenedOrNot ==
  ASSUME NEW hours \in Cores, NEW a, a.start \in Nat, a.end \in Int, a.start < a.end
  PROVE  WithinCore(hours, a) <=> Opened(hours, a)
<1> SUFFICES ASSUME hours # Flex
             PROVE  WithinCore(hours, a) <=> Opened(hours, a)
  BY DEF WithinCore, Opened
<1>1. \A d \in Int : hours[d % Week] \subseteq TimesOfDay
  BY OnWeekDay, ScheduleAssumption
<1> DEFINE first == DayOf(a.start)
           last == DayOf(a.end)
<1>2. /\ first \in Int /\ first * DayLen <= a.start /\ a.start < first * DayLen + DayLen
      /\ last \in Int /\ last * DayLen <= a.end /\ a.end < last * DayLen + DayLen
      /\ 0 * DayLen = 0 /\ DayLen \in Nat
  BY InItsDay, ScheduleAssumption
<1> HIDE DEF first, last
<1>3. 0 <= first /\ first <= last
  <2>1. ~(first < 0)
    BY <1>2, DaysApart
  <2>2. ~(last < first)
    BY <1>2, DaysApart
  <2> QED
    BY <1>2, <2>1, <2>2
<1>4. ASSUME NEW d \in Int, NEW t \in TimesOfDay, Within(a, Window(d, t))
      PROVE  d \in {first, last, first - 1}
  <2>1. d * DayLen <= a.start /\ a.end < d * DayLen + DayLen + DayLen
    <3>1. d * DayLen \in Int /\ DayLen \in Nat
      BY DaysApart, ScheduleAssumption
    <3>2. /\ Window(d, t).start \in Int /\ Window(d, t).end \in Int
          /\ d * DayLen <= Window(d, t).start
          /\ Window(d, t).end < d * DayLen + DayLen + DayLen
      BY WindowBounds
    <3>3. Window(d, t).start <= a.start /\ a.end <= Window(d, t).end
      BY <1>4 DEF Within
    <3> QED
      BY <3>1, <3>2, <3>3
  <2>2. ~(first < d)
    BY <1>2, <2>1, DaysApart
  <2>3. ~(d + 1 < first)
    <3>1. (d + 1) * DayLen = d * DayLen + DayLen /\ d * DayLen \in Int /\ d + 1 \in Int
      BY DaysApart
    <3>2. d + 1 < first => (d + 1) * DayLen + DayLen <= first * DayLen
      BY <1>2, <3>1, DaysApart
    <3> QED
      BY <1>2, <2>1, <3>1, <3>2
  <2> QED
    BY <1>2, <2>2, <2>3
<1>5. WithinCore(hours, a) <=>
        \E d \in {first, last, first - 1} : \E t \in hours[d % Week] : Within(a, Window(d, t))
  BY DEF WithinCore, HoursOn, first, last
<1>6. Opened(hours, a) <=> \E d \in -1 .. last : \E t \in hours[d % Week] : Within(a, Window(d, t))
  BY DEF Opened, last
<1>7. \A d \in {first, last, first - 1} : d \in -1 .. last
  BY <1>2, <1>3
<1>8. -1 .. last \subseteq Int
  BY <1>2
<1> QED
  BY <1>1, <1>4, <1>5, <1>6, <1>7, <1>8

---------------------------------------------------------------------------
(* What the steps do *)

\* A request p comes and reads what it is about.
Arrives(p, res, job, first) ==
  /\ pc[p] = "idle" /\ res \in Resources
  /\ pc' = [pc EXCEPT ![p] = first]
  /\ post' = [post EXCEPT ![p] = [res |-> res, job |-> job, core |-> core, now |-> now]]
  /\ beside' = [q \in Requests |-> IF q = p THEN Open
                                   ELSE IF q \in Open THEN beside[q] \cup {p} ELSE beside[q]]
  /\ \A q \in Requests \ {p} : work'[q] = work[q]
  /\ work' \in [Requests -> Work]
  /\ UNCHANGED <<core, now, rows, patterns, orders, alone>>

ArrivesSingle(p) ==
  \E res \in Resources, job \in Singles :
    /\ Arrives(p, res, job, "insert")
    /\ 0 <= job.start /\ job.start < job.end
    /\ \A r \in rows : r.res = res => ~Meets(r, job, 0)
    /\ UNCHANGED work

ArrivesWeek(p) ==
  \E res \in Resources, job \in Weeks :
    /\ Arrives(p, res, job, "wipe")
    /\ job.from <= job.until
    /\ work'[p] = [NoWork EXCEPT !.day = job.from]

\* The transaction of p takes a step that nobody sees.
Inside(p) ==
  /\ Weekly(p) /\ Weekly(p)'
  /\ pc' = [pc EXCEPT ![p] = pc'[p]]
  /\ \A q \in Requests \ {p} : pc'[q] = pc[q] /\ work'[q] = work[q]
  /\ work' \in [Requests -> Work] /\ work[p].goneRows \subseteq work'[p].goneRows
  /\ Job(p).from <= work'[p].day /\ work'[p].day <= Job(p).until
  /\ \A n \in work'[p].newRows : n \in work[p].newRows \/
       /\ n.res = post[p].res /\ n.by = p /\ n.start < n.end
       /\ \A r \in Seen(p) : r.res = n.res => ~Meets(r, n, 0)
       /\ work'[p].newRows \subseteq work[p].newRows \cup {n}
  /\ UNCHANGED <<core, now, rows, patterns, orders, post, beside, alone>>

\* A request ends: its transaction is undone, or committed and seen by all.
Ends(p) ==
  /\ p \in Open
  /\ pc' = [pc EXCEPT ![p] = "done"] /\ post' = [post EXCEPT ![p] = None]
  /\ \A q \in Requests \ {p} : work'[q] = work[q]
  /\ work' \in [Requests -> Work]
  /\ UNCHANGED <<core, now, orders, beside>>
  /\ \/ UNCHANGED <<rows, patterns, alone>>
     \/ /\ rows' = (rows \ work[p].goneRows) \cup Pending(p)
        /\ patterns' = (patterns \ work[p].gonePatterns) \cup work[p].newPatterns
        /\ \A q \in Open \ {p} : ~alone'[q]

\* What happens to shifts, orders, hours and clock by other hands.
Aside ==
  /\ rows' \subseteq rows
  /\ UNCHANGED <<patterns, post, pc, work, beside>>
  /\ UNCHANGED <<rows, orders, alone>> \/ \A q \in Open : ~alone'[q]

\* The transaction of p executes its next statement, which nobody else sees.
Turns(p, from, to) ==
  /\ pc[p] = from /\ pc' = [pc EXCEPT ![p] = to] /\ pc'[p] = to
  /\ \A q \in Requests \ {p} : work'[q] = work[q]
  /\ work' \in [Requests -> Work]
  /\ UNCHANGED <<core, now, rows, patterns, orders, post, beside, alone>>

\* A request is about a resource of the tenant.
LEMMA ResolvedType ==
  ASSUME NEW q \in Posts, Resolved(q.caller, q.asked) # None
  PROVE  Resolved(q.caller, q.asked) \in Resources /\ q.job \in Singles \cup Weeks
<1>1. /\ q.caller \in Callers /\ q.asked \in Resources \cup {None}
      /\ q.job \in Singles \cup Weeks /\ Resources # {}
  BY ScheduleAssumption
<1>2. (CHOOSE r \in Resources : TRUE) \in Resources
  BY <1>1
<1> QED
  BY <1>1, <1>2 DEF Resolved, Proxied, Callers

\* A single shift is checked against the committed ones when it is asked for.
LEMMA AskSingleEffect ==
  ASSUME TypeOK, PostTyped, NEW p \in Requests, AskSingle(p)
  PROVE  ArrivesSingle(p)
<1>1. PICK q \in Posted("single") :
        LET res == Resolved(q.caller, q.asked)
            a   == Iv(q.job.start, q.job.end) IN
          /\ a.start < a.end /\ WithinCore(core, a) /\ a.start >= now + Lead
          /\ ~Conflict(rows, res, a)
          /\ Arrive(p, res, q.job, "insert")
          /\ UNCHANGED work
  BY DEF AskSingle
<1> DEFINE res == Resolved(q.caller, q.asked)
<1>2. res \in Resources /\ q.job \in Singles
  <2>1. res # None /\ q \in Posts /\ q.job.kind = "single"
    BY <1>1 DEF Arrive, Posted
  <2>2. res \in Resources /\ q.job \in Singles \cup Weeks
    BY <2>1, ResolvedType
  <2> QED
    BY <2>1, <2>2 DEF Singles, Weeks
<1>3. q.job.start < q.job.end /\ q.job.start >= now + Lead /\ q.job.start \in Int
  BY <1>1, <1>2 DEF Iv, Singles
<1>4. 0 <= q.job.start
  BY <1>3, ScheduleAssumption DEF TypeOK
<1>5. \A r \in rows : r.res = res => ~Meets(r, q.job, 0)
  BY <1>1 DEF Conflict, Iv, Meets
<1>6. Arrives(p, res, q.job, "insert") /\ UNCHANGED work
  BY <1>1, <1>2 DEF Arrive, Arrives, Goto, PostTyped
<1> QED
  BY <1>2, <1>3, <1>4, <1>5, <1>6 DEF ArrivesSingle

\* A week starts with nothing done.
LEMMA AskWeekEffect ==
  ASSUME TypeOK, PostTyped, NEW p \in Requests, AskWeek(p)
  PROVE  ArrivesWeek(p)
<1>1. PICK q \in Posted("week") :
        /\ q.job.from <= q.job.until
        /\ Arrive(p, Resolved(q.caller, q.asked), q.job, "wipe")
        /\ work' = [work EXCEPT ![p] = [NoWork EXCEPT !.day = q.job.from]]
  BY DEF AskWeek
<1> DEFINE res == Resolved(q.caller, q.asked)
<1>2. res \in Resources /\ q.job \in Weeks
  <2>1. res # None /\ q \in Posts /\ q.job.kind = "week"
    BY <1>1 DEF Arrive, Posted
  <2>2. res \in Resources /\ q.job \in Singles \cup Weeks
    BY <2>1, ResolvedType
  <2> QED
    BY <2>1, <2>2 DEF Singles, Weeks
<1>3. /\ work'[p] = [NoWork EXCEPT !.day = q.job.from]
      /\ work' \in [Requests -> Work] /\ \A r \in Requests \ {p} : work'[r] = work[r]
  <2>1. work \in [Requests -> Work] /\ q.job.from \in Nat
    BY <1>2 DEF PostTyped, Weeks
  <2>2. [NoWork EXCEPT !.day = q.job.from] \in Work
    BY <2>1 DEF NoWork, Work
  <2> HIDE DEF NoWork
  <2> QED
    BY <1>1, <2>1, <2>2
<1>4. Arrives(p, res, q.job, "wipe")
  BY <1>1, <1>2, <1>3 DEF Arrive, Arrives, Goto
<1> QED
  BY <1>1, <1>2, <1>3, <1>4 DEF ArrivesWeek

\* A row added for a day is of that day's hours, fits, and is free of what p sees.
LEMMA AddSlotEffect ==
  ASSUME TypeOK, PostTyped, NEW p \in Requests, AddSlot(p),
         NEW a, a = Shift(p, work[p].day, work[p].slot)
  PROVE  /\ Turns(p, "add", "add")
         /\ work[p].slot \in DOMAIN Hours(p, work[p].day)
         /\ work'[p] = [work[p] EXCEPT !.newRows = work'[p].newRows, !.slot = @ + 1]
         /\ work'[p].goneRows = work[p].goneRows /\ work'[p].day = work[p].day
         /\ work'[p].slot = work[p].slot + 1
         /\ work'[p].gonePatterns = work[p].gonePatterns
         /\ work'[p].newPatterns = work[p].newPatterns
         /\ a.start \in Nat /\ a.end \in Nat /\ a.start < a.end /\ a = Iv(a.start, a.end)
         /\ LET new == [res |-> post[p].res, start |-> a.start, end |-> a.end,
                        weekly |-> TRUE, by |-> p]
                wanted == /\ WithinCore(post[p].core, a)
                          /\ a.start >= post[p].now + Lead
                          /\ ~Conflict(Seen(p), post[p].res, a)
            IN  work'[p].newRows = work[p].newRows \cup {x \in {new} : wanted}
<1> DEFINE d == work[p].day
           i == work[p].slot
           new == [res |-> post[p].res, start |-> a.start, end |-> a.end, weekly |-> TRUE, by |-> p]
           wanted == /\ WithinCore(post[p].core, a)
                     /\ a.start >= post[p].now + Lead
                     /\ ~Conflict(Seen(p), post[p].res, a)
           more == work[p].newRows \cup {x \in {new} : wanted}
<1>1. /\ pc[p] = "add" /\ i \in DOMAIN Hours(p, d)
      /\ work' = [work EXCEPT ![p].newRows = more, ![p].slot = i + 1]
      /\ UNCHANGED <<core, now, rows, patterns, orders, post, pc, beside, alone>>
  BY DEF AddSlot, Shift
<1>2. /\ work \in [Requests -> Work] /\ work[p] \in Work /\ d \in Nat /\ i \in Nat \ {0}
      /\ post[p] \in Post /\ Job(p) \in Weeks
  BY <1>1 DEF PostTyped, Work, Weekly, Open
<1>3. /\ work'[p] = [work[p] EXCEPT !.newRows = more, !.slot = i + 1]
      /\ \A q \in Requests \ {p} : work'[q] = work[q]
  <2> HIDE DEF more, i
  <2> QED
    BY <1>1, <1>2 DEF Work
<1>4. Hours(p, d)[i] \in TimesOfDay
  <2>1. Hours(p, d) \in Seq(TimesOfDay)
    BY <1>2, OnWeekDay DEF Hours, Weeks
  <2> QED
    BY <1>1, <2>1
<1>5. a.start \in Int /\ a.end \in Int /\ d * DayLen <= a.start /\ a.start < a.end
      /\ a = Iv(a.start, a.end)
  BY <1>2, <1>4, WindowBounds DEF Shift
<1>6. a.start \in Nat /\ a.end \in Nat
  <2>1. d * DayLen \in Nat
    BY <1>2, ScheduleAssumption
  <2>2. 0 <= a.start
    <3> HIDE DEF d
    <3> QED
      BY <1>5, <2>1
  <2> QED
    BY <1>5, <2>2
<1>7. new \in Row
  BY <1>2, <1>6 DEF Row, Post
<1>8. more \in SUBSET Row
  BY <1>2, <1>7 DEF Work
<1> HIDE DEF more
<1>9. /\ work'[p].newRows = more
      /\ work'[p] = [work[p] EXCEPT !.newRows = work'[p].newRows, !.slot = @ + 1]
  BY <1>2, <1>3 DEF Work
<1>10. work'[p] \in Work
  <2>1. i + 1 \in Nat \ {0}
    BY <1>2
  <2> HIDE DEF i
  <2>2. work'[p] = [work[p] EXCEPT !.newRows = more, !.slot = i + 1]
    BY <1>3
  <2> QED
    BY <1>2, <1>8, <2>1, <2>2 DEF Work
<1>11. work' \in [Requests -> Work]
  BY <1>1, <1>2, <1>3, <1>10
<1>12. Turns(p, "add", "add")
  BY <1>1, <1>3, <1>11 DEF Turns, TypeOK
<1>13. /\ work'[p].goneRows = work[p].goneRows /\ work'[p].day = work[p].day
       /\ work'[p].slot = work[p].slot + 1
       /\ work'[p].gonePatterns = work[p].gonePatterns
       /\ work'[p].newPatterns = work[p].newPatterns
  BY <1>2, <1>3 DEF Work
<1> QED
  BY <1>1, <1>3, <1>5, <1>6, <1>9, <1>12, <1>13 DEF more

\* What a request that saves a week knows.
LEMMA WeekKnown ==
  ASSUME TypeOK, PostTyped, NEW p \in Requests, Weekly(p)
  PROVE  /\ p \in Open /\ work \in [Requests -> Work] /\ work[p] \in Work /\ post[p] \in Post
         /\ Job(p) \in Weeks /\ post[p].res \in Resources
         /\ Job(p).from \in Nat /\ Job(p).until \in Nat /\ work[p].day \in Nat
         /\ Job(p).from <= work[p].day /\ work[p].day <= Job(p).until
         /\ \A d \in Int : Hours(p, d) \in Seq(TimesOfDay)
<1>1. /\ p \in Open /\ work[p] \in Work /\ post[p] \in Post /\ Job(p) \in Weeks
      /\ Job(p).from <= work[p].day /\ work[p].day <= Job(p).until
  BY DEF PostTyped, Weekly, Open
<1>2. \A d \in Int : Hours(p, d) \in Seq(TimesOfDay)
  BY <1>1, OnWeekDay DEF Hours, Weeks
<1> QED
  BY <1>1, <1>2 DEF Post, Work, Weeks, PostTyped

\* All committed patterns of the resource are deleted, but for those of weeks saved
\* beside it.
LEMMA WipePatternsEffect ==
  ASSUME TypeOK, PostTyped, NEW p \in Requests, WipePatterns(p)
  PROVE  /\ Turns(p, "wipe", "save")
         /\ beside[p] = {} => work'[p].gonePatterns = {x \in patterns : x.res = post[p].res}
         /\ work'[p].goneRows = work[p].goneRows /\ work'[p].newRows = work[p].newRows
         /\ work'[p].day = work[p].day
<1> DEFINE mine == {x \in patterns : x.res = post[p].res}
<1>0. PICK gone \in Deletes(p, mine) : work' = [work EXCEPT ![p].gonePatterns = gone]
  BY DEF WipePatterns
<1>1. /\ pc[p] = "wipe" /\ pc' = [pc EXCEPT ![p] = "save"]
      /\ work' = [work EXCEPT ![p].gonePatterns = gone]
      /\ UNCHANGED <<core, now, rows, patterns, orders, post, beside, alone>>
  BY <1>0 DEF WipePatterns, Goto
<1>2. work \in [Requests -> Work] /\ work[p] \in Work
  BY DEF PostTyped
<1>3. gone \in SUBSET Pattern /\ (beside[p] = {} => gone = mine)
  BY DEF TypeOK, Deletes
<1> HIDE DEF mine
<1>4. work'[p] = [work[p] EXCEPT !.gonePatterns = gone]
      /\ \A q \in Requests \ {p} : work'[q] = work[q]
  BY <1>1, <1>2
<1>5. work'[p] \in Work
  BY <1>2, <1>3, <1>4 DEF Work
<1>6. work' \in [Requests -> Work]
  BY <1>1, <1>2, <1>4, <1>5
<1>7. /\ work'[p].gonePatterns = gone
      /\ work'[p].goneRows = work[p].goneRows /\ work'[p].newRows = work[p].newRows
      /\ work'[p].day = work[p].day
  BY <1>2, <1>4 DEF Work
<1> QED
  BY <1>1, <1>3, <1>4, <1>6, <1>7 DEF Turns, TypeOK, mine

\* The patterns of a week are patterns.
LEMMA AskedType ==
  ASSUME TypeOK, PostTyped, NEW p \in Requests, Weekly(p)
  PROVE  Asked(p) \subseteq Pattern /\ \A x \in Asked(p) : x.res = post[p].res
<1>1. Job(p).week \in [WeekDays -> Seq(TimesOfDay)] /\ post[p].res \in Resources
  BY WeekKnown DEF Weeks
<1>2. SUFFICES ASSUME NEW x \in Asked(p)
               PROVE  x \in Pattern /\ x.res = post[p].res
  OBVIOUS
<1>3. PICK d \in WeekDays :
        x \in {[res |-> post[p].res, day |-> d, start |-> Job(p).week[d][i].start,
                end |-> Job(p).week[d][i].end, by |-> p] : i \in DOMAIN Job(p).week[d]}
  BY <1>2 DEF Asked
<1>4. PICK i \in DOMAIN Job(p).week[d] :
        x = [res |-> post[p].res, day |-> d, start |-> Job(p).week[d][i].start,
             end |-> Job(p).week[d][i].end, by |-> p]
  BY <1>3
<1>5. Job(p).week[d] \in Seq(TimesOfDay)
  BY <1>1
<1>6. Job(p).week[d][i] \in TimesOfDay
  BY <1>4, <1>5
<1>7. Job(p).week[d][i].start \in Nat /\ Job(p).week[d][i].end \in Nat
  BY <1>6, ScheduleAssumption DEF TimesOfDay
<1> QED
  BY <1>1, <1>4, <1>7 DEF Pattern

\* The patterns asked for are inserted.
LEMMA SavePatternsEffect ==
  ASSUME TypeOK, PostTyped, NEW p \in Requests, SavePatterns(p)
  PROVE  /\ Turns(p, "save", "clear")
         /\ work'[p].newPatterns = Asked(p) /\ work'[p].gonePatterns = work[p].gonePatterns
         /\ work'[p].goneRows = work[p].goneRows /\ work'[p].newRows = work[p].newRows
         /\ work'[p].day = work[p].day
<1>1. /\ pc[p] = "save" /\ pc' = [pc EXCEPT ![p] = "clear"]
      /\ work' = [work EXCEPT ![p].newPatterns = Asked(p)]
      /\ UNCHANGED <<core, now, rows, patterns, orders, post, beside, alone>>
  BY DEF SavePatterns, Goto
<1>2. work \in [Requests -> Work] /\ work[p] \in Work
  BY DEF PostTyped
<1>3. Asked(p) \in SUBSET Pattern
  BY <1>1, AskedType DEF Weekly
<1>4. work'[p] = [work[p] EXCEPT !.newPatterns = Asked(p)]
      /\ \A q \in Requests \ {p} : work'[q] = work[q]
  BY <1>1, <1>2
<1>5. work'[p] \in Work
  BY <1>2, <1>3, <1>4 DEF Work
<1>6. work' \in [Requests -> Work]
  BY <1>1, <1>2, <1>4, <1>5
<1>7. /\ work'[p].newPatterns = Asked(p) /\ work'[p].gonePatterns = work[p].gonePatterns
      /\ work'[p].goneRows = work[p].goneRows /\ work'[p].newRows = work[p].newRows
      /\ work'[p].day = work[p].day
  BY <1>2, <1>4 DEF Work
<1> QED
  BY <1>1, <1>4, <1>6, <1>7 DEF Turns, TypeOK

\* A day loses the rows of the old week that start on it or in the night after it,
\* but for rows committed while the statement waited.
LEMMA ClearDayEffect ==
  ASSUME TypeOK, PostTyped, NEW p \in Requests, ClearDay(p)
  PROVE  /\ Turns(p, "clear", "add")
         /\ work[p].goneRows \subseteq work'[p].goneRows
         /\ work'[p].goneRows \subseteq work[p].goneRows \cup (DayRows(p) \cap rows)
         /\ alone[p] => DayRows(p) \cap rows \subseteq work'[p].goneRows
         /\ work'[p].newRows = work[p].newRows \ DayRows(p)
         /\ work'[p].slot = 1 /\ work'[p].day = work[p].day
         /\ work'[p].gonePatterns = work[p].gonePatterns
         /\ work'[p].newPatterns = work[p].newPatterns
<1> DEFINE new == work[p].newRows \ DayRows(p)
<1>0. PICK cut \in Deletes(p, DayRows(p) \cap rows) :
        work' = [work EXCEPT ![p].goneRows = @ \cup cut, ![p].newRows = new, ![p].slot = 1]
  BY DEF ClearDay
<1>8. cut \subseteq DayRows(p) \cap rows /\ (alone[p] => cut = DayRows(p) \cap rows)
  BY DEF Deletes
<1> DEFINE gone == work[p].goneRows \cup cut
<1>1. /\ pc[p] = "clear" /\ pc' = [pc EXCEPT ![p] = "add"]
      /\ work' = [work EXCEPT ![p].goneRows = gone, ![p].newRows = new, ![p].slot = 1]
      /\ UNCHANGED <<core, now, rows, patterns, orders, post, beside, alone>>
  BY <1>0 DEF ClearDay, Goto
<1>2. work \in [Requests -> Work] /\ work[p] \in Work
  BY DEF PostTyped
<1>3. gone \in SUBSET Row /\ new \in SUBSET Row
  BY <1>2, <1>8 DEF TypeOK, Work
<1> HIDE DEF gone, new
<1>4. /\ work'[p] = [work[p] EXCEPT !.goneRows = gone, !.newRows = new, !.slot = 1]
      /\ \A q \in Requests \ {p} : work'[q] = work[q]
      /\ DOMAIN work' = Requests /\ work' = [q \in Requests |-> work'[q]]
  BY <1>1, <1>2
<1>7. work'[p] = [goneRows |-> gone, newRows |-> new, gonePatterns |-> work[p].gonePatterns,
                  newPatterns |-> work[p].newPatterns, day |-> work[p].day, slot |-> 1]
  BY <1>2, <1>4 DEF Work
<1>5. /\ work'[p] \in Work /\ work'[p].goneRows = gone /\ work'[p].newRows = new
      /\ work'[p].slot = 1 /\ work'[p].day = work[p].day
      /\ work'[p].gonePatterns = work[p].gonePatterns
      /\ work'[p].newPatterns = work[p].newPatterns
  BY <1>2, <1>3, <1>7 DEF Work
<1>6. work' \in [Requests -> Work]
  BY <1>2, <1>4, <1>5
<1> QED
  BY <1>1, <1>4, <1>5, <1>6, <1>8 DEF Turns, TypeOK, gone, new

\* After the last hours of a day comes the next day, after the last day the commit.
LEMMA NextDayEffect ==
  ASSUME TypeOK, PostTyped, NEW p \in Requests, NextDay(p)
  PROVE  /\ work[p].slot \notin DOMAIN Hours(p, work[p].day)
         /\ \/ /\ Turns(p, "add", "clear") /\ work[p].day < Job(p).until
               /\ work'[p] = [work[p] EXCEPT !.day = @ + 1]
               /\ work'[p].day = work[p].day + 1
               /\ work'[p].goneRows = work[p].goneRows /\ work'[p].newRows = work[p].newRows
               /\ work'[p].gonePatterns = work[p].gonePatterns
               /\ work'[p].newPatterns = work[p].newPatterns /\ work'[p].slot = work[p].slot
            \/ /\ Turns(p, "add", "commit") /\ work[p].day = Job(p).until
               /\ work' = work
<1>1. /\ pc[p] = "add" /\ work[p].slot \notin DOMAIN Hours(p, work[p].day)
      /\ UNCHANGED <<core, now, rows, patterns, orders, post, beside, alone>>
  BY DEF NextDay
<1>2. /\ work \in [Requests -> Work] /\ work[p] \in Work
      /\ work[p].day \in Nat /\ Job(p).until \in Nat /\ work[p].day <= Job(p).until
  BY <1>1, WeekKnown DEF Weekly
<1>3. CASE work[p].day < Job(p).until
  <2> DEFINE next == work[p].day + 1
  <2>1. pc' = [pc EXCEPT ![p] = "clear"] /\ work' = [work EXCEPT ![p].day = next]
    BY <1>3 DEF NextDay, Goto
  <2>2. next \in Nat
    BY <1>2
  <2> HIDE DEF next
  <2>3. work'[p] = [work[p] EXCEPT !.day = next]
        /\ \A q \in Requests \ {p} : work'[q] = work[q]
    BY <2>1, <1>2
  <2>4. work'[p] \in Work
    BY <1>2, <2>2, <2>3 DEF Work
  <2>5. work' \in [Requests -> Work]
    BY <2>1, <1>2, <2>3, <2>4
  <2>6. /\ work'[p].day = next
        /\ work'[p].goneRows = work[p].goneRows /\ work'[p].newRows = work[p].newRows
        /\ work'[p].gonePatterns = work[p].gonePatterns
        /\ work'[p].newPatterns = work[p].newPatterns /\ work'[p].slot = work[p].slot
    BY <1>2, <2>3 DEF Work
  <2> QED
    BY <1>1, <1>3, <2>1, <2>3, <2>5, <2>6 DEF Turns, TypeOK, next
<1>4. CASE ~(work[p].day < Job(p).until)
  <2>1. pc' = [pc EXCEPT ![p] = "commit"] /\ work' = work
    BY <1>4 DEF NextDay, Goto
  <2>2. work[p].day = Job(p).until
    BY <1>2, <1>4
  <2>3. pc'[p] = "commit"
    BY <2>1 DEF TypeOK
  <2> QED
    BY <1>1, <1>2, <2>1, <2>2, <2>3 DEF Turns
<1> QED
  BY <1>3, <1>4

\* What a request is about to commit are rows.
LEMMA PendingType ==
  ASSUME TypeOK, PostTyped, NEW p \in Open
  PROVE  Pending(p) \subseteq Row
<1>1. CASE pc[p] = "insert"
  <2>1. post[p] \in Post /\ Job(p) \in Singles /\ 0 <= Job(p).start /\ Job(p).start < Job(p).end
    BY <1>1 DEF PostTyped, Open
  <2>2. Job(p).start \in Nat /\ Job(p).end \in Nat /\ post[p].res \in Resources
    BY <2>1 DEF Singles, Post
  <2> QED
    BY <1>1, <2>2 DEF Pending, Row, Open
<1>2. CASE pc[p] # "insert"
  BY <1>2 DEF Pending, PostTyped, Work, Open
<1> QED
  BY <1>1, <1>2

\* What a transaction did is forgotten when it ends.
LEMMA Undone ==
  ASSUME PostTyped, NEW p \in Requests, work' = [work EXCEPT ![p] = NoWork]
  PROVE  work' \in [Requests -> Work] /\ \A q \in Requests \ {p} : work'[q] = work[q]
<1>1. NoWork \in Work
  BY DEF NoWork, Work
<1> QED
  BY <1>1 DEF PostTyped

\* A single shift is inserted and committed by one statement.
LEMMA InsertSingleEffect ==
  ASSUME TypeOK, PostTyped, NEW p \in Requests, InsertSingle(p)
  PROVE  Ends(p) /\ work' = work
<1>1. /\ pc[p] = "insert" /\ p \in Open /\ work[p] = NoWork
      /\ pc' = [pc EXCEPT ![p] = "done"] /\ post' = [post EXCEPT ![p] = None]
      /\ UNCHANGED <<core, now, patterns, orders, work, beside>>
  BY DEF InsertSingle, Finish, Goto, Open, PostTyped
<1>2. rows' = (rows \ work[p].goneRows) \cup Pending(p)
  BY <1>1 DEF InsertSingle, Pending, NoWork
<1>3. patterns' = (patterns \ work[p].gonePatterns) \cup work[p].newPatterns
  BY <1>1 DEF NoWork
<1>4. \A q \in Open \ {p} : ~alone'[q]
  BY DEF InsertSingle, Disturbs, Open
<1> QED
  BY <1>1, <1>2, <1>3, <1>4 DEF Ends, PostTyped

\* A week whose patterns repeat is undone.
LEMMA SaveRepeatsEffect ==
  ASSUME TypeOK, PostTyped, NEW p \in Requests, SaveRepeats(p)
  PROVE  Ends(p) /\ work' = [work EXCEPT ![p] = NoWork]
<1>1. /\ p \in Open /\ pc' = [pc EXCEPT ![p] = "done"] /\ post' = [post EXCEPT ![p] = None]
      /\ work' = [work EXCEPT ![p] = NoWork]
      /\ UNCHANGED <<core, now, rows, patterns, orders, beside, alone>>
  BY DEF SaveRepeats, Finish, Goto, Open
<1>2. work' \in [Requests -> Work] /\ \A q \in Requests \ {p} : work'[q] = work[q]
  BY <1>1, Undone
<1> QED
  BY <1>1, <1>2 DEF Ends

\* A week is committed as a whole.
LEMMA CommitWeekEffect ==
  ASSUME TypeOK, PostTyped, NEW p \in Requests, CommitWeek(p)
  PROVE  Ends(p) /\ work' = [work EXCEPT ![p] = NoWork]
<1>1. /\ pc[p] = "commit" /\ p \in Open
      /\ pc' = [pc EXCEPT ![p] = "done"] /\ post' = [post EXCEPT ![p] = None]
      /\ work' = [work EXCEPT ![p] = NoWork]
      /\ patterns' = (patterns \ work[p].gonePatterns) \cup work[p].newPatterns
      /\ UNCHANGED <<core, now, orders, beside>>
  BY DEF CommitWeek, Finish, Goto, Open
<1>2. work' \in [Requests -> Work] /\ \A q \in Requests \ {p} : work'[q] = work[q]
  BY <1>1, Undone
<1>3. rows' = (rows \ work[p].goneRows) \cup Pending(p)
  BY <1>1 DEF CommitWeek, Pending, Seen
<1>4. \A q \in Open \ {p} : ~alone'[q]
  BY DEF CommitWeek, Disturbs, Open
<1> QED
  BY <1>1, <1>2, <1>3, <1>4 DEF Ends

\* The statements of an open transaction.
LEMMA InsideEffect ==
  ASSUME TypeOK, PostTyped, NEW p \in Requests,
         \/ WipePatterns(p) \/ SavePatterns(p) \/ ClearDay(p) \/ AddSlot(p) \/ NextDay(p)
  PROVE  Inside(p)
<1>1. ASSUME NEW from \in {"wipe", "save", "clear", "add"}, NEW to \in {"save", "clear", "add", "commit"},
             Turns(p, from, to)
      PROVE  /\ Weekly(p) /\ Weekly(p)' /\ pc' = [pc EXCEPT ![p] = pc'[p]]
             /\ \A q \in Requests \ {p} : pc'[q] = pc[q] /\ work'[q] = work[q]
             /\ work' \in [Requests -> Work]
             /\ UNCHANGED <<core, now, rows, patterns, orders, post, beside, alone>>
  BY <1>1 DEF Turns, Weekly, TypeOK
<1>7. /\ Job(p).from <= work[p].day /\ work[p].day <= Job(p).until
      /\ Job(p).from \in Nat /\ Job(p).until \in Nat /\ work[p].day \in Nat
  <2>1. Weekly(p)
    BY DEF WipePatterns, SavePatterns, ClearDay, AddSlot, NextDay, Weekly
  <2> QED
    BY <2>1, WeekKnown
<1>2. CASE WipePatterns(p)
  <2>1. /\ work'[p].goneRows = work[p].goneRows /\ work'[p].newRows = work[p].newRows
        /\ work'[p].day = work[p].day
    BY <1>2, WipePatternsEffect
  <2> QED
    BY <1>1, <1>2, <1>7, <2>1, WipePatternsEffect DEF Inside
<1>3. CASE SavePatterns(p)
  <2>1. /\ work'[p].goneRows = work[p].goneRows /\ work'[p].newRows = work[p].newRows
        /\ work'[p].day = work[p].day
    BY <1>3, SavePatternsEffect
  <2> QED
    BY <1>1, <1>3, <1>7, <2>1, SavePatternsEffect DEF Inside
<1>4. CASE ClearDay(p)
  <2>1. /\ work[p].goneRows \subseteq work'[p].goneRows
        /\ work'[p].newRows = work[p].newRows \ DayRows(p) /\ work'[p].day = work[p].day
    BY <1>4, ClearDayEffect
  <2> QED
    BY <1>1, <1>4, <1>7, <2>1, ClearDayEffect DEF Inside
<1>5. CASE AddSlot(p)
  <2> DEFINE a == Shift(p, work[p].day, work[p].slot)
             new == [res |-> post[p].res, start |-> a.start, end |-> a.end,
                     weekly |-> TRUE, by |-> p]
  <2>1. /\ Turns(p, "add", "add") /\ a.start < a.end
        /\ work'[p] = [work[p] EXCEPT !.newRows = work'[p].newRows, !.slot = @ + 1]
        /\ work'[p].newRows = work[p].newRows \cup
             {x \in {new} : /\ WithinCore(post[p].core, a)
                            /\ a.start >= post[p].now + Lead
                            /\ ~Conflict(Seen(p), post[p].res, a)}
    BY <1>5, AddSlotEffect
  <2> HIDE DEF a
  <2>2. work'[p].goneRows = work[p].goneRows /\ work'[p].day = work[p].day
    BY <2>1 DEF PostTyped, Work
  <2>3. \A n \in work'[p].newRows : n \in work[p].newRows \/
          /\ n.res = post[p].res /\ n.by = p /\ n.start < n.end
          /\ \A r \in Seen(p) : r.res = n.res => ~Meets(r, n, 0)
          /\ work'[p].newRows \subseteq work[p].newRows \cup {n}
    <3>1. SUFFICES ASSUME NEW n \in work'[p].newRows, n \notin work[p].newRows
                   PROVE  /\ n = new /\ ~Conflict(Seen(p), post[p].res, a)
                          /\ work'[p].newRows \subseteq work[p].newRows \cup {n}
      BY <2>1 DEF Conflict, Meets
    <3> QED
      BY <2>1, <3>1
  <2> QED
    BY <1>1, <1>7, <2>1, <2>2, <2>3 DEF Inside
<1>6. CASE NextDay(p)
  <2>1. CASE Turns(p, "add", "clear") /\ work[p].day < Job(p).until /\ work'[p].day = work[p].day + 1
             /\ work'[p].goneRows = work[p].goneRows /\ work'[p].newRows = work[p].newRows
    <3>1. Job(p).from <= work'[p].day /\ work'[p].day <= Job(p).until
      BY <1>7, <2>1
    <3> QED
      BY <1>1, <2>1, <3>1 DEF Inside
  <2>2. CASE Turns(p, "add", "commit") /\ work' = work
    BY <1>1, <1>7, <2>2 DEF Inside
  <2> QED
    BY <1>6, <2>1, <2>2, NextDayEffect
<1> QED
  BY <1>2, <1>3, <1>4, <1>5, <1>6

\* What others do meanwhile, and steps that change nothing.
LEMMA AsideEffect ==
  ASSUME TypeOK, PostTyped,
         \/ \E r \in rows : DeleteRow(r)
         \/ \E b \in Orders : SaveOrder(b)
         \/ \E b \in orders : DeleteOrder(b)
         \/ \E hours \in Cores : SetHours(hours)
         \/ Tick \/ UNCHANGED vars
  PROVE  Aside
<1>1. Nobody => \A q \in Open : ~alone'[q]
  BY DEF Nobody, Open
<1> QED
  BY <1>1 DEF Aside, DeleteRow, SaveOrder, DeleteOrder, SetHours, Tick, vars

\* Every step is of one of four kinds.
LEMMA StepKinds ==
  ASSUME TypeOK, PostTyped, [Next]_vars
  PROVE  \/ \E p \in Requests : ArrivesSingle(p) \/ ArrivesWeek(p) \/ Inside(p) \/ Ends(p)
         \/ Aside
BY AskSingleEffect, AskWeekEffect, InsideEffect, InsertSingleEffect, SaveRepeatsEffect,
   CommitWeekEffect, AsideEffect DEF Next

\* Who is open after a step.
LEMMA OpenAfter ==
  ASSUME TypeOK, PostTyped, NEW p \in Requests
  PROVE  /\ ArrivesSingle(p) \/ ArrivesWeek(p) => p \notin Open /\ Open' = Open \cup {p}
         /\ Inside(p) => p \in Open /\ Open' = Open
         /\ Ends(p) => p \in Open /\ Open' = Open \ {p}
         /\ Aside => Open' = Open
<1>1. DOMAIN pc = Requests
  BY DEF TypeOK
<1>2. ASSUME NEW first \in {"insert", "wipe"}, NEW res, NEW job, Arrives(p, res, job, first)
      PROVE  p \notin Open /\ Open' = Open \cup {p}
  <2>1. pc[p] = "idle" /\ \A q \in Requests : pc'[q] = IF q = p THEN first ELSE pc[q]
    BY <1>1, <1>2 DEF Arrives
  <2> QED
    BY <2>1 DEF Open
<1>3. ArrivesSingle(p) \/ ArrivesWeek(p) => p \notin Open /\ Open' = Open \cup {p}
  BY <1>2 DEF ArrivesSingle, ArrivesWeek
<1>4. Inside(p) => p \in Open /\ Open' = Open
  BY DEF Inside, Open, Weekly
<1>5. Ends(p) => p \in Open /\ Open' = Open \ {p}
  BY <1>1 DEF Ends, Open
<1>6. Aside => Open' = Open
  BY DEF Aside, Open
<1> QED
  BY <1>3, <1>4, <1>5, <1>6

\* What arriving means, whatever is asked for.
LEMMA ArrivesEffect ==
  ASSUME TypeOK, PostTyped, NEW p \in Requests, ArrivesSingle(p) \/ ArrivesWeek(p)
  PROVE  /\ pc[p] = "idle" /\ p \notin Open /\ Open' = Open \cup {p}
         /\ pc'[p] \in {"insert", "wipe"}
         /\ \A q \in Requests \ {p} : pc'[q] = pc[q] /\ post'[q] = post[q] /\ work'[q] = work[q]
         /\ \A q \in Requests : beside'[q] = IF q = p THEN Open
                                ELSE IF q \in Open THEN beside[q] \cup {p} ELSE beside[q]
         /\ UNCHANGED <<core, now, rows, patterns, orders, alone>>
<1>1. p \notin Open /\ Open' = Open \cup {p}
  BY OpenAfter
<1>2. PICK first \in {"insert", "wipe"} : \E res, job : Arrives(p, res, job, first)
  BY DEF ArrivesSingle, ArrivesWeek
<1> QED
  BY <1>1, <1>2 DEF Arrives, TypeOK, PostTyped

---------------------------------------------------------------------------
(* Types *)

\* What requests share.
LEMMA SharedType ==
  ASSUME TypeOK, PostTyped, [Next]_vars
  PROVE  /\ core' \in Cores /\ now' \in 0 .. Latest /\ orders' \subseteq Orders
         /\ alone' \in [Requests -> BOOLEAN]
<1> USE DEF TypeOK
<1>1. CASE UNCHANGED vars
  BY <1>1 DEF vars
<1>2. ASSUME NEW p \in Requests, AskSingle(p) \/ AskWeek(p)
      PROVE  UNCHANGED <<core, now, orders, alone>>
  BY <1>2 DEF AskSingle, AskWeek, Arrive
<1>3. ASSUME NEW p \in Requests, WipePatterns(p) \/ SavePatterns(p) \/ SaveRepeats(p)
                                   \/ ClearDay(p) \/ AddSlot(p) \/ NextDay(p)
      PROVE  UNCHANGED <<core, now, orders, alone>>
  BY <1>3 DEF WipePatterns, SavePatterns, SaveRepeats, ClearDay, AddSlot, NextDay
<1>4. ASSUME NEW p \in Requests, InsertSingle(p) \/ CommitWeek(p)
      PROVE  UNCHANGED <<core, now, orders>> /\ alone' \in [Requests -> BOOLEAN]
  BY <1>4 DEF InsertSingle, CommitWeek, Disturbs
<1>5. ASSUME NEW r \in rows, DeleteRow(r)
      PROVE  UNCHANGED <<core, now, orders>> /\ alone' \in [Requests -> BOOLEAN]
  BY <1>5 DEF DeleteRow, Nobody
<1>6. ASSUME NEW b \in Orders, SaveOrder(b)
      PROVE  UNCHANGED <<core, now>> /\ orders' \subseteq Orders /\ alone' \in [Requests -> BOOLEAN]
  BY <1>6 DEF SaveOrder, Nobody
<1>7. ASSUME NEW b \in orders, DeleteOrder(b)
      PROVE  UNCHANGED <<core, now>> /\ orders' \subseteq Orders /\ alone' \in [Requests -> BOOLEAN]
  BY <1>7 DEF DeleteOrder, Nobody
<1>8. ASSUME NEW hours \in Cores, SetHours(hours)
      PROVE  UNCHANGED <<now, orders, alone>> /\ core' \in Cores
  BY <1>8 DEF SetHours
<1>9. CASE Tick
  BY <1>9, ScheduleAssumption DEF Tick
<1> QED
  BY <1>1, <1>2, <1>3, <1>4, <1>5, <1>6, <1>7, <1>8, <1>9 DEF Next

\* A request keeps what it read until it ends.
LEMMA PostTypedStep ==
  ASSUME TypeOK, PostTyped, [Next]_vars
  PROVE  PostTyped'
<1> DEFINE Known(p) ==
      /\ p \in Open => post[p] \in Post
      /\ pc[p] \in {"idle", "insert"} => work[p] = NoWork
      /\ pc[p] = "insert" => Job(p) \in Singles /\ 0 <= Job(p).start /\ Job(p).start < Job(p).end
      /\ Weekly(p) => /\ Job(p) \in Weeks
                      /\ Job(p).from <= work[p].day /\ work[p].day <= Job(p).until
<1>1. \A p \in Requests : Known(p)
  BY DEF PostTyped
<1>2. SUFFICES /\ work' \in [Requests -> Work] /\ DOMAIN post' = Requests
               /\ \A p \in Requests : Known(p)'
  BY DEF PostTyped, Open
<1>3. ASSUME NEW q \in Requests, pc'[q] = pc[q], post'[q] = post[q], work'[q] = work[q]
      PROVE  Known(q)'
  BY <1>1, <1>3 DEF Open, Weekly, Job
<1> HIDE DEF Known
<1>4. ASSUME NEW p \in Requests, ArrivesSingle(p) \/ ArrivesWeek(p)
      PROVE  /\ work' \in [Requests -> Work] /\ DOMAIN post' = Requests
             /\ \A q \in Requests : Known(q)'
  <2>1. /\ \A q \in Requests \ {p} : pc'[q] = pc[q] /\ post'[q] = post[q] /\ work'[q] = work[q]
        /\ pc[p] = "idle"
    BY <1>4, ArrivesEffect
  <2>2. CASE ArrivesSingle(p)
    <3>1. PICK res \in Resources, job \in Singles :
            /\ Arrives(p, res, job, "insert") /\ 0 <= job.start /\ job.start < job.end
            /\ UNCHANGED work
      BY <2>2 DEF ArrivesSingle
    <3>2. /\ pc'[p] = "insert" /\ work'[p] = NoWork
          /\ post'[p] = [res |-> res, job |-> job, core |-> core, now |-> now]
          /\ work' \in [Requests -> Work] /\ DOMAIN post' = Requests
      BY <2>1, <3>1 DEF Arrives, TypeOK, PostTyped
    <3>3. Known(p)'
      BY <3>1, <3>2 DEF Known, Open, Weekly, Job, Post, TypeOK
    <3> QED
      BY <1>3, <2>1, <3>2, <3>3
  <2>3. CASE ArrivesWeek(p)
    <3>1. PICK res \in Resources, job \in Weeks :
            /\ Arrives(p, res, job, "wipe") /\ job.from <= job.until
            /\ work'[p] = [NoWork EXCEPT !.day = job.from]
      BY <2>3 DEF ArrivesWeek
    <3>2. /\ pc'[p] = "wipe" /\ work'[p].day = job.from
          /\ post'[p] = [res |-> res, job |-> job, core |-> core, now |-> now]
          /\ work' \in [Requests -> Work] /\ DOMAIN post' = Requests
      BY <3>1 DEF Arrives, TypeOK, PostTyped, NoWork
    <3>3. Known(p)'
      BY <3>1, <3>2 DEF Known, Open, Weekly, Job, Post, TypeOK, Weeks
    <3> QED
      BY <1>3, <2>1, <3>2, <3>3
  <2> QED
    BY <1>4, <2>2, <2>3
<1>5. ASSUME NEW p \in Requests, Inside(p)
      PROVE  /\ work' \in [Requests -> Work] /\ DOMAIN post' = Requests
             /\ \A q \in Requests : Known(q)'
  <2>1. /\ work' \in [Requests -> Work] /\ post' = post /\ DOMAIN post = Requests
        /\ \A q \in Requests \ {p} : pc'[q] = pc[q] /\ work'[q] = work[q]
    BY <1>5 DEF Inside, PostTyped
  <2>2. Known(p)'
    BY <1>1, <1>5 DEF Inside, Known, Open, Weekly, Job
  <2> QED
    BY <1>3, <2>1, <2>2
<1>6. ASSUME NEW p \in Requests, Ends(p)
      PROVE  /\ work' \in [Requests -> Work] /\ DOMAIN post' = Requests
             /\ \A q \in Requests : Known(q)'
  <2>1. /\ work' \in [Requests -> Work] /\ DOMAIN post' = Requests /\ pc'[p] = "done"
        /\ \A q \in Requests \ {p} : pc'[q] = pc[q] /\ post'[q] = post[q] /\ work'[q] = work[q]
    BY <1>6 DEF Ends, PostTyped, TypeOK
  <2>2. Known(p)'
    BY <2>1 DEF Known, Open, Weekly
  <2> QED
    BY <1>3, <2>1, <2>2
<1>7. CASE Aside
  <2>1. UNCHANGED <<post, pc, work>>
    BY <1>7 DEF Aside
  <2> QED
    BY <1>3, <2>1 DEF PostTyped
<1> QED
  BY <1>4, <1>5, <1>6, <1>7, StepKinds

\* Every variable keeps its type.
LEMMA TypeStep ==
  ASSUME TypeOK, PostTyped, PendingFree, [Next]_vars
  PROVE  TypeOK'
<1>1. /\ core' \in Cores /\ now' \in 0 .. Latest /\ orders' \subseteq Orders
      /\ alone' \in [Requests -> BOOLEAN]
  BY SharedType
<1>2. \A p \in Requests :
        /\ work'[p].goneRows \subseteq Row /\ work'[p].newRows \subseteq Row
        /\ work'[p].gonePatterns \subseteq Pattern /\ work'[p].newPatterns \subseteq Pattern
  <2>1. work' \in [Requests -> Work]
    BY PostTypedStep DEF PostTyped
  <2> QED
    BY <2>1 DEF Work
<1> DEFINE States == {"idle", "insert", "wipe", "save", "clear", "add", "commit", "done"}
           Rest == /\ rows' \subseteq {r \in Row : r.start < r.end} /\ patterns' \subseteq Pattern
                   /\ pc' \in [Requests -> States] /\ beside' \in [Requests -> SUBSET Requests]
<1>3. SUFFICES Rest
  BY <1>1, <1>2 DEF TypeOK
<1>4. ASSUME NEW p \in Requests, ArrivesSingle(p) \/ ArrivesWeek(p)
      PROVE  Rest
  <2>1. PICK first \in {"insert", "wipe"} : \E res, job : Arrives(p, res, job, first)
    BY <1>4 DEF ArrivesSingle, ArrivesWeek
  <2>2. /\ pc' = [pc EXCEPT ![p] = first] /\ UNCHANGED <<rows, patterns>>
        /\ beside' \in [Requests -> SUBSET Requests]
    BY <1>4, <2>1 DEF Arrives, Open, TypeOK
  <2> QED
    BY <2>2 DEF TypeOK
<1>5. ASSUME NEW p \in Requests, Inside(p)
      PROVE  Rest
  <2>1. UNCHANGED <<rows, patterns, beside>> /\ pc'[p] \in States /\ pc' = [pc EXCEPT ![p] = pc'[p]]
    BY <1>5 DEF Inside, Weekly
  <2> QED
    BY <1>5, <2>1 DEF TypeOK
<1>6. ASSUME NEW p \in Requests, Ends(p)
      PROVE  Rest
  <2>1. /\ p \in Open /\ pc' = [pc EXCEPT ![p] = "done"] /\ beside' = beside
        /\ rows' \subseteq rows \cup Pending(p) /\ patterns' \subseteq patterns \cup work[p].newPatterns
    BY <1>6 DEF Ends
  <2>2. Pending(p) \subseteq {r \in Row : r.start < r.end}
    BY <2>1, PendingType DEF PendingFree
  <2> QED
    BY <2>1, <2>2 DEF TypeOK
<1>7. CASE Aside
  BY <1>7 DEF Aside, TypeOK
<1> QED
  BY <1>4, <1>5, <1>6, <1>7, StepKinds

---------------------------------------------------------------------------
(* Who is beside whom, and who made what *)

\* A request comes with everybody who is open beside it.
LEMMA BesideStep ==
  ASSUME TypeOK, PostTyped, Beside, [Next]_vars
  PROVE  Beside'
<1>1. ASSUME NEW p \in Requests, ArrivesSingle(p) \/ ArrivesWeek(p)
      PROVE  Beside'
  <2>1. /\ pc[p] = "idle" /\ p \notin Open /\ Open' = Open \cup {p}
        /\ \A q \in Requests : pc'[q] = "idle" => q # p /\ pc[q] = "idle" /\ q \notin Open
        /\ \A q \in Requests : beside'[q] = IF q = p THEN Open
                               ELSE IF q \in Open THEN beside[q] \cup {p} ELSE beside[q]
        /\ Open \subseteq Requests
    BY <1>1, ArrivesEffect DEF Open
  <2>2. \A q \in Requests : p \notin beside[q] /\ q \notin beside[p]
    BY <2>1 DEF Beside
  <2>3. \A q \in Requests : (p \in beside'[q] <=> q \in Open) /\ (q \in beside'[p] <=> q \in Open)
    BY <2>1, <2>2
  <2>4. \A q, r \in Requests \ {p} : r \in beside'[q] <=> r \in beside[q]
    BY <2>1
  <2> QED
    BY <2>1, <2>3, <2>4 DEF Beside
<1>2. ASSUME NEW p \in Requests, Inside(p)
      PROVE  Beside'
  <2>1. Open' = Open /\ beside' = beside
        /\ \A q \in Requests : pc'[q] = "idle" => pc[q] = "idle"
    BY <1>2, OpenAfter DEF Inside, Weekly
  <2> QED
    BY <2>1 DEF Beside
<1>3. ASSUME NEW p \in Requests, Ends(p)
      PROVE  Beside'
  <2>1. Open' = Open \ {p} /\ beside' = beside
        /\ \A q \in Requests : pc'[q] = "idle" => pc[q] = "idle"
    BY <1>3, OpenAfter DEF Ends, TypeOK
  <2> QED
    BY <2>1 DEF Beside
<1>4. CASE Aside
  BY <1>4, OpenAfter DEF Aside, Beside, Open
<1> QED
  BY <1>1, <1>2, <1>3, <1>4, StepKinds

\* Rows come from requests that end with their insert.
LEMMA RowsMadeStep ==
  ASSUME TypeOK, PostTyped, RowsMade, PendingFree, [Next]_vars
  PROVE  RowsMade'
<1>1. ASSUME NEW p \in Requests, Ends(p)
      PROVE  RowsMade'
  <2>1. /\ pc' = [pc EXCEPT ![p] = "done"] /\ DOMAIN pc = Requests
        /\ \A r \in rows : r.by # None => r.by \in Requests
    BY <1>1 DEF Ends, TypeOK, Row
  <2>2. \A r \in rows : r.start < r.end /\ (r.by # None => pc'[r.by] = "done")
    BY <2>1 DEF RowsMade
  <2>3. \A r \in Pending(p) : r.start < r.end /\ (r.by # None => pc'[r.by] = "done")
    BY <1>1, <2>1 DEF PendingFree, Ends
  <2>4. rows' \subseteq rows \cup Pending(p)
    BY <1>1 DEF Ends
  <2> QED
    BY <2>2, <2>3, <2>4 DEF RowsMade
<1>2. ASSUME rows' \subseteq rows, \A q \in Requests : pc[q] = "done" => pc'[q] = "done"
      PROVE  RowsMade'
  BY <1>2 DEF RowsMade, TypeOK, Row
<1>3. ASSUME NEW p \in Requests, ArrivesSingle(p) \/ ArrivesWeek(p) \/ Inside(p)
      PROVE  RowsMade'
  <2>1. rows' \subseteq rows /\ \A q \in Requests : pc[q] = "done" => pc'[q] = "done"
    BY <1>3 DEF Arrives, ArrivesSingle, ArrivesWeek, Inside, TypeOK, Weekly
  <2> QED
    BY <2>1, <1>2
<1>4. CASE Aside
  BY <1>2, <1>4 DEF Aside
<1> QED
  BY <1>1, <1>3, <1>4, StepKinds

\* What is committed was free but for what was committed beside it.
LEMMA RowsApartStep ==
  ASSUME TypeOK, PostTyped, Beside, RowsMade, PendingFree, RowsApart, [Next]_vars
  PROVE  RowsApart'
<1>1. ASSUME NEW p \in Requests, ArrivesSingle(p) \/ ArrivesWeek(p)
      PROVE  RowsApart'
  <2>1. rows' = rows /\ \A q \in Requests : beside[q] \subseteq beside'[q]
    <3>1. beside[p] = {}
      BY <1>1, ArrivesEffect DEF Beside, TypeOK
    <3> QED
      BY <1>1, <3>1, ArrivesEffect
  <2> QED
    BY <2>1 DEF RowsApart, TypeOK, Row
<1>2. ASSUME NEW p \in Requests, Inside(p)
      PROVE  RowsApart'
  BY <1>2 DEF Inside, RowsApart
<1>3. ASSUME NEW p \in Requests, Ends(p)
      PROVE  RowsApart'
  <2>1. p \in Open /\ beside' = beside
    BY <1>3 DEF Ends
  <2>2. CASE rows' = rows
    BY <2>1, <2>2 DEF RowsApart
  <2>3. CASE rows' = (rows \ work[p].goneRows) \cup Pending(p)
    <3>1. ASSUME NEW r \in rows, NEW n \in Pending(p), r \notin work[p].goneRows,
                 r.res = n.res, Meets(r, n, 0) \/ Meets(n, r, 0)
          PROVE  r.by # None /\ n.by # None /\ r.by \in beside[n.by] /\ n.by \in beside[r.by]
      <4>1. Meets(r, n, 0)
        <5>1. r.start \in Int /\ r.end \in Int /\ n.start \in Int /\ n.end \in Int
          BY <2>1, PendingType DEF TypeOK, Row
        <5> QED
          BY <3>1, <5>1 DEF Meets
      <4>2. n.by = p /\ r.by # None /\ r.by \in beside[p]
        BY <2>1, <3>1, <4>1 DEF PendingFree
      <4>3. r.by \in Requests /\ p # None
        BY <4>2, ScheduleAssumption DEF TypeOK, Row, Open
      <4> QED
        BY <4>2, <4>3 DEF Beside, Open
    <3>2. \A a, b \in Pending(p) : a # b => ~Meets(a, b, 0)
      BY <2>1 DEF PendingFree
    <3> QED
      BY <2>1, <2>3, <3>1, <3>2 DEF RowsApart
  <2> QED
    BY <1>3, <2>2, <2>3 DEF Ends
<1>4. CASE Aside
  BY <1>4 DEF Aside, RowsApart
<1> QED
  BY <1>1, <1>2, <1>3, <1>4, StepKinds

\* A shift is added only where nothing that is seen is in its way; what is committed
\* afterwards comes from beside.
LEMMA PendingFreeStep ==
  ASSUME TypeOK, PostTyped, Beside, RowsMade, PendingFree, [Next]_vars
  PROVE  PendingFree'
<1> DEFINE Free(q) ==
      \A n \in Pending(q) :
        /\ n.res = post[q].res /\ n.by = q /\ n.start < n.end
        /\ \A m \in Pending(q) : m # n => ~Meets(m, n, 0)
        /\ \A r \in rows : (r.res = n.res /\ Meets(r, n, 0)) =>
             r \in work[q].goneRows \/ (r.by # None /\ r.by \in beside[q])
<1>1. /\ \A q \in Open : Free(q)
      /\ (\A q \in Open' : Free(q)') => PendingFree'
  BY DEF PendingFree
\* A request that others' steps leave as it is.
<1>2. ASSUME NEW q \in Open, pc'[q] = pc[q], post'[q] = post[q], work'[q] = work[q],
             beside[q] \subseteq beside'[q],
             \A r \in rows' \ rows : r.by # None /\ r.by \in beside'[q]
      PROVE  Free(q)'
  <2>1. Pending(q)' = Pending(q)
    BY <1>2 DEF Pending, Job
  <2>2. Free(q)
    BY <1>1
  <2> QED
    BY <1>2, <2>1, <2>2
<1> HIDE DEF Free
<1>3. ASSUME NEW p \in Requests, ArrivesSingle(p) \/ ArrivesWeek(p)
      PROVE  PendingFree'
  <2>1. /\ Open' = Open \cup {p} /\ p \notin Open /\ rows' = rows
        /\ \A q \in Open : /\ pc'[q] = pc[q] /\ post'[q] = post[q] /\ work'[q] = work[q]
                           /\ beside[q] \subseteq beside'[q]
    BY <1>3, ArrivesEffect DEF Open
  <2>2. \A q \in Open : Free(q)'
    BY <1>2, <2>1
  <2>3. Free(p)'
    <3>1. CASE ArrivesWeek(p)
      <4>1. pc'[p] = "wipe" /\ work'[p].newRows = {}
        BY <3>1 DEF ArrivesWeek, Arrives, TypeOK, NoWork
      <4>2. Pending(p)' = {}
        BY <4>1 DEF Pending
      <4> QED
        BY <4>2 DEF Free
    <3>2. CASE ArrivesSingle(p)
      <4>1. PICK res \in Resources, job \in Singles :
              /\ Arrives(p, res, job, "insert")
              /\ job.start < job.end
              /\ \A r \in rows : r.res = res => ~Meets(r, job, 0)
        BY <3>2 DEF ArrivesSingle
      <4>2. pc'[p] = "insert" /\ Job(p)' = job /\ post'[p].res = res
        BY <4>1 DEF Arrives, TypeOK, PostTyped, Job
      <4>3. Pending(p)' = {[res |-> res, start |-> job.start, end |-> job.end,
                            weekly |-> FALSE, by |-> p]}
        BY <4>2 DEF Pending
      <4>4. \A r \in rows', n \in Pending(p)' : ~(r.res = n.res /\ Meets(r, n, 0))
        BY <2>1, <4>1, <4>3 DEF Meets
      <4>5. SUFFICES ASSUME NEW n \in Pending(p)'
                     PROVE  /\ n.res = post'[p].res /\ n.by = p /\ n.start < n.end
                            /\ \A m \in Pending(p)' : m # n => ~Meets(m, n, 0)
                            /\ \A r \in rows' : ~(r.res = n.res /\ Meets(r, n, 0))
        BY DEF Free
      <4>6. n = [res |-> res, start |-> job.start, end |-> job.end, weekly |-> FALSE, by |-> p]
        BY <4>3, <4>5
      <4>7. n.res = res /\ n.by = p /\ n.start = job.start /\ n.end = job.end
        BY <4>6
      <4>8. \A m \in Pending(p)' : m = n
        BY <4>3, <4>6
      <4> QED
        BY <4>1, <4>2, <4>4, <4>5, <4>7, <4>8
    <3> QED
      BY <1>3, <3>1, <3>2
  <2> QED
    BY <1>1, <2>1, <2>2, <2>3
<1>4. ASSUME NEW p \in Requests, Inside(p)
      PROVE  PendingFree'
  <2>1. /\ p \in Open /\ Open' = Open /\ rows' = rows /\ post' = post /\ beside' = beside
        /\ \A q \in Open \ {p} : pc'[q] = pc[q] /\ work'[q] = work[q]
    BY <1>4, OpenAfter DEF Inside, Open
  <2>2. \A q \in Open \ {p} : Free(q)'
    BY <1>2, <2>1
  <2>3. /\ Pending(p) = work[p].newRows /\ Pending(p)' = work'[p].newRows
        /\ work[p].goneRows \subseteq work'[p].goneRows
    BY <1>4 DEF Inside, Pending, Weekly
  <2>4. Free(p)
    BY <1>1, <2>1
  <2>5. \A r \in rows \cup work[p].newRows : r.start \in Int /\ r.end \in Int
    BY DEF TypeOK, PostTyped, Work, Row
  <2>8. work'[p].newRows \subseteq Row
    BY <1>4 DEF Inside, Work
  <2>6. ASSUME NEW n \in work'[p].newRows
        PROVE  /\ n.res = post[p].res /\ n.by = p /\ n.start < n.end
               /\ \A m \in work'[p].newRows : m # n => ~Meets(m, n, 0)
               /\ \A r \in rows : (r.res = n.res /\ Meets(r, n, 0)) =>
                    r \in work'[p].goneRows \/ (r.by # None /\ r.by \in beside[p])
    <3>1. ASSUME NEW k \in work'[p].newRows, k \notin work[p].newRows
          PROVE  /\ k.res = post[p].res /\ k.by = p /\ k.start < k.end
                 /\ \A r \in Seen(p) : r.res = k.res => ~Meets(r, k, 0)
                 /\ work'[p].newRows \subseteq work[p].newRows \cup {k}
      BY <1>4, <3>1 DEF Inside
    <3>2. CASE n \in work[p].newRows
      <4>1. \A m \in work'[p].newRows : m # n => ~Meets(m, n, 0)
        <5>1. SUFFICES ASSUME NEW m \in work'[p].newRows, m # n, m \notin work[p].newRows
                       PROVE  ~Meets(m, n, 0)
          BY <2>3, <2>4, <3>2 DEF Free
        <5>2. n \in Seen(p) /\ n.res = m.res /\ ~Meets(n, m, 0)
          BY <2>3, <2>4, <3>1, <3>2, <5>1 DEF Free, Seen
        <5>3. m.start < m.end /\ m.start \in Int /\ m.end \in Int
          BY <3>1, <5>1, <2>8 DEF Row
        <5> QED
          BY <2>5, <3>2, <5>2, <5>3 DEF Meets
      <4> QED
        BY <2>3, <2>4, <3>2, <4>1 DEF Free
    <3>3. CASE n \notin work[p].newRows
      <4>1. \A m \in work'[p].newRows : m # n => m \in Seen(p) /\ m.res = n.res
        BY <2>3, <2>4, <3>1, <3>3 DEF Free, Seen
      <4>2. \A r \in rows : (r.res = n.res /\ Meets(r, n, 0)) => r \in work'[p].goneRows
        BY <2>3, <3>1, <3>3 DEF Seen
      <4> QED
        BY <3>1, <3>3, <4>1, <4>2
    <3> QED
      BY <3>2, <3>3
  <2>7. Free(p)'
    BY <2>1, <2>3, <2>6 DEF Free
  <2> QED
    BY <1>1, <2>1, <2>2, <2>7
<1>5. ASSUME NEW p \in Requests, Ends(p)
      PROVE  PendingFree'
  <2>1. /\ p \in Open /\ Open' = Open \ {p} /\ beside' = beside
        /\ \A q \in Open \ {p} : pc'[q] = pc[q] /\ post'[q] = post[q] /\ work'[q] = work[q]
    BY <1>5, OpenAfter DEF Ends, Open, TypeOK, PostTyped
  <2>2. rows' \ rows \subseteq Pending(p) /\ \A n \in Pending(p) : n.by = p
    BY <1>5, <2>1 DEF Ends, PendingFree
  <2>3. \A q \in Open \ {p} : p # None /\ p \in beside[q]
    BY <2>1, ScheduleAssumption DEF Beside, Open
  <2>4. \A q \in Open \ {p} : Free(q)'
    BY <1>2, <2>1, <2>2, <2>3
  <2> QED
    BY <1>1, <2>1, <2>4
<1>6. CASE Aside
  <2>1. Open' = Open /\ rows' \subseteq rows /\ UNCHANGED <<post, pc, work, beside>>
    BY <1>6 DEF Aside, Open
  <2>2. \A q \in Open : Free(q)'
    BY <1>2, <2>1
  <2> QED
    BY <1>1, <2>1, <2>2
<1> QED
  BY <1>3, <1>4, <1>5, <1>6, StepKinds

---------------------------------------------------------------------------
(* The transaction that saves a week *)

\* What a step means to a request that is open after it: it is the request's own,
\* or it leaves what the request did and read, and disturbs it when it changes
\* what the request looks at.
LEMMA OwnStep ==
  ASSUME TypeOK, PostTyped, Beside, NEW p \in Requests, p \in Open', [Next]_vars
  PROVE  \/ ArrivesSingle(p) \/ ArrivesWeek(p)
         \/ WipePatterns(p) \/ SavePatterns(p) \/ ClearDay(p) \/ AddSlot(p) \/ NextDay(p)
         \/ /\ p \in Open /\ pc'[p] = pc[p] /\ post'[p] = post[p] /\ work'[p] = work[p]
            /\ beside[p] \subseteq beside'[p]
            /\ (UNCHANGED <<rows, orders>> /\ alone'[p] = alone[p]) \/ ~alone'[p]
            /\ beside'[p] = {} => patterns' = patterns
<1> DEFINE Spared ==
      /\ p \in Open /\ pc'[p] = pc[p] /\ post'[p] = post[p] /\ work'[p] = work[p]
      /\ beside[p] \subseteq beside'[p]
      /\ (UNCHANGED <<rows, orders>> /\ alone'[p] = alone[p]) \/ ~alone'[p]
      /\ beside'[p] = {} => patterns' = patterns
<1>1. ASSUME NEW q \in Requests \ {p}, ArrivesSingle(q) \/ ArrivesWeek(q)
      PROVE  Spared
  BY <1>1, ArrivesEffect
<1>2. ASSUME NEW q \in Requests \ {p}, Inside(q)
      PROVE  Spared
  BY <1>2, OpenAfter DEF Inside
<1>3. ASSUME NEW q \in Requests \ {p}, Ends(q)
      PROVE  Spared
  <2>1. /\ q \in Open /\ p \in Open /\ q \in beside[p]
        /\ pc'[p] = pc[p] /\ post'[p] = post[p] /\ work'[p] = work[p] /\ beside' = beside
    <3>1. q \in Open /\ p \in Open
      BY <1>3, OpenAfter
    <3> QED
      BY <1>3, <3>1 DEF Ends, TypeOK, PostTyped, Beside
  <2> QED
    BY <1>3, <2>1 DEF Ends
<1>4. CASE Aside
  BY <1>4, OpenAfter DEF Aside
<1>5. ~Ends(p)
  BY OpenAfter
<1>6. Inside(p) \/ ~Inside(p)
  OBVIOUS
<1> HIDE DEF Spared
<1>7. CASE Aside \/ \E q \in Requests \ {p} :
                      ArrivesSingle(q) \/ ArrivesWeek(q) \/ Inside(q) \/ Ends(q)
  BY <1>1, <1>2, <1>3, <1>4, <1>7 DEF Spared
<1>8. CASE UNCHANGED vars
  BY <1>4, <1>8, AsideEffect DEF Spared
<1>9. CASE \/ \E r \in rows : DeleteRow(r)
           \/ \E b \in Orders : SaveOrder(b)
           \/ \E b \in orders : DeleteOrder(b)
           \/ \E hours \in Cores : SetHours(hours)
           \/ Tick
  BY <1>4, <1>9, AsideEffect DEF Spared
<1>10. ASSUME NEW q \in Requests \ {p},
              \/ AskSingle(q) \/ InsertSingle(q)
              \/ AskWeek(q) \/ WipePatterns(q) \/ SavePatterns(q) \/ SaveRepeats(q)
              \/ ClearDay(q) \/ AddSlot(q) \/ NextDay(q) \/ CommitWeek(q)
       PROVE  Spared
  <2>1. ArrivesSingle(q) \/ ArrivesWeek(q) \/ Inside(q) \/ Ends(q)
    BY <1>10, AskSingleEffect, AskWeekEffect, InsideEffect, InsertSingleEffect,
       SaveRepeatsEffect, CommitWeekEffect
  <2> QED
    BY <1>1, <1>2, <1>3, <2>1
<1>11. CASE \/ AskSingle(p) \/ InsertSingle(p)
            \/ AskWeek(p) \/ WipePatterns(p) \/ SavePatterns(p) \/ SaveRepeats(p)
            \/ ClearDay(p) \/ AddSlot(p) \/ NextDay(p) \/ CommitWeek(p)
  BY <1>5, <1>11, AskSingleEffect, AskWeekEffect, InsertSingleEffect,
     SaveRepeatsEffect, CommitWeekEffect
<1> QED
  BY <1>8, <1>9, <1>10, <1>11 DEF Next, Spared

\* The old patterns are deleted and the new ones inserted by one transaction.
LEMMA PatternsHeldStep ==
  ASSUME TypeOK, PostTyped, Beside, PatternsHeld, [Next]_vars
  PROVE  PatternsHeld'
<1> DEFINE Held(p) ==
      /\ pc[p] \in {"clear", "add", "commit"} => work[p].newPatterns = Asked(p)
      /\ (pc[p] \in {"save", "clear", "add", "commit"} /\ beside[p] = {}) =>
           {x \in patterns : x.res = post[p].res} \subseteq work[p].gonePatterns
<1>1. SUFFICES ASSUME NEW p \in Requests, p \in Open'
               PROVE  Held(p)'
  BY DEF PatternsHeld, Open
<1>2. Held(p)
  BY DEF PatternsHeld
<1>3. post'[p] = post[p] => Asked(p)' = Asked(p)
  BY DEF Asked, Job
<1>4. CASE ArrivesSingle(p) \/ ArrivesWeek(p)
  BY <1>4, ArrivesEffect
<1>5. CASE WipePatterns(p)
  <2>1. /\ pc'[p] = "save" /\ UNCHANGED <<patterns, post>>
        /\ UNCHANGED beside
        /\ beside[p] = {} => work'[p].gonePatterns = {x \in patterns : x.res = post[p].res}
    BY <1>5, WipePatternsEffect DEF Turns
  <2> QED
    BY <2>1
<1>6. CASE SavePatterns(p)
  <2>1. /\ pc[p] = "save" /\ UNCHANGED <<patterns, post, beside>>
        /\ work'[p].newPatterns = Asked(p) /\ work'[p].gonePatterns = work[p].gonePatterns
    BY <1>6, SavePatternsEffect DEF Turns
  <2> QED
    BY <1>2, <1>3, <2>1
<1>7. CASE ClearDay(p) \/ AddSlot(p) \/ NextDay(p)
  <2>1. /\ pc[p] \in {"clear", "add"} /\ UNCHANGED <<patterns, post, beside>>
        /\ work'[p].newPatterns = work[p].newPatterns
        /\ work'[p].gonePatterns = work[p].gonePatterns
    <3>1. CASE ClearDay(p)
      BY <3>1, ClearDayEffect DEF Turns
    <3>2. CASE AddSlot(p)
      BY <3>2, AddSlotEffect DEF Turns
    <3>3. CASE NextDay(p)
      BY <3>3, NextDayEffect DEF Turns
    <3> QED
      BY <1>7, <3>1, <3>2, <3>3
  <2> QED
    BY <1>2, <1>3, <2>1
<1>8. CASE /\ pc'[p] = pc[p] /\ post'[p] = post[p] /\ work'[p] = work[p]
           /\ beside[p] \subseteq beside'[p]
           /\ beside'[p] = {} => patterns' = patterns
  BY <1>2, <1>3, <1>8
<1> HIDE DEF Held
<1> QED
  BY <1>1, <1>4, <1>5, <1>6, <1>7, <1>8, OwnStep

\* What a week is measured by stays the same when what it read does.
LEMMA Unmoved ==
  ASSUME NEW p \in Requests, post'[p] = post[p]
  PROVE  /\ Job(p)' = Job(p)
         /\ \A d, i : Hours(p, d)' = Hours(p, d) /\ Shift(p, d, i)' = Shift(p, d, i)
         /\ \A r : OfOldWeek(p, r)' <=> OfOldWeek(p, r)
         /\ EndsByMorning(p)' <=> EndsByMorning(p)
         /\ UNCHANGED <<rows, orders>> =>
              Kept(p)' = Kept(p) /\ \A a : Fits(p, a)' <=> Fits(p, a)
<1>1. Job(p)' = Job(p)
  BY DEF Job
<1>2. \A d, i : Hours(p, d)' = Hours(p, d) /\ Shift(p, d, i)' = Shift(p, d, i)
  BY <1>1 DEF Hours, Shift
<1>3. \A r : OfOldWeek(p, r)' <=> OfOldWeek(p, r)
  BY <1>1 DEF OfOldWeek
<1>4. EndsByMorning(p)' <=> EndsByMorning(p)
  BY <1>1 DEF EndsByMorning
<1>5. ASSUME UNCHANGED <<rows, orders>>
      PROVE  Kept(p)' = Kept(p) /\ \A a : Fits(p, a)' <=> Fits(p, a)
  <2>1. Kept(p)' = Kept(p)
    BY <1>1, <1>5 DEF Kept
  <2>2. \A a : Conflict(Kept(p), post[p].res, a)' <=> Conflict(Kept(p), post[p].res, a)
    BY <1>5, <2>1 DEF Conflict, Near
  <2> QED
    BY <2>1, <2>2 DEF Fits
<1> QED
  BY <1>1, <1>2, <1>3, <1>4, <1>5

\* Days are cleared in order, and nothing of the old week is left behind.
LEMMA ClearedStep ==
  ASSUME TypeOK, PostTyped, Beside, Cleared, [Next]_vars
  PROVE  Cleared'
<1> DEFINE Done(p) ==
      /\ pc[p] \in {"wipe", "save"} =>
           /\ work[p].goneRows = {} /\ work[p].newRows = {} /\ work[p].day = Job(p).from
      /\ Weekly(p) => \A r \in work[p].goneRows : OfOldWeek(p, r)
      /\ (/\ alone[p]
          /\ pc[p] \in {"add", "commit"} \/ (pc[p] = "clear" /\ work[p].day > Job(p).from)) =>
           \A r \in rows : (OfOldWeek(p, r) /\ r.start < DaysEnd(p) + Night) =>
             r \in work[p].goneRows
      /\ pc[p] = "commit" => work[p].day = Job(p).until
<1>1. SUFFICES ASSUME NEW p \in Requests, p \in Open'
               PROVE  Done(p)'
  BY DEF Cleared, Open, Weekly
<1>2. Done(p)
  BY DEF Cleared
<1>3. CASE ArrivesSingle(p)
  BY <1>3, ArrivesEffect DEF ArrivesSingle, Arrives, TypeOK, Weekly
<1>4. CASE ArrivesWeek(p)
  <2>1. PICK res, job : /\ Arrives(p, res, job, "wipe")
                        /\ work'[p] = [NoWork EXCEPT !.day = job.from]
    BY <1>4 DEF ArrivesWeek
  <2>2. /\ pc'[p] = "wipe" /\ Job(p)' = job
        /\ work'[p].goneRows = {} /\ work'[p].newRows = {} /\ work'[p].day = job.from
    BY <2>1 DEF Arrives, TypeOK, PostTyped, Job, NoWork
  <2> QED
    BY <2>2
<1>5. ASSUME UNCHANGED <<rows, post, alone>>
      PROVE  /\ Job(p)' = Job(p) /\ UNCHANGED <<rows, alone>>
             /\ \A r : OfOldWeek(p, r)' <=> OfOldWeek(p, r)
  BY <1>5, Unmoved
<1>6. CASE WipePatterns(p)
  <2>1. /\ pc[p] = "wipe" /\ pc'[p] = "save" /\ UNCHANGED <<rows, post, alone>>
        /\ work'[p].goneRows = work[p].goneRows /\ work'[p].newRows = work[p].newRows
        /\ work'[p].day = work[p].day
    BY <1>6, WipePatternsEffect DEF Turns
  <2> QED
    BY <1>2, <1>5, <2>1 DEF Weekly
<1>7. CASE SavePatterns(p)
  <2>1. /\ pc[p] = "save" /\ pc'[p] = "clear" /\ UNCHANGED <<rows, post, alone>>
        /\ work'[p].goneRows = work[p].goneRows /\ work'[p].newRows = work[p].newRows
        /\ work'[p].day = work[p].day
    BY <1>7, SavePatternsEffect DEF Turns
  <2>2. /\ Job(p).from \in Nat /\ work[p].day = Job(p).from
        /\ ~(work[p].day > Job(p).from)
    BY <1>2, <2>1, WeekKnown DEF Weekly
  <2> QED
    BY <1>2, <1>5, <2>1, <2>2 DEF Weekly
<1>8. CASE ClearDay(p)
  <2>1. /\ pc[p] = "clear" /\ pc'[p] = "add" /\ UNCHANGED <<rows, post, alone>>
        /\ work[p].goneRows \subseteq work'[p].goneRows
        /\ work'[p].goneRows \subseteq work[p].goneRows \cup (DayRows(p) \cap rows)
        /\ alone[p] => DayRows(p) \cap rows \subseteq work'[p].goneRows
        /\ work'[p].day = work[p].day
    BY <1>8, ClearDayEffect DEF Turns
  <2>2. /\ Job(p).from \in Nat /\ Job(p).until \in Nat /\ work[p].day \in Nat
        /\ Job(p).from <= work[p].day /\ work[p].day <= Job(p).until
    BY <2>1, WeekKnown DEF Weekly
  <2>3. /\ Job(p).from * DayLen <= work[p].day * DayLen
        /\ work[p].day * DayLen <= Job(p).until * DayLen
        /\ (work[p].day + 1) * DayLen = work[p].day * DayLen + DayLen
        /\ (Job(p).until + 1) * DayLen = Job(p).until * DayLen + DayLen
        /\ Job(p).from * DayLen \in Int /\ Job(p).until * DayLen \in Int
        /\ work[p].day * DayLen \in Int /\ DayLen \in Int /\ Night \in Int
    BY <2>2, DaysApart, ScheduleAssumption
  <2>4. DaysEnd(p)' = (work[p].day + 1) * DayLen /\ DaysEnd(p) = work[p].day * DayLen
    BY <2>1 DEF DaysEnd
  <2>5. \A r \in DayRows(p) \cap rows : OfOldWeek(p, r)
    <3>1. SUFFICES ASSUME NEW r \in DayRows(p) \cap rows
                   PROVE  OfOldWeek(p, r)
      OBVIOUS
    <3>2. /\ r.res = post[p].res /\ r.weekly /\ r.start >= work[p].day * DayLen
          /\ r.start < (work[p].day + 1) * DayLen + Night /\ r.start \in Int
      BY <3>1 DEF DayRows, TypeOK, Row
    <3>3. /\ r.start >= Job(p).from * DayLen
          /\ r.start < (Job(p).until + 1) * DayLen + Night
      BY <2>3, <3>2
    <3> QED
      BY <3>2, <3>3 DEF OfOldWeek
  <2>6. \A r \in work'[p].goneRows : OfOldWeek(p, r)
    BY <1>2, <2>1, <2>5 DEF Weekly
  <2>7. ASSUME alone[p], NEW r \in rows, OfOldWeek(p, r), r.start < (work[p].day + 1) * DayLen + Night
        PROVE  r \in work'[p].goneRows
    <3>1. /\ r.res = post[p].res /\ r.weekly /\ r.start >= Job(p).from * DayLen /\ r.start \in Int
      BY <2>7 DEF OfOldWeek, TypeOK, Row
    <3>2. CASE r.start >= work[p].day * DayLen
      BY <2>1, <2>7, <3>1, <3>2 DEF DayRows, Seen
    <3>3. CASE r.start < work[p].day * DayLen
      <4>1. work[p].day > Job(p).from
        BY <2>2, <2>3, <3>1, <3>3
      <4>2. r.start < DaysEnd(p) + Night
        BY <2>3, <2>4, <3>1, <3>3, ScheduleAssumption
      <4> QED
        BY <1>2, <2>1, <2>7, <4>1, <4>2
    <3> QED
      BY <2>3, <3>1, <3>2, <3>3
  <2> QED
    BY <1>5, <2>1, <2>4, <2>6, <2>7 DEF Weekly
<1>9. CASE AddSlot(p)
  <2>1. /\ pc[p] = "add" /\ pc'[p] = "add" /\ UNCHANGED <<rows, post, alone>>
        /\ work'[p].goneRows = work[p].goneRows /\ work'[p].day = work[p].day
    BY <1>9, AddSlotEffect DEF Turns
  <2>2. DaysEnd(p)' = DaysEnd(p)
    BY <2>1 DEF DaysEnd
  <2> QED
    BY <1>2, <1>5, <2>1, <2>2 DEF Weekly
<1>10. CASE NextDay(p)
  <2>1. /\ pc[p] = "add" /\ UNCHANGED <<rows, post, alone>>
        /\ work'[p].goneRows = work[p].goneRows
        /\ \/ pc'[p] = "clear" /\ work'[p].day = work[p].day + 1
           \/ pc'[p] = "commit" /\ work'[p].day = work[p].day /\ work[p].day = Job(p).until
    BY <1>10, NextDayEffect DEF Turns
  <2>2. DaysEnd(p)' = DaysEnd(p)
    BY <2>1 DEF DaysEnd
  <2> QED
    BY <1>2, <1>5, <2>1, <2>2 DEF Weekly
<1>11. CASE /\ pc'[p] = pc[p] /\ post'[p] = post[p] /\ work'[p] = work[p]
            /\ (UNCHANGED <<rows, orders>> /\ alone'[p] = alone[p]) \/ ~alone'[p]
  <2>1. Job(p)' = Job(p) /\ \A r : OfOldWeek(p, r)' <=> OfOldWeek(p, r)
    BY <1>11, Unmoved
  <2>2. DaysEnd(p)' = DaysEnd(p)
    BY <1>11 DEF DaysEnd
  <2> QED
    BY <1>2, <1>11, <2>1, <2>2 DEF Weekly
<1> HIDE DEF Done
<1> QED
  BY <1>1, <1>3, <1>4, <1>6, <1>7, <1>8, <1>9, <1>10, <1>11, OwnStep

\* Hours end as long after their day on every day.
LEMMA EndsAlike ==
  ASSUME TypeOK, PostTyped, NEW p \in Requests, Weekly(p), EndsByMorning(p),
         NEW d \in Nat, NEW i \in DOMAIN Hours(p, d)
  PROVE  Shift(p, d, i).end <= (d + 1) * DayLen + Night
<1>1. Hours(p, d) \in Seq(TimesOfDay) /\ Job(p) \in Weeks
  BY WeekKnown
<1>2. PICK w \in WeekDays : w = d % Week
  BY OnWeekDay
<1>3. Hours(p, d) = Job(p).week[w]
  BY <1>2 DEF Hours
<1>4. PICK t \in TimesOfDay : t = Hours(p, d)[i]
  BY <1>1
<1>5. Window(w, t).end <= (w + 1) * DayLen + Night
  BY <1>3, <1>4 DEF EndsByMorning
<1>6. w \in Int
  BY ScheduleAssumption DEF WeekDays
<1>7. /\ Window(w, t).end = w * DayLen + t.end + IF t.end <= t.start THEN DayLen ELSE 0
      /\ Window(d, t).end = d * DayLen + t.end + IF t.end <= t.start THEN DayLen ELSE 0
  BY <1>6, WindowBounds
<1>8. /\ (w + 1) * DayLen = w * DayLen + DayLen /\ (d + 1) * DayLen = d * DayLen + DayLen
      /\ w * DayLen \in Int /\ d * DayLen \in Int /\ DayLen \in Int /\ Night \in Int /\ t.end \in Int
  BY <1>6, DaysApart, ScheduleAssumption DEF TimesOfDay
<1>9. Window(d, t).end <= (d + 1) * DayLen + Night
  BY <1>5, <1>7, <1>8
<1> QED
  BY <1>4, <1>9 DEF Shift

\* Hours are gone through in order, and those that fit are added.
LEMMA FilledStep ==
  ASSUME TypeOK, PostTyped, Beside, Cleared, Filled, [Next]_vars
  PROVE  Filled'
<1> DEFINE OfWeek(p) ==
             \A n \in work[p].newRows :
               /\ n.start < DaysEnd(p)
               /\ Fits(p, Iv(n.start, n.end))
               /\ \E d \in Nat, i \in Nat : Reached(p, d, i) /\ Iv(n.start, n.end) = Shift(p, d, i)
           All(p) ==
             EndsByMorning(p) =>
               \A d \in Nat, i \in Nat : (Reached(p, d, i) /\ Fits(p, Shift(p, d, i))) =>
                 \E n \in work[p].newRows : Meets(Shift(p, d, i), Iv(n.start, n.end), 0)
<1>1. SUFFICES ASSUME NEW p \in Requests, pc'[p] \in {"clear", "add", "commit"}, alone'[p]
               PROVE  OfWeek(p)' /\ All(p)'
  BY DEF Filled
<1>2. (pc[p] \in {"clear", "add", "commit"} /\ alone[p]) => OfWeek(p) /\ All(p)
  BY DEF Filled
<1>3. CASE ArrivesSingle(p) \/ ArrivesWeek(p)
  BY <1>1, <1>3, ArrivesEffect
<1>4. CASE WipePatterns(p)
  BY <1>1, <1>4, WipePatternsEffect DEF Turns
<1>5. CASE SavePatterns(p)
  <2>1. /\ pc[p] = "save" /\ pc'[p] = "clear" /\ post' = post
        /\ work'[p].newRows = work[p].newRows /\ work'[p].day = work[p].day
    BY <1>5, SavePatternsEffect DEF Turns
  <2>2. work[p].newRows = {} /\ work[p].day = Job(p).from /\ Job(p).from \in Nat
    BY <2>1, WeekKnown DEF Cleared, Weekly
  <2>3. OfWeek(p)'
    BY <2>1, <2>2
  <2>4. \A d, i : ~Reached(p, d, i)'
    BY <2>1, <2>2 DEF Reached, Job
  <2> QED
    BY <2>3, <2>4
<1>6. CASE ClearDay(p)
  <2>1. /\ pc[p] = "clear" /\ pc'[p] = "add" /\ post' = post /\ UNCHANGED <<rows, orders, alone>>
        /\ work'[p].newRows = work[p].newRows \ DayRows(p)
        /\ work'[p].day = work[p].day /\ work'[p].slot = 1
    BY <1>6, ClearDayEffect DEF Turns
  <2>2. /\ Job(p)' = Job(p) /\ (EndsByMorning(p)' <=> EndsByMorning(p))
        /\ \A d, i : Hours(p, d)' = Hours(p, d) /\ Shift(p, d, i)' = Shift(p, d, i)
        /\ \A a : Fits(p, a)' <=> Fits(p, a)
    BY <2>1, Unmoved
  <2>3. OfWeek(p) /\ All(p)
    BY <1>1, <1>2, <2>1
  <2>4. /\ DaysEnd(p) = work[p].day * DayLen /\ DaysEnd(p)' = (work[p].day + 1) * DayLen
        /\ work[p].day \in Nat
    BY <2>1, WeekKnown DEF DaysEnd, Weekly
  <2>5. /\ work[p].day * DayLen \in Int /\ DayLen \in Nat
        /\ (work[p].day + 1) * DayLen = work[p].day * DayLen + DayLen
    BY <2>4, DaysApart, ScheduleAssumption
  <2>6. work'[p].newRows = work[p].newRows
    <3>1. \A n \in work[p].newRows : n \notin DayRows(p)
      BY <2>3, <2>4, <2>5 DEF DayRows, TypeOK, Row
    <3> QED
      BY <2>1, <3>1
  <2>7. \A d \in Nat, i \in Nat : Reached(p, d, i)' <=> Reached(p, d, i)
    <3>1. SUFFICES ASSUME NEW d \in Nat, NEW i \in Nat, i \in DOMAIN Hours(p, d)
                   PROVE  ~(i < 1)
      BY <2>1, <2>2 DEF Reached
    <3>2. Hours(p, d) \in Seq(TimesOfDay)
      BY <2>1, WeekKnown DEF Weekly
    <3> QED
      BY <3>1, <3>2
  <2>8. \A n \in work[p].newRows : n.start < DaysEnd(p)'
    BY <2>3, <2>4, <2>5 DEF TypeOK, Row
  <2> QED
    BY <2>2, <2>3, <2>6, <2>7, <2>8
<1>7. CASE AddSlot(p)
  <2> DEFINE day == work[p].day
             slot == work[p].slot
             a == Shift(p, day, slot)
             new == [res |-> post[p].res, start |-> a.start, end |-> a.end,
                     weekly |-> TRUE, by |-> p]
             wanted == /\ WithinCore(post[p].core, a)
                       /\ a.start >= post[p].now + Lead
                       /\ ~Conflict(Seen(p), post[p].res, a)
  <2>1. /\ pc[p] = "add" /\ pc'[p] = "add" /\ post' = post /\ UNCHANGED <<rows, orders, alone>>
        /\ slot \in DOMAIN Hours(p, day)
        /\ work'[p].newRows = work[p].newRows \cup {x \in {new} : wanted}
        /\ work'[p].day = day /\ work'[p].slot = slot + 1
        /\ a.start < a.end /\ a = Iv(a.start, a.end) /\ a.start \in Nat /\ a.end \in Nat
    BY <1>7, AddSlotEffect DEF Turns
  <2>2. /\ Job(p)' = Job(p) /\ (EndsByMorning(p)' <=> EndsByMorning(p))
        /\ \A d, i : Hours(p, d)' = Hours(p, d) /\ Shift(p, d, i)' = Shift(p, d, i)
        /\ \A b : Fits(p, b)' <=> Fits(p, b)
    BY <2>1, Unmoved
  <2>3. OfWeek(p) /\ All(p)
    BY <1>1, <1>2, <2>1
  <2>4. /\ Weekly(p) /\ day \in Nat /\ slot \in Nat \ {0} /\ work[p] \in Work
        /\ Job(p).from \in Nat /\ Job(p).until \in Nat
        /\ Job(p).from <= day /\ day <= Job(p).until
        /\ Hours(p, day) \in Seq(TimesOfDay)
    <3>1. Weekly(p)
      BY <2>1 DEF Weekly
    <3>2. /\ day \in Nat /\ work[p] \in Work /\ Job(p).from \in Nat /\ Job(p).until \in Nat
          /\ Job(p).from <= day /\ day <= Job(p).until
          /\ \A d \in Int : Hours(p, d) \in Seq(TimesOfDay)
      BY <3>1, WeekKnown
    <3>3. slot \in Nat \ {0}
      BY <3>2 DEF Work
    <3>4. Hours(p, day) \in Seq(TimesOfDay)
      BY <3>2
    <3> QED
      BY <3>1, <3>2, <3>3, <3>4
  <2>5. DaysEnd(p) = (day + 1) * DayLen /\ DaysEnd(p)' = DaysEnd(p)
    BY <2>1 DEF DaysEnd
  <2>6. day * DayLen <= a.start /\ a.start < DaysEnd(p)
    <3>1. Hours(p, day)[slot] \in TimesOfDay
      BY <2>1, <2>4
    <3>2. day * DayLen <= a.start /\ a.start < day * DayLen + DayLen
      BY <2>4, <3>1, WindowBounds DEF Shift
    <3> QED
      BY <2>4, <2>5, <3>2, DaysApart
  <2> HIDE DEF a, wanted
  <2>7. \A d \in Nat, i \in Nat :
          Reached(p, d, i)' <=> (Reached(p, d, i) \/ (d = day /\ i = slot))
    <3>1. SUFFICES ASSUME NEW d \in Nat, NEW i \in Nat
                   PROVE  Reached(p, d, i)' <=> (Reached(p, d, i) \/ (d = day /\ i = slot))
      OBVIOUS
    <3>2. i < slot + 1 <=> (i < slot \/ i = slot)
      BY <2>4
    <3>3. day \in Job(p).from .. Job(p).until
      BY <2>4
    <3> HIDE DEF day, slot
    <3> QED
      BY <2>1, <2>2, <3>2, <3>3 DEF Reached, day, slot
  \* What is kept is seen.
  <2>8. Kept(p) \subseteq Seen(p)
    BY <2>4 DEF Kept, Seen, Cleared, OfOldWeek
  <2>9. wanted => Fits(p, a)
    BY <2>8 DEF wanted, Fits, Conflict
  <2>10. OfWeek(p)'
    <3>1. SUFFICES ASSUME NEW n \in work'[p].newRows
                   PROVE  /\ n.start < DaysEnd(p)
                          /\ Fits(p, Iv(n.start, n.end))
                          /\ \E d \in Nat, i \in Nat :
                               Reached(p, d, i)' /\ Iv(n.start, n.end) = Shift(p, d, i)
      BY <2>2, <2>5
    <3>2. CASE n \in work[p].newRows
      BY <2>3, <2>7, <3>2
    <3>3. CASE n = new /\ wanted
      BY <2>1, <2>4, <2>6, <2>7, <2>9, <3>3 DEF a
    <3> QED
      BY <2>1, <3>1, <3>2, <3>3
  <2>11. All(p)'
    <3>1. SUFFICES ASSUME EndsByMorning(p), NEW d \in Nat, NEW i \in Nat,
                          Reached(p, d, i)', Fits(p, Shift(p, d, i))
                   PROVE  \E n \in work'[p].newRows : Meets(Shift(p, d, i), Iv(n.start, n.end), 0)
      BY <2>2
    <3>2. CASE Reached(p, d, i)
      BY <2>1, <2>3, <3>1, <3>2
    <3>3. CASE d = day /\ i = slot
      <4>1. Fits(p, a) /\ Shift(p, d, i) = a
        BY <3>1, <3>3 DEF a
      <4>2. CASE wanted
        <5>1. Meets(a, Iv(new.start, new.end), 0)
          BY <2>1 DEF Meets, Iv
        <5> QED
          BY <2>1, <4>1, <4>2, <5>1
      <4>3. CASE ~wanted
        <5>1. PICK r \in Seen(p) : r.res = post[p].res /\ Meets(r, a, 0)
          BY <4>1, <4>3 DEF wanted, Fits, Conflict
        <5>2. r.start \in Int /\ r.end \in Int
          BY <2>4 DEF Seen, TypeOK, Row, Work
        <5>3. r.start < a.end /\ Meets(a, Iv(r.start, r.end), 0)
          BY <2>1, <5>1, <5>2 DEF Meets, Iv
        <5>4. CASE r \in work[p].newRows
          BY <2>1, <4>1, <5>3, <5>4
        <5>5. CASE r \in rows /\ r \notin work[p].goneRows
          <6>1. r \notin Kept(p)
            BY <4>1, <5>1 DEF Fits, Conflict
          <6>2. OfOldWeek(p, r)
            BY <5>5, <6>1 DEF Kept, OfOldWeek
          <6>3. a.end <= (day + 1) * DayLen + Night
            BY <2>1, <2>4, <3>1, EndsAlike DEF a
          <6>4. r.start < DaysEnd(p) + Night
            <7>1. (day + 1) * DayLen \in Int /\ Night \in Int
              BY <2>4, DaysApart, ScheduleAssumption
            <7> HIDE DEF day
            <7> QED
              BY <2>1, <2>5, <5>2, <5>3, <6>3, <7>1
          <6>5. r \in work[p].goneRows
            BY <1>1, <2>1, <5>5, <6>2, <6>4 DEF Cleared
          <6> QED
            BY <5>5, <6>5
        <5> QED
          BY <5>1, <5>4, <5>5 DEF Seen
      <4> QED
        BY <4>2, <4>3
    <3> QED
      BY <2>7, <3>1, <3>2, <3>3
  <2> QED
    BY <2>10, <2>11
<1>8. CASE NextDay(p)
  <2>1. /\ pc[p] = "add" /\ post' = post /\ UNCHANGED <<rows, orders, alone>>
        /\ work'[p].newRows = work[p].newRows
        /\ work[p].slot \notin DOMAIN Hours(p, work[p].day)
        /\ \/ pc'[p] = "clear" /\ work'[p].day = work[p].day + 1
           \/ pc'[p] = "commit" /\ work'[p].day = work[p].day /\ work[p].day = Job(p).until
    BY <1>8, NextDayEffect DEF Turns
  <2>2. /\ Job(p)' = Job(p) /\ (EndsByMorning(p)' <=> EndsByMorning(p))
        /\ \A d, i : Hours(p, d)' = Hours(p, d) /\ Shift(p, d, i)' = Shift(p, d, i)
        /\ \A a : Fits(p, a)' <=> Fits(p, a)
    BY <2>1, Unmoved
  <2>3. OfWeek(p) /\ All(p)
    BY <1>1, <1>2, <2>1
  <2>4. DaysEnd(p)' = DaysEnd(p)
    BY <2>1 DEF DaysEnd
  <2>5. /\ work[p].day \in Nat /\ work[p].slot \in Nat \ {0}
        /\ Job(p).from \in Nat /\ Job(p).until \in Nat
        /\ Hours(p, work[p].day) \in Seq(TimesOfDay)
    BY <2>1, WeekKnown DEF Weekly, Work
  <2>6. \A i \in DOMAIN Hours(p, work[p].day) : i < work[p].slot
    BY <2>1, <2>5
  <2>7. \A d \in Nat, i \in Nat : Reached(p, d, i)' <=> Reached(p, d, i)
    <3>1. SUFFICES ASSUME NEW d \in Nat, NEW i \in Nat,
                          d \in Job(p).from .. Job(p).until, i \in DOMAIN Hours(p, d)
                   PROVE  Reached(p, d, i)' <=> Reached(p, d, i)
      BY <2>2 DEF Reached
    <3>2. Reached(p, d, i) <=> (d < work[p].day \/ d = work[p].day)
      BY <2>1, <2>6, <3>1 DEF Reached
    <3>3. CASE pc'[p] = "clear"
      <4>1. Reached(p, d, i)' <=> d < work[p].day + 1
        BY <2>1, <2>2, <3>1, <3>3 DEF Reached
      <4> QED
        BY <2>5, <3>2, <4>1
    <3>4. CASE pc'[p] = "commit"
      <4>1. Reached(p, d, i)' /\ work[p].day = Job(p).until
        BY <2>1, <2>2, <3>1, <3>4 DEF Reached
      <4> QED
        BY <2>5, <3>1, <3>2, <4>1
    <3> QED
      BY <2>1, <3>3, <3>4
  <2> QED
    BY <2>1, <2>2, <2>3, <2>4, <2>7
<1>9. CASE /\ pc'[p] = pc[p] /\ post'[p] = post[p] /\ work'[p] = work[p]
           /\ (UNCHANGED <<rows, orders>> /\ alone'[p] = alone[p]) \/ ~alone'[p]
  <2>1. /\ Job(p)' = Job(p) /\ (EndsByMorning(p)' <=> EndsByMorning(p))
        /\ \A d, i : Hours(p, d)' = Hours(p, d) /\ Shift(p, d, i)' = Shift(p, d, i)
        /\ \A a : Fits(p, a)' <=> Fits(p, a)
    BY <1>1, <1>9, Unmoved
  <2>2. OfWeek(p) /\ All(p)
    BY <1>1, <1>2, <1>9
  <2>3. DaysEnd(p)' = DaysEnd(p) /\ \A d, i : Reached(p, d, i)' <=> Reached(p, d, i)
    BY <1>9, <2>1 DEF DaysEnd, Reached
  <2> QED
    BY <1>9, <2>1, <2>2, <2>3
<1>10. p \in Open'
  BY <1>1 DEF Open
<1> HIDE DEF OfWeek, All
<1> QED
  BY <1>3, <1>4, <1>5, <1>6, <1>7, <1>8, <1>9, <1>10, OwnStep

---------------------------------------------------------------------------
(* Theorems *)

\* There is nobody and nothing but the old rows.
LEMMA InitIInv == Init => IInv
<1> SUFFICES ASSUME Init
             PROVE  IInv
  OBVIOUS
<1>1. /\ core \in Cores /\ now = 0 /\ rows \subseteq OldRows /\ patterns = {} /\ orders = {}
      /\ post = [p \in Requests |-> None] /\ pc = [p \in Requests |-> "idle"]
      /\ work = [p \in Requests |-> NoWork] /\ beside = [p \in Requests |-> {}]
      /\ alone = [p \in Requests |-> TRUE]
  BY DEF Init
<1>2. NoWork \in Work
  BY DEF NoWork, Work
<1>3. /\ \A r \in rows : r \in Row /\ r.start < r.end /\ r.by = None
      /\ \A a, b \in rows : a # b /\ a.res = b.res => ~Meets(a, b, 0)
  BY <1>1, ScheduleAssumption
<1>4. Open = {} /\ \A p \in Requests : pc[p] = "idle"
  BY <1>1 DEF Open
<1>5. work \in [Requests -> Work] /\ \A p \in Requests : work[p] = NoWork
  BY <1>1, <1>2
<1>6. TypeOK
  <2>1. now \in 0 .. Latest
    BY <1>1, ScheduleAssumption
  <2>2. \A p \in Requests :
          /\ work[p].goneRows \subseteq Row /\ work[p].newRows \subseteq Row
          /\ work[p].gonePatterns \subseteq Pattern /\ work[p].newPatterns \subseteq Pattern
    BY <1>5 DEF Work
  <2> QED
    BY <1>1, <1>3, <2>1, <2>2 DEF TypeOK
<1>7. PostTyped
  BY <1>1, <1>4, <1>5 DEF PostTyped, Weekly
<1>8. Beside /\ RowsMade /\ PendingFree /\ RowsApart
  BY <1>1, <1>3, <1>4 DEF Beside, RowsMade, PendingFree, RowsApart
<1>9. PatternsHeld /\ Cleared /\ Filled
  BY <1>4 DEF PatternsHeld, Cleared, Filled, Weekly
<1> QED
  BY <1>6, <1>7, <1>8, <1>9 DEF IInv

\* The invariant holds in every state.
THEOREM Invariance == Spec => []IInv
<1>1. IInv /\ [Next]_vars => IInv'
  BY TypeStep, PostTypedStep, BesideStep, RowsMadeStep, PendingFreeStep, RowsApartStep,
     PatternsHeldStep, ClearedStep, FilledStep DEF IInv
<1> QED
  BY <1>1, InitIInv, PTL DEF Spec

\* Every variable has its type, whatever is asked for and in whatever order statements run.
THEOREM TypeCorrect == Spec => []TypeOK
<1>1. IInv => TypeOK
  BY DEF IInv
<1> QED
  BY <1>1, Invariance, PTL

\* Shifts of one resource overlap only when two requests made them that were handled
\* at the same time (create_single_availability, create_recurring_availability).
THEOREM RowsApartHolds == Spec => []RowsApart
<1>1. IInv => RowsApart
  BY DEF IInv
<1> QED
  BY <1>1, Invariance, PTL

\* Only the commit of a week takes its request from "commit" to "done".
LEMMA Committed ==
  ASSUME IInv, [Next]_vars, NEW p \in Requests, pc[p] = "commit", pc'[p] = "done"
  PROVE  CommitWeek(p)
<1>1. TypeOK /\ PostTyped
  BY DEF IInv
<1>2. ASSUME NEW q \in Requests \ {p},
             ArrivesSingle(q) \/ ArrivesWeek(q) \/ Inside(q) \/ Ends(q)
      PROVE  pc'[p] = pc[p]
  BY <1>1, <1>2, ArrivesEffect DEF Inside, Ends, TypeOK
<1>3. ASSUME Aside
      PROVE  pc'[p] = pc[p]
  BY <1>3 DEF Aside
<1>4. ASSUME NEW q \in Requests \ {p},
             \/ AskSingle(q) \/ InsertSingle(q)
             \/ AskWeek(q) \/ WipePatterns(q) \/ SavePatterns(q) \/ SaveRepeats(q)
             \/ ClearDay(q) \/ AddSlot(q) \/ NextDay(q) \/ CommitWeek(q)
      PROVE  FALSE
  <2>1. ArrivesSingle(q) \/ ArrivesWeek(q) \/ Inside(q) \/ Ends(q)
    BY <1>1, <1>4, AskSingleEffect, AskWeekEffect, InsideEffect, InsertSingleEffect,
       SaveRepeatsEffect, CommitWeekEffect
  <2> QED
    BY <1>2, <2>1
<1>5. CASE \/ AskSingle(p) \/ InsertSingle(p)
           \/ AskWeek(p) \/ WipePatterns(p) \/ SavePatterns(p) \/ SaveRepeats(p)
           \/ ClearDay(p) \/ AddSlot(p) \/ NextDay(p) \/ CommitWeek(p)
  BY <1>5 DEF AskSingle, AskWeek, Arrive, InsertSingle, WipePatterns, SavePatterns, SaveRepeats,
              ClearDay, AddSlot, NextDay
<1> QED
  BY <1>1, <1>3, <1>4, <1>5, AsideEffect DEF Next

\* The form shows a week as it was last saved; hours of another week are mixed into it
\* only when that one was saved at the same time (get_recurring_config).
THEOREM FormShowsSavedHolds == Spec => FormShowsSaved
<1> DEFINE Shown(p) ==
      \A d \in WeekDays : \E res \in {post[p].res} :
        LET wanted == {Iv(x.start, x.end) : x \in {y \in Asked(p) : y.day = d}} IN
          /\ wanted \subseteq FormHours(res, d)'
          /\ beside[p] = {} => FormHours(res, d)' = wanted
<1>1. ASSUME IInv, [Next]_vars, NEW p \in Requests, pc[p] = "commit", pc'[p] = "done",
             Asked(p) # {}
      PROVE  Shown(p)
  <2>1. patterns' = (patterns \ work[p].gonePatterns) \cup Asked(p)
    BY <1>1, Committed DEF CommitWeek, IInv, PatternsHeld
  <2>2. \A x \in Asked(p) : x.res = post[p].res
    BY <1>1, AskedType DEF IInv, Weekly
  <2>3. ASSUME NEW d \in WeekDays, NEW res, res = post[p].res
        PROVE  LET wanted == {Iv(x.start, x.end) : x \in {y \in Asked(p) : y.day = d}} IN
                 /\ wanted \subseteq FormHours(res, d)'
                 /\ beside[p] = {} => FormHours(res, d)' = wanted
    <3>1. \E x \in patterns' : x.res = res
      BY <1>1, <2>1, <2>2, <2>3
    <3>2. FormHours(res, d)' =
            {Iv(x.start, x.end) : x \in {y \in patterns' : y.res = res /\ y.day = d}}
      BY <3>1 DEF FormHours
    <3>3. {y \in Asked(p) : y.day = d} \subseteq {y \in patterns' : y.res = res /\ y.day = d}
      BY <2>1, <2>2, <2>3
    <3>4. beside[p] = {} =>
            {y \in Asked(p) : y.day = d} = {y \in patterns' : y.res = res /\ y.day = d}
      <4>1. SUFFICES ASSUME beside[p] = {}
                     PROVE  {y \in patterns' : y.res = res /\ y.day = d} \subseteq Asked(p)
        BY <3>3
      <4>2. {x \in patterns : x.res = res} \subseteq work[p].gonePatterns
        BY <1>1, <2>3, <4>1 DEF IInv, PatternsHeld
      <4> QED
        BY <2>1, <4>2
    <3> QED
      BY <3>2, <3>3, <3>4
  <2>4. post[p].res \in {post[p].res}
    OBVIOUS
  <2> QED
    BY <2>3, <2>4
<1>2. IInv /\ [Next]_vars =>
        [\A p \in Requests : (pc[p] = "commit" /\ pc'[p] = "done" /\ Asked(p) # {}) => Shown(p)]_vars
  BY <1>1
<1> QED
  BY <1>2, Invariance, PTL DEF Spec, FormShowsSaved

\* A week saved undisturbed leaves what is not part of the old week as it was and adds
\* every shift the new week asks for that is open, in time and free
\* (create_recurring_availability).
THEOREM WeekTakesEffectHolds == Spec => WeekTakesEffect
<1> DEFINE Made(p) == {Iv(r.start, r.end) : r \in rows' \ Kept(p)}
           Takes(p) == /\ Kept(p) \subseteq rows'
                       /\ Made(p) \subseteq Wanted(p)
                       /\ \A a \in Wanted(p) \ Made(p) : \E b \in Made(p) : Meets(a, b, 0)
<1>1. ASSUME IInv, [Next]_vars, NEW p \in Requests, pc[p] = "commit", pc'[p] = "done",
             alone[p], EndsByMorning(p)
      PROVE  Takes(p)
  <2>1. rows' = (rows \ work[p].goneRows) \cup work[p].newRows
    BY <1>1, Committed DEF CommitWeek, Seen
  <2>2. /\ TypeOK /\ PostTyped /\ Weekly(p) /\ p \in Open
        /\ post[p].core \in Cores /\ post[p].now \in Nat /\ work[p] \in Work
        /\ Job(p).from \in Nat /\ Job(p).until \in Nat /\ work[p].day = Job(p).until
        /\ \A d \in Int : Hours(p, d) \in Seq(TimesOfDay)
    <3>1. TypeOK /\ PostTyped /\ Weekly(p) /\ p \in Open /\ work[p].day = Job(p).until
      BY <1>1 DEF IInv, Weekly, Cleared, Open
    <3>2. post[p] \in Post
      BY <3>1 DEF PostTyped
    <3>3. post[p].core \in Cores /\ post[p].now \in Nat
      BY <3>2 DEF Post
    <3>4. QED
      BY <3>1, <3>3, WeekKnown
  <2>3. \A r \in work[p].goneRows : OfOldWeek(p, r)
    BY <1>1, <2>2 DEF IInv, Cleared
  <2>4. \A r \in rows : OfOldWeek(p, r) => r \in work[p].goneRows
    <3>1. DaysEnd(p) = (Job(p).until + 1) * DayLen
      BY <1>1, <2>2 DEF DaysEnd
    <3> QED
      BY <1>1, <3>1 DEF IInv, Cleared, OfOldWeek
  <2>5. Kept(p) = rows \ work[p].goneRows
    BY <2>3, <2>4 DEF Kept, OfOldWeek
  <2>6. /\ \A n \in work[p].newRows :
             /\ Fits(p, Iv(n.start, n.end))
             /\ \E d \in Nat, i \in Nat : Reached(p, d, i) /\ Iv(n.start, n.end) = Shift(p, d, i)
        /\ \A d \in Nat, i \in Nat : (Reached(p, d, i) /\ Fits(p, Shift(p, d, i))) =>
             \E n \in work[p].newRows : Meets(Shift(p, d, i), Iv(n.start, n.end), 0)
    BY <1>1 DEF IInv, Filled
  <2>7. \A n \in work[p].newRows : n.res = post[p].res /\ n.start < n.end
    BY <1>1, <2>2 DEF IInv, PendingFree, Pending
  <2>8. \A n \in work[p].newRows : n \notin Kept(p)
    <3>1. SUFFICES ASSUME NEW n \in work[p].newRows, n \in Kept(p)
                   PROVE  FALSE
      OBVIOUS
    <3>2. ~Meets(n, Iv(n.start, n.end), 0)
      BY <2>6, <2>7, <3>1 DEF Fits, Conflict
    <3>3. n.start \in Int /\ n.end \in Int
      BY <2>2, <3>1 DEF Work, Row
    <3> QED
      BY <2>7, <3>1, <3>2, <3>3 DEF Meets, Iv
  <2>9. Made(p) = {Iv(n.start, n.end) : n \in work[p].newRows}
    BY <2>1, <2>5, <2>8
  \* Going through the hours or saying which are open comes to the same.
  <2>10. ASSUME NEW d \in Nat, NEW i \in DOMAIN Hours(p, d)
         PROVE  Fits(p, Shift(p, d, i)) <=>
                  /\ Shift(p, d, i).start >= post[p].now + Lead
                  /\ Opened(post[p].core, Shift(p, d, i))
                  /\ ~Conflict(Kept(p), post[p].res, Shift(p, d, i))
    <3> DEFINE a == Shift(p, d, i)
    <3>1. Hours(p, d)[i] \in TimesOfDay
      BY <2>2, <2>10
    <3>2. a.start \in Int /\ a.end \in Int /\ a.start < a.end /\ d * DayLen <= a.start
      BY <3>1, WindowBounds DEF Shift
    <3>3. d * DayLen \in Nat
      BY ScheduleAssumption
    <3> HIDE DEF a
    <3>4. a.start \in Nat
      BY <3>2, <3>3
    <3>5. WithinCore(post[p].core, a) <=> Opened(post[p].core, a)
      BY <2>2, <3>2, <3>4, OpenedOrNot
    <3> QED
      BY <3>5 DEF Fits, a
  <2>11. \A a : a \in Wanted(p) <=>
           \E d \in Nat, i \in Nat : Reached(p, d, i) /\ a = Shift(p, d, i) /\ Fits(p, a)
    <3>1. \A d \in Job(p).from .. Job(p).until : d \in Nat
      BY <2>2
    <3>2. ASSUME NEW d \in Nat, NEW i \in DOMAIN Hours(p, d)
          PROVE  i \in Nat
      <4>1. Hours(p, d) \in Seq(TimesOfDay)
        BY <2>2
      <4> QED
        BY <4>1
    <3>3. \A d \in Nat, i \in Nat :
            Reached(p, d, i) <=> d \in Job(p).from .. Job(p).until /\ i \in DOMAIN Hours(p, d)
      BY <1>1 DEF Reached
    <3>4. \A a : a \in Wanted(p) <=>
            /\ \E d \in Job(p).from .. Job(p).until : \E i \in DOMAIN Hours(p, d) : a = Shift(p, d, i)
            /\ a.start >= post[p].now + Lead
            /\ Opened(post[p].core, a)
            /\ ~Conflict(Kept(p), post[p].res, a)
      BY DEF Wanted, Shift
    <3> QED
      BY <2>10, <3>1, <3>2, <3>3, <3>4
  <2>12. Kept(p) \subseteq rows'
    BY <2>1, <2>5
  <2>13. Made(p) \subseteq Wanted(p)
    BY <2>6, <2>9, <2>11
  <2>14. ASSUME NEW a \in Wanted(p)
         PROVE  \E b \in Made(p) : Meets(a, b, 0)
    <3>1. PICK n \in work[p].newRows : Meets(a, Iv(n.start, n.end), 0)
      BY <2>6, <2>11
    <3>2. Iv(n.start, n.end) \in Made(p)
      BY <2>9
    <3> QED
      BY <3>1, <3>2
  <2> QED
    BY <2>12, <2>13, <2>14
<1>2. IInv /\ [Next]_vars =>
        [\A p \in Requests :
           (pc[p] = "commit" /\ pc'[p] = "done" /\ alone[p] /\ EndsByMorning(p)) => Takes(p)]_vars
  <2> HIDE DEF Takes
  <2> QED
    BY <1>1
<1> QED
  BY <1>2, Invariance, PTL DEF Spec, WeekTakesEffect

=============================================================================
