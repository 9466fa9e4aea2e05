------------------------------ MODULE SlotOffers ------------------------------
(***************************************************************************)
(* What is offered for booking, and what is accepted.  Three places cut    *)
(* the bookings out of a resource's availability, each in its own way:     *)
(*   - PublicBookingAvailabilityApi, for the public booking page;          *)
(*   - list_events, mode "raw", for the calendars of System A and B;       *)
(*   - list_events, mode "search", for one interval;                       *)
(* System A passes the last two on to its pages, after a filter of its own, *)
(* and create_confirmed_booking_with_lock decides by itself.  They agree   *)
(* only if all these comparisons do.  Here each answer is evaluated on     *)
(* one state of the tables; BookingCreate says what happens in between.    *)
(***************************************************************************)
EXTENDS Integers, FiniteSets, FiniteSetsExt

CONSTANTS
  Shifts,      \* Availability rows there may be: an id and an interval
  Latest,      \* bound of the model: the last instant considered
  Durations,   \* lengths of services
  Courses,     \* those of them the cast offers at System A
  Lead,        \* 24 hours
  Window,      \* booking_window_days
  Limit,       \* 300: rows the booking page reads
  Buffer,      \* 30 minutes
  MinSlot,     \* MIN_SLOT_SECONDS, 30 minutes
  MaxBookings  \* bound of the model

Times == 0 .. Latest

ASSUME SlotAssumption ==
  /\ Latest \in Nat
  /\ \A s \in Shifts : s.start \in Times /\ s.end \in Times /\ s.start < s.end
  /\ Durations \subseteq Nat \ {0} /\ Courses \subseteq Durations
  /\ Lead \in Nat /\ Window \in Nat /\ Limit \in Nat /\ Buffer \in Nat /\ MinSlot \in Nat \ {0}

VARIABLES
  shifts,    \* availability rows of the resource
  bookings,  \* its confirmed bookings
  now

offerVars == <<shifts, bookings, now>>

Iv(s, e)   == [start |-> s, end |-> e]
Asks       == {Iv(s, s + d) : s \in Times, d \in Durations}
Later(a, b)  == IF a < b THEN b ELSE a
Earlier(a, b) == IF a < b THEN a ELSE b

Meets(a, b, gap)  == a.start < b.end + gap /\ a.end > b.start - gap
Contains(a, b)    == a.start <= b.start /\ b.end <= a.end
Conflicts(r, gap) == {b \in bookings : Meets(b, r, gap)}

---------------------------------------------------------------------------
(* Acceptance: create_confirmed_booking_with_lock, and the 24 hours that    *)
(* the public API and System A's booking form ask for before it             *)

Accepts(r) ==
  /\ r.start < r.end
  /\ \E s \in shifts : Contains(s, r)
  /\ Conflicts(r, Buffer) = {}

PublicAccepts(r) == r.start >= now + Lead /\ Accepts(r)

---------------------------------------------------------------------------
(* PublicBookingAvailabilityApi.get *)

\* Wrong on purpose: no buffer after the booking.
BlockedBefore(b) == Iv(b.start - Buffer, b.end)

Blocked(b) == Iv(b.start - Buffer, b.end + Buffer)

\* Wrong on purpose: what is left after the hole is forgotten.
CutTail(b, segments) ==
  LET hole   == Blocked(b)
      kept   == {g \in segments : hole.end <= g.start \/ hole.start >= g.end}
  IN  kept \cup {Iv(g.start, hole.start) : g \in {h \in segments \ kept : h.start < hole.start}}

PublicCut(b, segments) ==
  LET hole   == Blocked(b)
      kept   == {g \in segments : hole.end <= g.start \/ hole.start >= g.end}
      struck == segments \ kept
  IN  kept
      \cup {Iv(g.start, hole.start) : g \in {h \in struck : h.start < hole.start}}
      \cup {Iv(hole.end, g.end)     : g \in {h \in struck : hole.end < h.end}}

\* The rows that reach into the time that can be booked.
Open == {s \in shifts : s.end > now + Lead /\ s.start < now + Window}

\* Of these the first Limit by start_time are read, rows that start together in any order.
Pages ==
  {rows \in SUBSET Open :
     /\ Cardinality(rows) = Earlier(Limit, Cardinality(Open))
     /\ \A s \in rows, t \in Open \ rows : s.start <= t.start}

\* What is offered of the rows that were read.
PublicSlots(rows) ==
  LET deadline == now + Lead
      horizon  == now + Window
      held == {b \in bookings : b.start < horizon + Buffer /\ b.end > deadline - Buffer}
      clipped(s) == Iv(Later(s.start, deadline), Earlier(s.end, horizon))
  IN  {g \in UNION {FoldSet(PublicCut, {clipped(s)}, held) : s \in rows} : g.start < g.end}

---------------------------------------------------------------------------
(* list_events *)

\* Wrong on purpose: the search forgets the buffer.
SearchNoBuffer(r) ==
  /\ r.start >= now + Lead
  /\ \E s \in shifts : Contains(s, r)
  /\ Conflicts(r, 0) = {}

SearchFinds(r) ==
  /\ r.start >= now + Lead
  /\ \E s \in shifts : Contains(s, r)
  /\ Conflicts(r, Buffer) = {}

\* client.check_availability: the answer is the interval itself, or nothing.
Searched(r) == {r} \cap {q \in Asks : SearchFinds(q)}

\* CastSearchAPI lists a cast who offers courses of that length and has a slot
\* around the time.
Found(r) == r.end - r.start \in Courses /\ \E s \in Searched(r) : Contains(s, r)

EventCut(b, segments) ==
  LET part(g) == Iv(Later(g.start, b.start - Buffer), Earlier(g.end, b.end + Buffer))
      met     == {g \in segments : part(g).start < part(g).end}
  IN  (segments \ met)
      \cup {Iv(g.start, part(g).start) : g \in {h \in met : h.start < part(h).start}}
      \cup {Iv(part(g).end, g.end)     : g \in {h \in met : part(h).end < h.end}}

\* Wrong on purpose: only the bookings inside the range are read.
EventsOfRange(range) ==
  LET deadline == now + Lead
      rows == {s \in shifts : Meets(s, range, 0) /\ s.end > deadline}
      held == {b \in bookings : Meets(b, range, 0)}
      cut(s) == FoldSet(EventCut, {Iv(s.start, s.end)}, {b \in held : Meets(b, s, Buffer)})
      late(g) == Iv(Later(g.start, deadline), g.end)
  IN  {g \in {late(h) : h \in UNION {cut(s) : s \in rows}} : g.end - g.start >= MinSlot}

\* The bookings read for a range of the calendar: up to an hour, two buffers, around it.
Held(range) == {b \in bookings : Meets(b, range, 2 * Buffer)}

\* The availability events of mode "raw" for a range of the calendar.
Events(range) ==
  LET deadline == now + Lead
      rows == {s \in shifts : Meets(s, range, 0) /\ s.end > deadline}
      cut(s) == FoldSet(EventCut, {Iv(s.start, s.end)}, {b \in Held(range) : Meets(b, s, Buffer)})
      late(g) == Iv(Later(g.start, deadline), g.end)
  IN  {g \in {late(h) : h \in UNION {cut(s) : s \in rows}} : g.end - g.start >= MinSlot}

\* AvailabilityAPIView.get: what System A's calendar shows, the bookings to the
\* cast alone.
Shown(range, owner) == {b \in Held(range) : owner} \cup Events(range)

---------------------------------------------------------------------------
(* Requests *)

\* create_single_availability, in a FLEX_SHIFT store
AddShift(s) ==
  /\ s.start >= now + Lead
  /\ \A t \in shifts : ~Meets(t, s, 0)
  /\ Conflicts(s, Buffer) = {}
  /\ shifts' = shifts \cup {s}
  /\ UNCHANGED <<bookings, now>>

DeleteShift(s) ==
  /\ shifts' = shifts \ {s}
  /\ UNCHANGED <<bookings, now>>

\* The integration API accepts what the public one does and shorter notice.
Book(r) ==
  /\ Cardinality(bookings) < MaxBookings
  /\ Accepts(r)
  /\ bookings' = bookings \cup {r}
  /\ UNCHANGED <<shifts, now>>

\* _save_core_time_order: no availability, no conflict is looked at.
CoreOrder(r) ==
  /\ Cardinality(bookings) < MaxBookings
  /\ bookings' = bookings \cup {r}
  /\ UNCHANGED <<shifts, now>>

CloseBooking(b) ==
  /\ bookings' = bookings \ {b}
  /\ UNCHANGED <<shifts, now>>

Tick ==
  /\ now < Latest
  /\ now' = now + 1
  /\ UNCHANGED <<shifts, bookings>>

\* Rows may overlap: create_single_availability checks before it inserts.
OfferInit == shifts \in SUBSET Shifts /\ IsFiniteSet(shifts) /\ bookings = {} /\ now = 0

OfferNext ==
  \/ \E s \in Shifts : AddShift(s)
  \/ \E s \in shifts : DeleteShift(s)
  \/ \E r \in Asks : Book(r) \/ CoreOrder(r)
  \/ \E b \in bookings : CloseBooking(b)
  \/ Tick

OfferSpec == OfferInit /\ [][OfferNext]_offerVars

---------------------------------------------------------------------------
(* Properties *)

\* Whatever start the booking page lets a customer choose inside an offered
\* slot, the creation accepts it (public_views.py:182-231, services.py:42-64).
OfferedIsBookable ==
  \A rows \in Pages : \A g \in PublicSlots(rows), r \in Asks :
    Contains(g, r) => PublicAccepts(r)

\* Behind is a row with Limit others that start no later: the page need not read it.
Behind(s) == Cardinality({t \in Open \ {s} : t.start <= s.start}) >= Limit

\* What could be booked within the booking window is offered, unless each row that has
\* room for it is one the page does not read, because at least 300 others start no later.
BookableIsOffered ==
  \A rows \in Pages, r \in Asks :
    (PublicAccepts(r) /\ r.end <= now + Window) =>
      \/ \E g \in PublicSlots(rows) : Contains(g, r)
      \/ \A s \in shifts : Contains(s, r) => Behind(s)

\* System A's search finds a cast exactly when the booking that follows, of a course
\* she offers, is accepted by System B (accounts/views.py:1112-1144,
\* schedule_service.py:206-232, services.py:42-64).
SearchAgrees ==
  \A r \in Asks : Found(r) <=> r.end - r.start \in Courses /\ PublicAccepts(r)

Ranges == {Iv(a, b) : a \in Times, b \in Times}

\* Inside the range it was asked for, a customer's calendar at System A shows as free
\* exactly what can be booked, apart from gaps shorter than half an hour, and the
\* cast's shows her bookings besides (accounts/views.py:769-856, schedule_service.py:234-320).
CalendarAgrees ==
  \A range \in {i \in Ranges : i.start < i.end} :
    /\ \A r \in {q \in Asks : Contains(range, q) /\ q.end - q.start >= MinSlot} :
         PublicAccepts(r) <=> \E g \in Shown(range, FALSE) : Contains(g, r)
    /\ {b \in bookings : Meets(b, range, 0)} \subseteq Shown(range, TRUE)

=============================================================================
