------------------------------ MODULE BookingLifecycle ------------------------------
(***************************************************************************)
(* What happens to one booking after it is created.  Each handler is two   *)
(* steps of one request: it reads the row and decides, then it writes,     *)
(* with no lock and no transaction around the two.  Another request can    *)
(* write in between, and what is written depends on how the handler saves: *)
(*   - save(update_fields=[..]) updates those columns, and fails when the  *)
(*     row is gone;                                                        *)
(*   - booking.save() writes back every column as it was read, and inserts *)
(*     the row again when it is gone;                                      *)
(*   - F("count") + 1 is evaluated by the database, on the current row.    *)
(***************************************************************************)
EXTENDS Integers

CONSTANTS
  Handlers,   \* requests about the booking
  Start,      \* hour at which the booked time starts
  Window,     \* the tenant's cancellation_window_hours
  Absent      \* no row, no request

AdminWindow == 2   \* the hours DashboardBookingActionApi requires

Statuses == {"CONFIRMED", "CANCELLED", "CANCELLED_BY_ADMIN", "COMPLETED"}
Roles    == {"customer", "cast"}

\* Requests the customer makes with the access token, which the creation of a
\* public or integration booking issues and that of a core-time order does not.
CustomerKinds == {"publicCancel", "customerReport"}
CoreKinds     == {"coreEdit", "coreDelete"}
StaffKinds    == {"dashCancel", "adminCancel", "complete", "castReport",
                  "apiDelete", "apiComplete"}
Kinds         == CustomerKinds \cup CoreKinds \cup StaffKinds

\* What a request reads and writes of a booking.
Row == [status : Statuses, count : [Roles -> Nat]]

ASSUME LifecycleAssumption ==
  /\ Start \in Nat
  /\ Window \in Nat \ {0}
  /\ Absent \notin Kinds /\ Absent \notin Row

VARIABLES
  coreTime,  \* booking_type = "CORE_TIME"
  booking,   \* the committed row, or Absent once deleted
  reports,   \* number of BookingReport rows of each role
  now,       \* the hour
  kind,      \* what each request asks for
  seen,      \* the row as the request read it, Absent before
  answer,    \* "none", "notFound", "refused", "ok" or "error"
  mails      \* cancellation mails enqueued

lifeVars == <<coreTime, booking, reports, now, kind, seen, answer, mails>>

---------------------------------------------------------------------------
TooLate(hours) == Start - now < hours

Refused(k) ==
  CASE k = "publicCancel" -> booking.status # "CONFIRMED" \/ TooLate(Window)
    [] k = "apiDelete"    -> TooLate(Window)
    [] k = "dashCancel"   -> TooLate(AdminWindow)
    [] k \in {"adminCancel", "complete", "apiComplete"} -> booking.status # "CONFIRMED"
    [] OTHER -> FALSE

Answered(h, a) == answer' = [answer EXCEPT ![h] = a]

\* The request arrives, reads the row and is decided on what it read.
Read(h) ==
  \E k \in StaffKinds \cup (IF coreTime THEN CoreKinds ELSE CustomerKinds) :
    /\ kind[h] = Absent
    /\ kind' = [kind EXCEPT ![h] = k]
    /\ \/ booking = Absent /\ Answered(h, "notFound") /\ UNCHANGED seen
       \/ booking # Absent /\ Refused(k) /\ Answered(h, "refused") /\ UNCHANGED seen
       \/ booking # Absent /\ ~Refused(k) /\ seen' = [seen EXCEPT ![h] = booking] /\ UNCHANGED answer
    /\ UNCHANGED <<coreTime, booking, reports, now, mails>>

Deciding(h, kinds) == kind[h] \in kinds /\ seen[h] # Absent /\ answer[h] = "none"

\* save(update_fields=[..]) of a row deleted since raises DatabaseError.
SaveFails(h) ==
  /\ Deciding(h, Kinds \ {"apiDelete", "apiComplete", "coreDelete"})
  /\ booking = Absent
  /\ Answered(h, "error")
  /\ UNCHANGED <<coreTime, booking, reports, now, kind, seen, mails>>

\* Wrong on purpose: update_fields does not name the status.
SaveOtherFields(h, s) ==
  /\ booking # Absent
  /\ Answered(h, "ok")
  /\ UNCHANGED <<coreTime, booking, reports, now, kind, seen>>

SaveStatus(h, s) ==
  /\ booking # Absent
  /\ booking' = [booking EXCEPT !.status = s]
  /\ Answered(h, "ok")
  /\ UNCHANGED <<coreTime, reports, now, kind, seen>>

\* A mail is enqueued only when the resource has an address.
PublicCancel(h) ==
  /\ Deciding(h, {"publicCancel"})
  /\ SaveStatus(h, "CANCELLED")
  /\ mails' \in {mails, mails + 1}

DashboardCancel(h) ==
  \/ Deciding(h, {"dashCancel"}) /\ SaveStatus(h, "CANCELLED") /\ UNCHANGED mails
  \/ Deciding(h, {"adminCancel"}) /\ SaveStatus(h, "CANCELLED_BY_ADMIN") /\ UNCHANGED mails

DashboardComplete(h) ==
  Deciding(h, {"complete"}) /\ SaveStatus(h, "COMPLETED") /\ UNCHANGED mails

\* IntegrationBookingView.patch: the whole row, as it was read.
ApiComplete(h) ==
  /\ Deciding(h, {"apiComplete"})
  /\ booking' = [seen[h] EXCEPT !.status = "COMPLETED"]
  /\ Answered(h, "ok")
  /\ UNCHANGED <<coreTime, reports, now, kind, seen, mails>>

\* The reports go with the row (on_delete=CASCADE); deleting a row that is
\* already gone is no error and is announced again.
ApiDelete(h) ==
  /\ Deciding(h, {"apiDelete"})
  /\ booking' = Absent
  /\ reports' = [r \in Roles |-> 0]
  /\ Answered(h, "ok")
  /\ mails' = mails + 1
  /\ UNCHANGED <<coreTime, now, kind, seen>>

\* Wrong on purpose: the count is read, incremented and written.
ReportReadCount(h) ==
  LET r == IF kind[h] = "customerReport" THEN "customer" ELSE "cast" IN
    /\ Deciding(h, {"customerReport", "castReport"})
    /\ booking # Absent
    /\ reports' = [reports EXCEPT ![r] = @ + 1]
    /\ booking' = [booking EXCEPT !.count[r] = seen[h].count[r] + 1]
    /\ Answered(h, "ok")
    /\ UNCHANGED <<coreTime, now, kind, seen, mails>>

\* Wrong on purpose: the whole row is written back with the count.
ReportWholeRow(h) ==
  LET r == IF kind[h] = "customerReport" THEN "customer" ELSE "cast" IN
    /\ Deciding(h, {"customerReport", "castReport"})
    /\ booking # Absent
    /\ reports' = [reports EXCEPT ![r] = @ + 1]
    /\ booking' = [seen[h] EXCEPT !.count[r] = booking.count[r] + 1]
    /\ Answered(h, "ok")
    /\ UNCHANGED <<coreTime, now, kind, seen, mails>>

\* One transaction: insert the report, count = F(count) + 1.
Report(h) ==
  LET r == IF kind[h] = "customerReport" THEN "customer" ELSE "cast" IN
    /\ Deciding(h, {"customerReport", "castReport"})
    /\ booking # Absent
    /\ reports' = [reports EXCEPT ![r] = @ + 1]
    /\ booking' = [booking EXCEPT !.count[r] = @ + 1]
    /\ Answered(h, "ok")
    /\ UNCHANGED <<coreTime, now, kind, seen, mails>>

\* Saving a core-time order confirms it again, whatever its status.
CoreEdit(h) == Deciding(h, {"coreEdit"}) /\ SaveStatus(h, "CONFIRMED") /\ UNCHANGED mails

\* filter(..).delete() tells how many rows it deleted.
CoreDelete(h) ==
  /\ Deciding(h, {"coreDelete"})
  /\ booking' = Absent
  /\ reports' = [r \in Roles |-> 0]
  /\ Answered(h, IF booking = Absent THEN "notFound" ELSE "ok")
  /\ UNCHANGED <<coreTime, now, kind, seen, mails>>

Tick ==
  /\ now < Start
  /\ now' = now + 1
  /\ UNCHANGED <<coreTime, booking, reports, kind, seen, answer, mails>>

---------------------------------------------------------------------------
LifeInit ==
  /\ coreTime \in BOOLEAN
  /\ booking = [status |-> "CONFIRMED", count |-> [r \in Roles |-> 0]]
  /\ reports = [r \in Roles |-> 0]
  /\ now = 0
  /\ kind = [h \in Handlers |-> Absent]
  /\ seen = [h \in Handlers |-> Absent]
  /\ answer = [h \in Handlers |-> "none"]
  /\ mails = 0

LifeNext ==
  \/ \E h \in Handlers :
       \/ Read(h) \/ SaveFails(h) \/ PublicCancel(h) \/ DashboardCancel(h)
       \/ DashboardComplete(h) \/ ApiComplete(h) \/ ApiDelete(h) \/ Report(h)
       \/ CoreEdit(h) \/ CoreDelete(h)
  \/ Tick

LifeSpec == LifeInit /\ [][LifeNext]_lifeVars

---------------------------------------------------------------------------
(* Properties *)

LifeTypeOK ==
  /\ coreTime \in BOOLEAN
  /\ booking \in Row \cup {Absent}
  /\ reports \in [Roles -> Nat]
  /\ now \in 0..Start
  /\ kind \in [Handlers -> Kinds \cup {Absent}]
  /\ seen \in [Handlers -> Row \cup {Absent}]
  /\ answer \in [Handlers -> {"none", "notFound", "refused", "ok", "error"}]
  /\ mails \in Nat

Confirmed == booking # Absent /\ booking.status = "CONFIRMED"

\* A booking of a public or integration request that is no longer confirmed
\* never becomes confirmed again, whatever the handlers interleave: the time
\* it held may have been given to another booking (bookings/services.py:56).
NeverReconfirmed == [][(~coreTime /\ ~Confirmed) => ~Confirmed']_lifeVars

\* Reports made at the same time are all counted (F() + 1), as long as no
\* integration completion wrote the whole row back.
ReportsCounted ==
  (booking # Absent /\ \A h \in Handlers : kind[h] # "apiComplete") => booking.count = reports

\* A cancellation mail is only sent about a booking that is no longer confirmed.
MailedNotConfirmed == (mails > 0 /\ ~coreTime) => ~Confirmed

\* "Only CONFIRMED may change to COMPLETED", as the API document and the
\* handlers' messages say (bookings/views.py:349, dashboard/schedule_views.py:614).
CompletedOnlyFromConfirmed ==
  [][(booking' # Absent /\ booking'.status = "COMPLETED" /\ booking' # booking)
       => booking # Absent /\ booking.status \in {"CONFIRMED", "COMPLETED"}]_lifeVars

=============================================================================
