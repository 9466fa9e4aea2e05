----------------------------- MODULE ShopAccount -----------------------------
(***************************************************************************)
(* The account of one shop at System B: its subscription at Stripe, started *)
(* by checkouts and kept in the shop's row by webhooks and manual           *)
(* synchronisations (dashboard/stripe_service.py, dashboard/views.py), and  *)
(* its deletion, ban and override by its owner and the operator. Every      *)
(* request reads the whole row, calls Stripe, and saves the columns it      *)
(* changed; requests overlap, calls to Stripe fail with or without effect,  *)
(* and Stripe repeats an event whose answer was an error. A subscription    *)
(* has the name of the checkout that led to it.                             *)
(***************************************************************************)
EXTENDS FiniteSets, Integers

CONSTANTS
  Checkouts,   \* requests for a checkout, or for Stripe's portal
  Syncs,       \* workers that answer a webhook or a manual synchronisation
  Desks,       \* requests of the owner or the operator about the shop's state
  DeskKinds,   \* what they ask for
  Live,        \* what Stripe calls a subscription that is alive
  MaxChanges,  \* changes of subscriptions at Stripe
  MaxFailures, \* calls to Stripe that fail
  Latest,      \* bound of the model: the last instant considered
  Period,      \* length of a paid period
  Overrides,   \* what the operator may put in the place of the subscription
  None

\* What the shop's row, an event and a request hold.
Names  == Checkouts \cup {None}
Dates  == 1 .. Latest + Period
Statuses == {"ACTIVE", "TRIAL", "CANCELED", "NONE"}
Row    == [customer : Names, sub : Names, session : Names,
           status : Statuses, ends : Dates \cup {None}, credited : BOOLEAN,
           override : Overrides \cup {None}, deleted : BOOLEAN, enabled : BOOLEAN]
Event  == [of : Checkouts, type : {"checkout", "subscription"}]
Part(columns) == {[f \in columns |-> r[f]] : r \in Row}
Copies == UNION {Part({"customer", "sub", "credited"}), Part({"deleted", "enabled"}),
                 Part({"customer", "sub", "session", "status", "ends", "override", "deleted", "enabled"})}
Pcs    == {"idle", "customer", "credit", "session", "name", "fetch", "save", "write", "done", "failed"}
Proc   == [pc : Pcs, kind : DeskKinds \cup {"checkout", "portal", None},
           copy : Copies \cup {None}, event : Event \cup {None}, found : Names,
           status : Statuses \cup {None}, ends : Dates \cup {None}, alone : BOOLEAN]

ASSUME ShopAssumption ==
  /\ Checkouts \cap (Syncs \cup Desks) = {} /\ Syncs \cap Desks = {}
  /\ DeskKinds \subseteq {"delete", "recover", "disable", "enable", "override", "plain"}
  /\ Live \subseteq {"active", "trialing", "past_due", "unpaid", "incomplete"}
  /\ {MaxChanges, MaxFailures, Latest} \subseteq Nat /\ Period \in Nat \ {0}
  /\ Overrides \subseteq [status : Statuses, ends : Dates \cup {None}]
  /\ None \notin Checkouts \cup Live \cup Event \cup {"canceled"} \cup Dates \cup Overrides

VARIABLES
  row,        \* the shop's row
  customers,  \* customers made at Stripe, each by one checkout
  credited,   \* checkouts that granted the first month's credit
  session,    \* customer of each checkout session at Stripe, or None
  sub,        \* status of each subscription at Stripe, or None
  until,      \* its end date as the code reads it at Stripe, or None
  newest,     \* the subscription made last
  events,     \* events not yet answered
  now,
  proc,       \* what each request is doing
  saw,        \* checkouts that had ended well when a checkout began
  trusted,    \* the last synchronisation ran alone, without failures
  strayed,    \* the row was given the name of an older subscription
  changes, failures

stripe == <<customers, credited, session, sub, until, newest>>
bounds == <<changes, failures>>
marks  == <<saw, trusted, strayed>>
vars   == <<row, stripe, events, now, proc, marks, bounds>>

Handlers == Checkouts \cup Syncs \cup Desks

Idle == [pc |-> "idle", kind |-> None, copy |-> None, event |-> None,
         found |-> None, status |-> None, ends |-> None, alone |-> TRUE]

At(h, pc) == proc[h].pc = pc
To(h, pc) == proc' = [proc EXCEPT ![h].pc = pc]
Leaves(h, pc) == proc' = [proc EXCEPT ![h] = [Idle EXCEPT !.pc = pc]]

\* The columns a request looks at, of the row it read.
Copy(h) ==
  LET columns == CASE h \in Checkouts -> {"customer", "sub", "credited"}
                   [] h \in Syncs     -> DOMAIN row \ {"credited"}
                   [] h \in Desks     -> {"deleted", "enabled"}
  IN [f \in columns |-> row[f]]

\* Wrong on purpose: every column of the copy is written back.
SavedWhole(copy, new) == [f \in DOMAIN row |-> IF f \in DOMAIN new THEN new[f] ELSE row[f]]

\* save(update_fields=..) of the columns in which new differs from the copy.
Saved(copy, new) ==
  [f \in DOMAIN row |-> IF f \in DOMAIN new /\ new[f] # copy[f] THEN new[f] ELSE row[f]]

\* _tenant_is_subscribed: of the override if there is one, else of the subscription.
Subscribed(shop) ==
  LET said == IF shop.override # None THEN shop.override ELSE shop
  IN said.status \in {"ACTIVE", "TRIAL"} /\ (said.ends # None => said.ends > now)

Fails == failures < MaxFailures /\ failures' = failures + 1 /\ UNCHANGED changes
Works == UNCHANGED bounds

---------------------------------------------------------------------------
(* create_checkout_session and create_billing_portal_session *)

CheckoutBegin(c, kind) ==
  /\ At(c, "idle")
  /\ proc' = [proc EXCEPT ![c].kind = kind, ![c].copy = Copy(c), ![c].pc = "customer"]
  /\ saw' = [saw EXCEPT ![c] = {d \in Checkouts : At(d, "done")}]
  /\ UNCHANGED <<row, stripe, events, trusted, strayed, bounds, now>>

Continue(c, copy) ==
  IF proc[c].kind = "portal" THEN Leaves(c, "done")
  ELSE proc' = [proc EXCEPT
         ![c].copy = copy,
         ![c].pc = IF copy.sub = None /\ ~copy.credited THEN "credit" ELSE "session"]

\* ensure_customer_for_tenant: the call, and the column; a call that fails may
\* have been carried out.
EnsureCustomer(c) ==
  LET copy == proc[c].copy
      mine == [copy EXCEPT !.customer = c]
  IN /\ At(c, "customer")
     /\ \/ /\ copy.customer # None /\ Works
           /\ Continue(c, copy) /\ UNCHANGED <<row, customers>>
        \/ /\ copy.customer = None /\ Works
           /\ customers' = customers \cup {c}
           /\ row' = [row EXCEPT !.customer = c]
           /\ Continue(c, mine)
        \/ /\ copy.customer = None /\ Fails
           /\ customers' \in {customers, customers \cup {c}}
           /\ Leaves(c, "failed") /\ UNCHANGED row
     /\ UNCHANGED <<credited, session, sub, until, newest, events, marks, now>>

\* Wrong on purpose: the grant is not recorded.
GrantUnrecorded(c) ==
  /\ At(c, "credit") /\ Works
  /\ credited' = credited \cup {c} /\ To(c, "session")
  /\ UNCHANGED <<row, customers, session, sub, until, newest, events, marks, now>>

\* apply_first_month_credit_if_needed: the grant at Stripe, and its date.
GrantCredit(c) ==
  /\ At(c, "credit")
  /\ \/ /\ Works /\ credited' = credited \cup {c}
        /\ row' = [row EXCEPT !.credited = TRUE] /\ To(c, "session")
     \/ /\ Fails /\ credited' \in {credited, credited \cup {c}}
        /\ UNCHANGED row /\ Leaves(c, "failed")
  /\ UNCHANGED <<customers, session, sub, until, newest, events, marks, now>>

CreateSession(c) ==
  /\ At(c, "session")
  /\ \/ /\ Works /\ session' = [session EXCEPT ![c] = proc[c].copy.customer]
        /\ row' = [row EXCEPT !.session = c] /\ Leaves(c, "done")
     \/ /\ Fails /\ UNCHANGED <<row, session>> /\ Leaves(c, "failed")
  /\ UNCHANGED <<customers, credited, sub, until, newest, events, marks, now>>

---------------------------------------------------------------------------
(* Stripe, as the code uses it *)

\* The owner pays the session whose page she was sent to. The code's date is the end of the
\* period, which Stripe gives or which it derives from the start.
Pay(c) ==
  /\ session[c] # None /\ sub[c] = None
  /\ \E status \in Live : sub' = [sub EXCEPT ![c] = status]
  /\ until' = [until EXCEPT ![c] = now + Period]
  /\ newest' = c
  /\ events' = events \cup {[of |-> c, type |-> "checkout"], [of |-> c, type |-> "subscription"]}
  /\ UNCHANGED <<row, customers, credited, session, proc, marks, bounds, now>>

\* A living subscription has its date changed, as by a renewal, or its status.
ChangeSub(c, status, date) ==
  /\ changes < MaxChanges /\ changes' = changes + 1 /\ UNCHANGED failures
  /\ sub[c] \in Live /\ (status = sub[c]) # (date = until[c])
  /\ sub' = [sub EXCEPT ![c] = status] /\ until' = [until EXCEPT ![c] = date]
  /\ events' = events \cup {[of |-> c, type |-> "subscription"]}
  /\ UNCHANGED <<row, customers, credited, session, newest, proc, marks, now>>

Tick ==
  /\ now < Latest /\ now' = now + 1
  /\ UNCHANGED <<row, stripe, events, proc, marks, bounds>>

---------------------------------------------------------------------------
(* StripeWebhookView.post and sync_tenant_subscription *)

Others(w) == {x \in Syncs \ {w} : ~At(x, "idle")}

\* A request begins: it and those it overlaps no longer run alone.
Starts(w, event, pc) ==
  proc' = [h \in Handlers |->
    CASE h = w -> [Idle EXCEPT !.pc = pc, !.copy = Copy(w), !.event = event, !.alone = Others(w) = {}]
      [] h \in Others(w) -> [proc[h] EXCEPT !.alone = FALSE]
      [] OTHER -> proc[h]]

SyncNow(w) ==
  /\ At(w, "idle") /\ Starts(w, None, "fetch")
  /\ UNCHANGED <<row, stripe, events, marks, bounds, now>>

\* A checkout's event finds the shop by its customer, a subscription's by its
\* metadata. Nobody's event is answered and dropped.
Deliver(w, e) ==
  /\ At(w, "idle") /\ e \in events /\ events' = events \ {e}
  /\ IF e.type = "checkout" /\ session[e.of] # row.customer
       THEN UNCHANGED proc
       ELSE Starts(w, e, IF e.type = "checkout" THEN "name" ELSE "fetch")
  /\ UNCHANGED <<row, stripe, marks, bounds, now>>

Stray(new) == IF new # row.sub THEN new # newest ELSE strayed

NameSub(w) ==
  LET copy == proc[w].copy
      mine == [copy EXCEPT !.sub = proc[w].event.of]
  IN /\ At(w, "name")
     /\ row' = Saved(copy, mine)
     /\ strayed' = Stray(row'.sub)
     /\ proc' = [proc EXCEPT ![w].copy = mine, ![w].pc = "fetch"]
     /\ UNCHANGED <<stripe, events, saw, trusted, bounds, now>>

\* Wrong on purpose: Stripe's word for the status is kept.
MappedRaw(c) == IF c = None THEN "NONE" ELSE sub[c]

Mapped(c) ==
  IF c = None THEN "NONE"
  ELSE CASE sub[c] = "trialing" -> "TRIAL"
         [] sub[c] = "canceled" -> "CANCELED"
         [] OTHER               -> "ACTIVE"

Until(c) == IF c = None THEN None ELSE until[c]

\* The newest subscription of a customer.
Listed(customer) ==
  LET subs == {c \in Checkouts : sub[c] # None /\ session[c] = customer}
  IN IF newest \in subs THEN {newest} ELSE IF subs = {} THEN {None} ELSE subs

InSession(c) == IF c # None /\ sub[c] # None THEN c ELSE None

\* fetch_subscription_snapshot: the subscription the copy names, else its customer's
\* newest; if there is none, or the first call failed, the one of its last session.
Fetch(w) ==
  LET copy == proc[w].copy
      finds(c) == [proc[w] EXCEPT !.found = c, !.status = Mapped(c), !.ends = Until(c), !.pc = "save"]
      gets(c)  == Works /\ proc' = [proc EXCEPT ![w] = finds(c)]
  IN /\ At(w, "fetch")
     /\ \/ copy.sub # None /\ gets(copy.sub)
        \/ /\ copy.sub = None /\ copy.customer # None
           /\ \E c \in Listed(copy.customer) : gets(IF c # None THEN c ELSE InSession(copy.session))
        \/ copy.sub = None /\ copy.customer = None /\ gets(None)
        \/ /\ copy.sub # None /\ Fails
           /\ proc' = [proc EXCEPT ![w] = [finds(InSession(copy.session)) EXCEPT !.alone = FALSE]]
     /\ UNCHANGED <<row, stripe, events, marks, now>>

\* A call that fails otherwise ends the request; Stripe repeats the event.
FetchFails(w) ==
  /\ At(w, "fetch") /\ proc[w].copy.customer # None /\ Fails
  /\ Leaves(w, "idle")
  /\ events' = events \cup ({proc[w].event} \ {None})
  /\ UNCHANGED <<row, stripe, marks, now>>

\* Wrong on purpose: the end date is not taken over.
SyncedUndated(w) ==
  LET c == proc[w].found
  IN [proc[w].copy EXCEPT !.status = proc[w].status, !.sub = IF c # None THEN c ELSE @]

Synced(w) ==
  LET c == proc[w].found
  IN [proc[w].copy EXCEPT !.status = proc[w].status, !.ends = proc[w].ends,
                          !.sub = IF c # None THEN c ELSE @]

\* The status and the date saved are those Stripe gave when it was asked.
SaveSync(w) ==
  /\ At(w, "save")
  /\ row' = Saved(proc[w].copy, Synced(w))
  /\ strayed' = Stray(row'.sub) /\ trusted' = proc[w].alone
  /\ Leaves(w, "idle")
  /\ UNCHANGED <<stripe, events, saw, bounds, now>>

---------------------------------------------------------------------------
(* The owner's deletion and recovery, the operator's ban and override *)

DeskBegin(d, kind) ==
  /\ At(d, "idle")
  /\ proc' = [proc EXCEPT ![d].kind = kind, ![d].copy = Copy(d), ![d].pc = "write"]
  /\ UNCHANGED <<row, stripe, events, marks, bounds, now>>

\* The columns a request writes, or none if what it read forbids it.
Columns(kind, copy, given) ==
  CASE kind = "delete"  /\ ~copy.deleted -> [deleted |-> TRUE, enabled |-> FALSE]
    [] kind = "recover" /\ copy.deleted  -> [deleted |-> FALSE, enabled |-> TRUE]
    [] kind = "disable" /\ copy.enabled  -> [enabled |-> FALSE]
    [] kind = "enable"  /\ ~copy.enabled -> [enabled |-> TRUE]
    [] kind = "override" -> [override |-> given]
    [] kind = "plain"    -> [override |-> None]
    [] OTHER -> [f \in {} |-> None]

DeskWrite(d, given) ==
  LET columns == Columns(proc[d].kind, proc[d].copy, given)
  IN /\ At(d, "write")
     /\ row' = [f \in DOMAIN row |-> IF f \in DOMAIN columns THEN columns[f] ELSE row[f]]
     /\ Leaves(d, "done")
     /\ UNCHANGED <<stripe, events, marks, bounds, now>>

---------------------------------------------------------------------------
\* A new shop counts as subscribed until it is synchronised.
Init ==
  /\ row = [customer |-> None, sub |-> None, session |-> None, status |-> "ACTIVE",
            ends |-> None, credited |-> FALSE, override |-> None, deleted |-> FALSE, enabled |-> TRUE]
  /\ customers = {} /\ credited = {} /\ newest = None
  /\ session = [c \in Checkouts |-> None] /\ sub = [c \in Checkouts |-> None]
  /\ until = [c \in Checkouts |-> None]
  /\ events = {} /\ now = 0
  /\ proc = [h \in Handlers |-> Idle]
  /\ saw = [c \in Checkouts |-> {}]
  /\ trusted = FALSE /\ strayed = FALSE
  /\ changes = 0 /\ failures = 0

Next ==
  \/ \E c \in Checkouts :
       \/ \E kind \in {"checkout", "portal"} : CheckoutBegin(c, kind)
       \/ EnsureCustomer(c) \/ GrantCredit(c) \/ CreateSession(c) \/ Pay(c)
       \/ \E status \in Live \cup {"canceled"}, date \in Dates : ChangeSub(c, status, date)
  \/ \E w \in Syncs :
       \/ SyncNow(w) \/ (\E e \in events : Deliver(w, e)) \/ NameSub(w)
       \/ Fetch(w) \/ FetchFails(w) \/ SaveSync(w)
  \/ \E d \in Desks :
       \/ \E kind \in DeskKinds : DeskBegin(d, kind)
       \/ \E given \in Overrides : DeskWrite(d, given)
  \/ Tick

Spec == Init /\ [][Next]_vars
---------------------------------------------------------------------------
TypeOK ==
  /\ row \in Row
  /\ customers \subseteq Checkouts /\ credited \subseteq Checkouts
  /\ session \in [Checkouts -> Names]
  /\ sub \in [Checkouts -> Live \cup {"canceled", None}]
  /\ until \in [Checkouts -> Dates \cup {None}]
  /\ newest \in Names /\ events \subseteq Event /\ now \in 0 .. Latest
  /\ proc \in [Handlers -> Proc]
  /\ saw \in [Checkouts -> SUBSET Checkouts]
  /\ trusted \in BOOLEAN /\ strayed \in BOOLEAN
  /\ changes \in 0 .. MaxChanges /\ failures \in 0 .. MaxFailures

\* Whatever the order in which Stripe's events and manual synchronisations came,
\* when all are answered a shop takes bookings exactly if its newest subscription
\* is alive and has not reached the end date Stripe gives of it now, whatever date an
\* earlier answer gave. That is provided the last synchronisation ran alone and without a
\* failed call, no event of an older checkout came last, the shop has one customer at
\* Stripe, and the operator does not override it (stripe_service.py:217-310, utils.py:107-123).
PaidIsOpen ==
  (/\ events = {} /\ \A w \in Syncs : At(w, "idle")
   /\ trusted /\ ~strayed /\ Cardinality(customers) <= 1 /\ row.override = None)
    => (Subscribed(row) <=> newest # None /\ sub[newest] \in Live /\ until[newest] > now)

\* The first month's credit is granted again only by a checkout that overlapped the
\* first, or after a first that failed: never to a shop that came back to a checkout
\* after one that had ended well (stripe_service.py:149-168).
CreditOnce == \A c, d \in credited : c \notin saw[d]

\* A synchronisation or checkout that began before the shop was deleted, recovered or
\* overridden, and ends after it, leaves that as it is.
DeskStands ==
  [][(row'.deleted # row.deleted \/ row'.enabled # row.enabled \/ row'.override # row.override)
       => \E d \in Desks : At(d, "write") /\ proc'[d].pc = "done"]_vars

=============================================================================
