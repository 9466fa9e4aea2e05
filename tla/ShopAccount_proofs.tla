------------------------- MODULE ShopAccount_proofs -------------------------
(***************************************************************************)
(* Proofs about a shop's subscription and its row, for any number of       *)
(* checkouts, workers, desks, changes and failures.  A lemma <name>Step    *)
(* says that every step keeps a conjunct of the inductive invariant IInv.  *)
(***************************************************************************)
EXTENDS ShopAccount, FiniteSetTheorems, TLAPS

USE DEF Statuses

\* What a checkout, a worker and a desk have read of the row.
Looked == [customer : Names, sub : Names, credited : BOOLEAN]
Read   == [customer : Names, sub : Names, session : Names,
           status : Statuses, ends : Dates \cup {None},
           override : Overrides \cup {None}, deleted : BOOLEAN, enabled : BOOLEAN]
Glance == [deleted : BOOLEAN, enabled : BOOLEAN]

Busy(w) == ~At(w, "idle")

\* Each kind of request goes its own way, with the columns it read.
Kinds ==
  /\ \A c \in Checkouts :
       /\ proc[c].pc \in {"idle", "customer", "credit", "session", "done", "failed"}
       /\ proc[c].pc \in {"customer", "credit", "session"} => proc[c].copy \in Looked
  /\ \A w \in Syncs :
       /\ proc[w].pc \in {"idle", "name", "fetch", "save"}
       /\ Busy(w) => proc[w].copy \in Read
       /\ At(w, "name") => proc[w].event \in Event
       /\ At(w, "save") => proc[w].status \in Statuses
  /\ \A d \in Desks :
       /\ proc[d].pc \in {"idle", "write", "done"}
       /\ At(d, "write") => proc[d].copy \in Glance /\ proc[d].kind \in DeskKinds

\* A subscription that anybody names was paid.
Paid(c) == c # None => sub[c] # None
AllPaid ==
  /\ Paid(row.sub) /\ Paid(newest)
  /\ \A e \in events : sub[e.of] # None
  /\ \A w \in Syncs :
       /\ Busy(w) => Paid(proc[w].copy.sub)
       /\ Busy(w) /\ proc[w].event # None => sub[proc[w].event.of] # None
       /\ At(w, "save") => Paid(proc[w].found)
  /\ \A c \in Checkouts : sub[c] # None =>
       session[c] # None /\ newest # None /\ until[c] # None

\* A customer that anybody names was made, and from the first session on the row names one.
Met(x) == x # None => x \in customers /\ row.customer # None
AllMet ==
  /\ IsFiniteSet(customers)
  /\ Met(row.customer)
  /\ \A c \in Checkouts :
       /\ Met(session[c])
       /\ proc[c].pc \in {"customer", "credit", "session"} => Met(proc[c].copy.customer)
       /\ proc[c].pc \in {"credit", "session"} => proc[c].copy.customer # None
  /\ \A w \in Syncs : Busy(w) => Met(proc[w].copy.customer)
OneCustomer == \A x, y \in customers : x = y

\* A worker that runs alone has a fresh copy of the columns that workers write.
AloneIsFresh ==
  \A w \in Syncs : (Busy(w) /\ proc[w].alone) =>
    /\ \A x \in Syncs \ {w} : At(x, "idle")
    /\ proc[w].copy.sub = row.sub /\ proc[w].copy.status = row.status
    /\ proc[w].copy.ends = row.ends

\* The row loses the newest subscription only by straying, and strays only to one.
NewestKept ==
  /\ strayed => row.sub # None
  /\ \A w \in Syncs :
       (Busy(w) /\ proc[w].copy.sub # None /\ proc[w].copy.sub = newest) => strayed \/ row.sub = newest

\* Without straying, the row has the newest subscription or will be told of it.
NewestAwaited ==
  (~strayed /\ OneCustomer /\ newest # None) =>
    \/ row.sub = newest
    \/ [of |-> newest, type |-> "checkout"] \in events
    \/ \E w \in Syncs : At(w, "name") /\ proc[w].event.of = newest

\* A worker that read no customer knows that nothing is paid, or an event will say so.
NothingMissed ==
  \A w \in Syncs :
    (proc[w].pc \in {"name", "fetch"} /\ proc[w].alone /\ OneCustomer
     /\ proc[w].copy.customer = None) => newest = None \/ events # {}

\* What a worker that runs alone has fetched holds until an event says otherwise.
FetchedRight ==
  \A w \in Syncs : (At(w, "save") /\ proc[w].alone /\ OneCustomer) =>
    \/ events # {}
    \/ strayed /\ proc[w].copy.sub # None /\ proc[w].found = proc[w].copy.sub
    \/ /\ proc[w].found = newest /\ proc[w].status = Mapped(newest)
       /\ proc[w].ends = Until(newest)

\* After a synchronisation that can be trusted, the row is right unless an event is on
\* its way or in the hands of a worker.
Settled == row.sub = newest /\ row.status = Mapped(newest) /\ row.ends = Until(newest)
RightOrTold ==
  (trusted /\ ~strayed /\ OneCustomer) =>
    \/ Settled
    \/ events # {}
    \/ \E w \in Syncs : Busy(w) /\ proc[w].event # None

\* Who has had the credit is past it, and the row says so unless the call had failed; a
\* checkout that saw such a one end reads it there.
CreditNoted ==
  /\ \A c \in credited :
       proc[c].pc \in {"session", "done", "failed"} /\ (At(c, "failed") \/ row.credited)
  /\ \A d \in Checkouts : \A c \in saw[d] :
       /\ At(c, "done") /\ ~At(d, "idle")
       /\ c \in credited =>
            /\ At(d, "customer") => proc[d].copy.credited
            /\ ~At(d, "credit") /\ d \notin credited

IInv ==
  /\ TypeOK /\ Kinds /\ AllPaid /\ AllMet /\ AloneIsFresh /\ NewestKept /\ NewestAwaited
  /\ NothingMissed /\ FetchedRight /\ RightOrTold /\ CreditNoted

---------------------------------------------------------------------------
(* Copies of the row, and what is saved of them. *)

LEMMA LookedIsPart == Looked = Part({"customer", "sub", "credited"})
<1>1. ASSUME NEW x \in Looked PROVE x \in Part({"customer", "sub", "credited"})
  <2> DEFINE r == [customer |-> x.customer, sub |-> x.sub, session |-> None, status |-> "NONE",
                   ends |-> None, credited |-> x.credited, override |-> None, deleted |-> FALSE, enabled |-> FALSE]
  <2>1. r \in Row
    BY DEF Looked, Row, Names
  <2>2. x = [f \in {"customer", "sub", "credited"} |-> r[f]]
    BY DEF Looked
  <2>3. QED
    BY <2>1, <2>2 DEF Part
<1>2. ASSUME NEW x \in Part({"customer", "sub", "credited"}) PROVE x \in Looked
  BY DEF Part, Row, Looked
<1>3. QED
  BY <1>1, <1>2

LEMMA GlanceIsPart == Glance = Part({"deleted", "enabled"})
<1>1. ASSUME NEW x \in Glance PROVE x \in Part({"deleted", "enabled"})
  <2> DEFINE r == [customer |-> None, sub |-> None, session |-> None, status |-> "NONE",
                   ends |-> None, credited |-> FALSE, override |-> None, deleted |-> x.deleted, enabled |-> x.enabled]
  <2>1. r \in Row
    BY DEF Glance, Row, Names
  <2>2. x = [f \in {"deleted", "enabled"} |-> r[f]]
    BY DEF Glance
  <2>3. QED
    BY <2>1, <2>2 DEF Part
<1>2. ASSUME NEW x \in Part({"deleted", "enabled"}) PROVE x \in Glance
  BY DEF Part, Row, Glance
<1>3. QED
  BY <1>1, <1>2

LEMMA ReadIsPart ==
  Read = Part({"customer", "sub", "session", "status", "ends", "override", "deleted", "enabled"})
<1> DEFINE columns == {"customer", "sub", "session", "status", "ends", "override", "deleted", "enabled"}
<1>1. ASSUME NEW x \in Read PROVE x \in Part(columns)
  <2> DEFINE r == [customer |-> x.customer, sub |-> x.sub, session |-> x.session, status |-> x.status,
                   ends |-> x.ends, credited |-> FALSE, override |-> x.override, deleted |-> x.deleted,
                   enabled |-> x.enabled]
  <2>1. r \in Row
    BY DEF Read, Row
  <2>2. x = [f \in columns |-> r[f]]
    BY DEF Read
  <2>3. QED
    BY <2>1, <2>2 DEF Part
<1>2. ASSUME NEW x \in Part(columns) PROVE x \in Read
  BY DEF Part, Row, Read
<1>3. QED
  BY <1>1, <1>2

LEMMA CopiesAre == Looked \cup Glance \cup Read \subseteq Copies
  BY LookedIsPart, GlanceIsPart, ReadIsPart DEF Copies

LEMMA CopyIs ==
  ASSUME TypeOK
  PROVE  /\ \A c \in Checkouts :
              /\ Copy(c) \in Looked /\ Copy(c).customer = row.customer
              /\ Copy(c).sub = row.sub /\ Copy(c).credited = row.credited
         /\ \A w \in Syncs :
              /\ Copy(w) \in Read /\ Copy(w).customer = row.customer
              /\ Copy(w).sub = row.sub /\ Copy(w).status = row.status /\ Copy(w).ends = row.ends
         /\ \A d \in Desks : Copy(d) \in Glance
<1> USE DEF TypeOK
<1>1. ASSUME NEW c \in Checkouts
      PROVE  /\ Copy(c) \in Looked /\ Copy(c).customer = row.customer
             /\ Copy(c).sub = row.sub /\ Copy(c).credited = row.credited
  <2>1. Copy(c) = [f \in {"customer", "sub", "credited"} |-> row[f]]
    BY ShopAssumption DEF Copy
  <2>2. QED
    BY <2>1 DEF Looked, Row
<1>2. ASSUME NEW w \in Syncs
      PROVE  /\ Copy(w) \in Read /\ Copy(w).customer = row.customer
             /\ Copy(w).sub = row.sub /\ Copy(w).status = row.status /\ Copy(w).ends = row.ends
  <2>1. Copy(w) = [f \in DOMAIN row \ {"credited"} |-> row[f]]
    BY ShopAssumption DEF Copy
  <2>2. QED
    BY <2>1 DEF Read, Row
<1>3. ASSUME NEW d \in Desks PROVE Copy(d) \in Glance
  <2>1. Copy(d) = [f \in {"deleted", "enabled"} |-> row[f]]
    BY ShopAssumption DEF Copy
  <2>2. QED
    BY <2>1 DEF Glance, Row
<1>4. QED
  BY <1>1, <1>2, <1>3

\* A worker changes no column but the three it means to.
LEMMA SavedIs ==
  ASSUME row \in Row, NEW copy \in Read, NEW new \in Read,
         \A f \in DOMAIN new \ {"sub", "status", "ends"} : new[f] = copy[f]
  PROVE  /\ Saved(copy, new) \in Row
         /\ Saved(copy, new).sub = (IF new.sub # copy.sub THEN new.sub ELSE row.sub)
         /\ Saved(copy, new).status = (IF new.status # copy.status THEN new.status ELSE row.status)
         /\ Saved(copy, new).ends = (IF new.ends # copy.ends THEN new.ends ELSE row.ends)
         /\ Saved(copy, new).credited = row.credited /\ Saved(copy, new).customer = row.customer
<1>1. DOMAIN new = {"customer", "sub", "session", "status", "ends", "override", "deleted", "enabled"}
  BY DEF Read
<1>2. /\ Saved(copy, new).sub = (IF new.sub # copy.sub THEN new.sub ELSE row.sub)
      /\ Saved(copy, new).status = (IF new.status # copy.status THEN new.status ELSE row.status)
      /\ Saved(copy, new).ends = (IF new.ends # copy.ends THEN new.ends ELSE row.ends)
  BY <1>1 DEF Saved, Row
<1>3. Saved(copy, new).credited = row.credited /\ Saved(copy, new).customer = row.customer
  BY <1>1 DEF Saved, Row
<1>4. Saved(copy, new) \in Row
  BY <1>1 DEF Saved, Row, Read
<1>5. QED
  BY <1>2, <1>3, <1>4

LEMMA UntilIs ==
  ASSUME TypeOK, NEW c \in Names PROVE Until(c) \in Dates \cup {None}
  BY DEF TypeOK, Until, Names

\* A period that begins now ends at a date.
LEMMA NextDate == ASSUME TypeOK PROVE now + Period \in Dates /\ now + Period # None
<1>1. now \in 0 .. Latest /\ Latest \in Nat /\ Period \in Nat \ {0}
  BY ShopAssumption DEF TypeOK
<1>2. now + Period \in Dates
  BY <1>1 DEF Dates
<1> QED
  BY <1>2, ShopAssumption

LEMMA MappedIs ==
  ASSUME NEW c \in Names PROVE Mapped(c) \in Statuses
  BY ShopAssumption DEF Mapped

---------------------------------------------------------------------------
(* What each step does to the requests. *)

OthersKeep(h) ==
  proc' \in [Handlers -> Proc] /\ \A x \in Handlers \ {h} : proc'[x] = proc[x]

LEMMA LeavesEffect ==
  ASSUME TypeOK, NEW h \in Handlers, NEW pc \in {"idle", "done", "failed"}, Leaves(h, pc)
  PROVE  OthersKeep(h) /\ proc'[h].pc = pc
<1> DEFINE left == [Idle EXCEPT !.pc = pc]
<1>1. left \in Proc /\ left.pc = pc
  BY DEF Idle, Proc, Pcs, Names
<1>2. proc' = [proc EXCEPT ![h] = left]
  BY DEF Leaves
<1> HIDE DEF left
<1>3. QED
  BY <1>1, <1>2 DEF TypeOK, OthersKeep

LEMMA BeginEffect ==
  ASSUME TypeOK, NEW c \in Checkouts, NEW kind \in {"checkout", "portal"}, CheckoutBegin(c, kind)
  PROVE  /\ OthersKeep(c) /\ At(c, "idle") /\ proc'[c].pc = "customer" /\ proc'[c].copy = Copy(c)
         /\ saw' = [saw EXCEPT ![c] = {d \in Checkouts : At(d, "done")}]
         /\ UNCHANGED <<row, customers, credited, session, sub, until, newest, now, events, trusted, strayed, changes, failures>>
<1> DEFINE new == [proc[c] EXCEPT !.kind = kind, !.copy = Copy(c), !.pc = "customer"]
<1>1. proc[c] \in Proc /\ c \in Handlers
  BY DEF TypeOK, Handlers
<1>2. Copy(c) \in Copies
  BY CopyIs, CopiesAre
<1>3. new \in Proc /\ new.pc = "customer" /\ new.copy = Copy(c)
  BY <1>1, <1>2 DEF Proc, Pcs
<1>4. proc' = [proc EXCEPT ![c] = new]
  BY <1>1 DEF CheckoutBegin, TypeOK
<1> HIDE DEF new
<1>5. OthersKeep(c) /\ proc'[c] = new
  BY <1>1, <1>3, <1>4 DEF TypeOK, OthersKeep
<1>6. QED
  BY <1>3, <1>5 DEF CheckoutBegin, stripe, bounds

LEMMA ContinueEffect ==
  ASSUME TypeOK, NEW c \in Checkouts, NEW copy \in Looked, Continue(c, copy)
  PROVE  /\ OthersKeep(c) /\ proc'[c].pc \in {"credit", "session", "done"}
         /\ proc'[c].pc \in {"credit", "session"} => proc'[c].copy = copy
         /\ proc'[c].pc = "credit" => ~copy.credited
<1> DEFINE pc == IF copy.sub = None /\ ~copy.credited THEN "credit" ELSE "session"
           new == [proc[c] EXCEPT !.copy = copy, !.pc = pc]
<1>1. proc[c] \in Proc /\ c \in Handlers /\ copy \in Copies
  BY CopiesAre DEF TypeOK, Handlers
<1>2. CASE proc[c].kind = "portal"
  BY <1>1, <1>2, LeavesEffect DEF Continue
<1>3. CASE proc[c].kind # "portal"
  <2>1. new \in Proc /\ new.pc = pc /\ new.copy = copy
    BY <1>1 DEF Proc, Pcs
  <2>2. proc' = [proc EXCEPT ![c] = new]
    BY <1>1, <1>3 DEF Continue, TypeOK
  <2> HIDE DEF new
  <2>3. OthersKeep(c) /\ proc'[c] = new
    BY <1>1, <2>1, <2>2 DEF TypeOK, OthersKeep
  <2>4. QED
    BY <2>1, <2>3
<1>4. QED
  BY <1>2, <1>3

\* What EnsureCustomer comes to, however the call to Stripe ends.
Ensured(c) ==
  /\ OthersKeep(c) /\ At(c, "customer")
  /\ row' \in Row /\ row'.sub = row.sub /\ row'.status = row.status /\ row'.ends = row.ends /\ row'.credited = row.credited
  /\ customers' \in {customers, customers \cup {c}}
  /\ row'.customer = row.customer \/ (row'.customer = c /\ c \in customers')
  /\ proc'[c].pc \in {"credit", "session", "done", "failed"}
  /\ proc'[c].pc \in {"credit", "session"} =>
       /\ proc'[c].copy \in Looked /\ proc'[c].copy.credited = proc[c].copy.credited
       /\ proc'[c].copy.customer # None
       /\ \/ proc'[c].copy.customer = proc[c].copy.customer
          \/ proc'[c].copy.customer = c /\ c \in customers' /\ row'.customer = c
  /\ proc'[c].pc = "credit" => ~proc[c].copy.credited

LEMMA EnsureEffect ==
  ASSUME TypeOK, Kinds, NEW c \in Checkouts, EnsureCustomer(c)
  PROVE  /\ Ensured(c) /\ changes' \in 0 .. MaxChanges /\ failures' \in 0 .. MaxFailures
         /\ UNCHANGED <<credited, session, sub, until, newest, now, events, saw, trusted, strayed>>
<1> DEFINE copy == proc[c].copy
           mine == [copy EXCEPT !.customer = c]
<1>1. copy \in Looked /\ At(c, "customer") /\ c \in Handlers /\ c # None
  BY ShopAssumption DEF EnsureCustomer, At, Kinds, Handlers
<1>2. mine \in Looked /\ mine.customer = c /\ mine.credited = copy.credited
  BY <1>1 DEF Looked, Names
<1>3. UNCHANGED <<credited, session, sub, until, newest, now, events, saw, trusted, strayed>>
  BY DEF EnsureCustomer, marks
<1> HIDE DEF mine
<1>4. CASE copy.customer # None /\ Works /\ Continue(c, copy) /\ UNCHANGED <<row, customers>>
  <2>1. Ensured(c)
    BY <1>1, <1>4, ContinueEffect DEF Ensured, TypeOK
  <2>2. QED
    BY <1>3, <1>4, <2>1 DEF Works, bounds, TypeOK
<1>5. CASE /\ copy.customer = None /\ Works /\ customers' = customers \cup {c}
           /\ row' = [row EXCEPT !.customer = c] /\ Continue(c, mine)
  <2>1. row' \in Row /\ row'.customer = c /\ row'.sub = row.sub /\ row'.status = row.status /\ row'.ends = row.ends
          /\ row'.credited = row.credited
    BY <1>5 DEF TypeOK, Row, Names
  <2>2. Ensured(c)
    BY <1>1, <1>2, <1>5, <2>1, ContinueEffect DEF Ensured
  <2>3. QED
    BY <1>3, <1>5, <2>2 DEF Works, bounds, TypeOK
<1>6. CASE /\ copy.customer = None /\ Fails /\ customers' \in {customers, customers \cup {c}}
           /\ Leaves(c, "failed") /\ UNCHANGED row
  <2>1. Ensured(c)
    BY <1>1, <1>6, LeavesEffect DEF Ensured, TypeOK
  <2>2. QED
    BY <1>3, <1>6, <2>1, ShopAssumption DEF Fails, TypeOK
<1>7. QED
  BY <1>4, <1>5, <1>6 DEF EnsureCustomer, mine

\* The credit is granted and noted; or the call failed, with or without effect.
Granted(c) ==
  /\ OthersKeep(c) /\ At(c, "credit")
  /\ row' \in Row /\ row'.sub = row.sub /\ row'.status = row.status /\ row'.ends = row.ends /\ row'.customer = row.customer
  /\ \/ /\ proc'[c].pc = "session" /\ proc'[c].copy = proc[c].copy
        /\ credited' = credited \cup {c} /\ row'.credited
     \/ /\ proc'[c].pc = "failed" /\ credited' \in {credited, credited \cup {c}}
        /\ row'.credited = row.credited

LEMMA GrantEffect ==
  ASSUME TypeOK, NEW c \in Checkouts, GrantCredit(c)
  PROVE  /\ Granted(c) /\ changes' \in 0 .. MaxChanges /\ failures' \in 0 .. MaxFailures
         /\ UNCHANGED <<customers, session, sub, until, newest, now, events, saw, trusted, strayed>>
<1>1. proc[c] \in Proc /\ c \in Handlers /\ At(c, "credit")
  BY DEF TypeOK, Handlers, GrantCredit
<1>2. UNCHANGED <<customers, session, sub, until, newest, now, events, saw, trusted, strayed>>
  BY DEF GrantCredit, marks
<1>3. CASE /\ Works /\ credited' = credited \cup {c}
           /\ row' = [row EXCEPT !.credited = TRUE] /\ To(c, "session")
  <2> DEFINE new == [proc[c] EXCEPT !.pc = "session"]
  <2>1. new \in Proc /\ new.pc = "session" /\ new.copy = proc[c].copy
    BY <1>1 DEF Proc, Pcs
  <2>2. proc' = [proc EXCEPT ![c] = new]
    BY <1>3 DEF To
  <2> HIDE DEF new
  <2>3. OthersKeep(c) /\ proc'[c] = new
    BY <1>1, <2>1, <2>2 DEF TypeOK, OthersKeep
  <2>4. row' \in Row /\ row'.sub = row.sub /\ row'.status = row.status /\ row'.ends = row.ends
          /\ row'.customer = row.customer /\ row'.credited
    BY <1>3 DEF TypeOK, Row
  <2>5. Granted(c)
    BY <1>1, <1>3, <2>1, <2>3, <2>4 DEF Granted
  <2>6. QED
    BY <1>2, <1>3, <2>5 DEF Works, bounds, TypeOK
<1>4. CASE /\ Fails /\ credited' \in {credited, credited \cup {c}}
           /\ UNCHANGED row /\ Leaves(c, "failed")
  <2>1. Granted(c)
    BY <1>1, <1>4, LeavesEffect DEF Granted, TypeOK
  <2>2. QED
    BY <1>2, <1>4, <2>1, ShopAssumption DEF Fails, TypeOK
<1>5. QED
  BY <1>3, <1>4 DEF GrantCredit

\* A checkout session, or none.
Opened(c) ==
  /\ OthersKeep(c) /\ At(c, "session") /\ proc'[c].pc \in {"done", "failed"}
  /\ row' \in Row /\ row'.sub = row.sub /\ row'.status = row.status /\ row'.ends = row.ends /\ row'.customer = row.customer
  /\ row'.credited = row.credited
  /\ session' \in {session, [session EXCEPT ![c] = proc[c].copy.customer]}

LEMMA SessionEffect ==
  ASSUME TypeOK, NEW c \in Checkouts, CreateSession(c)
  PROVE  /\ Opened(c) /\ changes' \in 0 .. MaxChanges /\ failures' \in 0 .. MaxFailures
         /\ UNCHANGED <<customers, credited, sub, until, newest, now, events, saw, trusted, strayed>>
<1>1. c \in Handlers /\ At(c, "session")
  BY DEF Handlers, CreateSession
<1>2. UNCHANGED <<customers, credited, sub, until, newest, now, events, saw, trusted, strayed>>
  BY DEF CreateSession, marks
<1>3. CASE /\ Works /\ session' = [session EXCEPT ![c] = proc[c].copy.customer]
           /\ row' = [row EXCEPT !.session = c] /\ Leaves(c, "done")
  <2>1. row' \in Row /\ row'.sub = row.sub /\ row'.status = row.status /\ row'.ends = row.ends
          /\ row'.customer = row.customer /\ row'.credited = row.credited
    BY <1>3 DEF TypeOK, Row, Names
  <2>2. Opened(c)
    BY <1>1, <1>3, <2>1, LeavesEffect DEF Opened
  <2>3. QED
    BY <1>2, <1>3, <2>2 DEF Works, bounds, TypeOK
<1>4. CASE Fails /\ UNCHANGED <<row, session>> /\ Leaves(c, "failed")
  <2>1. Opened(c)
    BY <1>1, <1>4, LeavesEffect DEF Opened, TypeOK
  <2>2. QED
    BY <1>2, <1>4, <2>1, ShopAssumption DEF Fails, TypeOK
<1>5. QED
  BY <1>3, <1>4 DEF CreateSession

\* A request of the owner or the operator.
Attended(d) ==
  /\ OthersKeep(d) /\ proc'[d].pc \in {"write", "done"}
  /\ proc'[d].pc = "write" => proc'[d].copy \in Glance /\ proc'[d].kind \in DeskKinds
  /\ row' \in Row /\ row'.sub = row.sub /\ row'.status = row.status /\ row'.ends = row.ends /\ row'.customer = row.customer
  /\ row'.credited = row.credited

LEMMA DeskEffect ==
  ASSUME TypeOK, Kinds, NEW d \in Desks,
         (\E kind \in DeskKinds : DeskBegin(d, kind)) \/ (\E given \in Overrides : DeskWrite(d, given))
  PROVE  /\ Attended(d)
         /\ UNCHANGED <<customers, credited, session, sub, until, newest, now, events, saw, trusted, strayed, changes, failures>>
<1>1. proc[d] \in Proc /\ d \in Handlers
  BY DEF TypeOK, Handlers
<1>2. ASSUME NEW kind \in DeskKinds, DeskBegin(d, kind)
      PROVE  /\ Attended(d)
             /\ UNCHANGED <<customers, credited, session, sub, until, newest, now, events, saw, trusted, strayed, changes, failures>>
  <2> DEFINE new == [proc[d] EXCEPT !.kind = kind, !.copy = Copy(d), !.pc = "write"]
  <2>1. Copy(d) \in Copies /\ Copy(d) \in Glance
    BY CopyIs, CopiesAre
  <2>2. new \in Proc /\ new.pc = "write" /\ new.copy = Copy(d) /\ new.kind = kind
    BY <1>1, <2>1 DEF Proc, Pcs
  <2>3. proc' = [proc EXCEPT ![d] = new]
    BY <1>1, <1>2 DEF DeskBegin, TypeOK
  <2> HIDE DEF new
  <2>4. OthersKeep(d) /\ proc'[d] = new
    BY <1>1, <2>2, <2>3 DEF TypeOK, OthersKeep
  <2>5. QED
    BY <1>2, <2>1, <2>2, <2>4 DEF Attended, DeskBegin, stripe, marks, bounds, TypeOK
<1>3. ASSUME NEW given \in Overrides, DeskWrite(d, given)
      PROVE  /\ Attended(d)
             /\ UNCHANGED <<customers, credited, session, sub, until, newest, now, events, saw, trusted, strayed, changes, failures>>
  <2> DEFINE columns == Columns(proc[d].kind, proc[d].copy, given)
  <2>1. proc[d].kind \in DeskKinds
    BY <1>3 DEF Kinds, DeskWrite, At
  <2>2. \/ columns = [deleted |-> TRUE, enabled |-> FALSE]
        \/ columns = [deleted |-> FALSE, enabled |-> TRUE]
        \/ columns = [enabled |-> FALSE]
        \/ columns = [enabled |-> TRUE]
        \/ columns = [override |-> given]
        \/ columns = [override |-> None]
        \/ columns = [f \in {} |-> None]
    BY <2>1, ShopAssumption DEF Columns
  <2>3. row' = [f \in DOMAIN row |-> IF f \in DOMAIN columns THEN columns[f] ELSE row[f]]
    BY <1>3 DEF DeskWrite
  <2> HIDE DEF columns
  <2>4. /\ DOMAIN columns \subseteq {"deleted", "enabled", "override"}
        /\ "deleted" \in DOMAIN columns => columns["deleted"] \in BOOLEAN
        /\ "enabled" \in DOMAIN columns => columns["enabled"] \in BOOLEAN
        /\ "override" \in DOMAIN columns => columns["override"] \in Overrides \cup {None}
    <3>1. CASE columns = [f \in {} |-> None]
      BY <3>1
    <3>2. CASE columns = [override |-> given] \/ columns = [override |-> None]
      BY <3>2
    <3>3. CASE columns = [enabled |-> TRUE]
      BY <3>3
    <3>4. CASE columns = [enabled |-> FALSE]
      BY <3>4
    <3>5. CASE columns = [deleted |-> TRUE, enabled |-> FALSE]
      BY <3>5
    <3>6. CASE columns = [deleted |-> FALSE, enabled |-> TRUE]
      BY <3>6
    <3>7. QED
      BY <2>2, <3>1, <3>2, <3>3, <3>4, <3>5, <3>6
  <2>5. row' \in Row /\ row'.sub = row.sub /\ row'.status = row.status /\ row'.ends = row.ends
          /\ row'.customer = row.customer /\ row'.credited = row.credited
    BY <2>3, <2>4 DEF TypeOK, Row
  <2>6. OthersKeep(d) /\ proc'[d].pc = "done"
    BY <1>1, <1>3, LeavesEffect DEF DeskWrite
  <2>7. QED
    BY <1>3, <2>5, <2>6 DEF Attended, DeskWrite, stripe, marks, bounds
<1>4. QED
  BY <1>2, <1>3

\* A worker begins, with the row as it is; those it overlaps no longer run alone.
Begun(w, event, pc) ==
  /\ proc' \in [Handlers -> Proc] /\ At(w, "idle")
  /\ proc'[w].pc = pc /\ proc'[w].event = event /\ proc'[w].copy = Copy(w)
  /\ proc'[w].alone <=> (\A x \in Syncs \ {w} : At(x, "idle"))
  /\ \A x \in Syncs \ {w} :
       /\ proc'[x].pc = proc[x].pc /\ proc'[x].copy = proc[x].copy /\ proc'[x].event = proc[x].event
       /\ proc'[x].found = proc[x].found /\ proc'[x].status = proc[x].status /\ proc'[x].ends = proc[x].ends
       /\ Busy(x) => ~proc'[x].alone
  /\ \A x \in Checkouts \cup Desks : proc'[x] = proc[x]

LEMMA StartsEffect ==
  ASSUME TypeOK, NEW w \in Syncs, At(w, "idle"), NEW event \in Event \cup {None},
         NEW pc \in {"name", "fetch"}, Starts(w, event, pc)
  PROVE  Begun(w, event, pc)
<1> DEFINE own == [Idle EXCEPT !.pc = pc, !.copy = Copy(w), !.event = event, !.alone = Others(w) = {}]
           met(x) == [proc[x] EXCEPT !.alone = FALSE]
           next(x) == CASE x = w -> own [] x \in Others(w) -> met(x) [] OTHER -> proc[x]
<1>1. Copy(w) \in Copies
  BY CopyIs, CopiesAre
<1>2. /\ own \in Proc /\ own.pc = pc /\ own.copy = Copy(w) /\ own.event = event
      /\ own.alone <=> Others(w) = {}
  BY <1>1 DEF Idle, Proc, Pcs, Names
<1>3. \A x \in Syncs :
        /\ met(x) \in Proc /\ met(x).pc = proc[x].pc /\ met(x).copy = proc[x].copy
        /\ met(x).event = proc[x].event /\ met(x).found = proc[x].found
        /\ met(x).status = proc[x].status /\ met(x).ends = proc[x].ends /\ ~met(x).alone
  <2> SUFFICES ASSUME NEW x \in Syncs
               PROVE  /\ met(x) \in Proc /\ met(x).pc = proc[x].pc /\ met(x).copy = proc[x].copy
                      /\ met(x).event = proc[x].event /\ met(x).found = proc[x].found
                      /\ met(x).status = proc[x].status /\ met(x).ends = proc[x].ends /\ ~met(x).alone
    OBVIOUS
  <2>1. proc[x] \in Proc
    BY DEF TypeOK, Handlers
  <2>2. QED
    BY <2>1 DEF Proc
<1>4. proc' = [x \in Handlers |-> next(x)]
  BY DEF Starts
<1> HIDE DEF own, met
<1>5. /\ next(w) = own
      /\ \A x \in Others(w) : next(x) = met(x)
      /\ \A x \in Handlers \ ({w} \cup Others(w)) : next(x) = proc[x]
  BY DEF Others
<1> HIDE DEF next
<1>6. /\ proc'[w] = own
      /\ \A x \in Others(w) : proc'[x] = met(x)
      /\ \A x \in Handlers \ ({w} \cup Others(w)) : proc'[x] = proc[x]
  BY <1>4, <1>5 DEF Others, Handlers
<1>7. proc' \in [Handlers -> Proc]
  <2>1. \A x \in Handlers : next(x) \in Proc
    BY <1>2, <1>3, <1>5 DEF TypeOK, Others, Handlers
  <2>2. QED
    BY <1>4, <2>1
<1>8. Others(w) = {} <=> \A x \in Syncs \ {w} : At(x, "idle")
  BY DEF Others
<1>9. ASSUME NEW x \in Syncs \ {w}
      PROVE  /\ proc'[x].pc = proc[x].pc /\ proc'[x].copy = proc[x].copy /\ proc'[x].event = proc[x].event
             /\ proc'[x].found = proc[x].found /\ proc'[x].status = proc[x].status /\ proc'[x].ends = proc[x].ends
             /\ Busy(x) => ~proc'[x].alone
  <2>1. CASE x \in Others(w)
    BY <1>3, <1>6, <2>1
  <2>2. CASE x \notin Others(w)
    BY <1>6, <2>2 DEF Others, Handlers, Busy
  <2>3. QED
    BY <2>1, <2>2
<1>10. \A x \in Checkouts \cup Desks : proc'[x] = proc[x]
  BY <1>6, ShopAssumption DEF Others, Handlers
<1>11. QED
  BY <1>2, <1>6, <1>7, <1>8, <1>9, <1>10 DEF Begun

LEMMA SyncNowEffect ==
  ASSUME TypeOK, NEW w \in Syncs, SyncNow(w)
  PROVE  /\ Begun(w, None, "fetch")
         /\ UNCHANGED <<row, customers, credited, session, sub, until, newest, now, events, saw, trusted, strayed, changes, failures>>
  BY StartsEffect DEF SyncNow, stripe, marks, bounds

LEMMA DeliverEffect ==
  ASSUME TypeOK, NEW w \in Syncs, NEW e \in events, Deliver(w, e)
  PROVE  /\ e \in Event /\ events' = events \ {e}
         /\ \/ e.type = "checkout" /\ session[e.of] # row.customer /\ UNCHANGED proc
            \/ e.type = "checkout" /\ session[e.of] = row.customer /\ Begun(w, e, "name")
            \/ e.type = "subscription" /\ Begun(w, e, "fetch")
         /\ UNCHANGED <<row, customers, credited, session, sub, until, newest, now, saw, trusted, strayed, changes, failures>>
<1>1. e \in Event
  BY DEF TypeOK
<1>2. e.type \in {"checkout", "subscription"}
  BY <1>1 DEF Event
<1>3. events' = events \ {e} /\ At(w, "idle")
      /\ UNCHANGED <<row, customers, credited, session, sub, until, newest, now, saw, trusted, strayed, changes, failures>>
  BY DEF Deliver, stripe, marks, bounds
<1>4. CASE e.type = "checkout" /\ session[e.of] # row.customer
  BY <1>1, <1>3, <1>4 DEF Deliver
<1>5. CASE e.type = "checkout" /\ session[e.of] = row.customer
  <2>1. Starts(w, e, "name")
    BY <1>5 DEF Deliver
  <2>2. QED
    BY <1>1, <1>3, <1>5, <2>1, StartsEffect
<1>6. CASE e.type = "subscription"
  <2>1. Starts(w, e, "fetch")
    BY <1>6 DEF Deliver
  <2>2. QED
    BY <1>1, <1>3, <1>6, <2>1, StartsEffect
<1>7. QED
  BY <1>2, <1>4, <1>5, <1>6

\* The row takes the name of an event's subscription.
Named(w) ==
  /\ OthersKeep(w) /\ At(w, "name") /\ proc[w].event \in Event
  /\ proc'[w].pc = "fetch" /\ proc'[w].event = proc[w].event /\ proc'[w].alone = proc[w].alone
  /\ proc'[w].copy \in Read /\ proc'[w].copy.sub = proc[w].event.of
  /\ proc'[w].copy.status = proc[w].copy.status /\ proc'[w].copy.ends = proc[w].copy.ends
  /\ proc'[w].copy.customer = proc[w].copy.customer
  /\ row' \in Row /\ row'.status = row.status /\ row'.ends = row.ends /\ row'.customer = row.customer
  /\ row'.credited = row.credited
  /\ row'.sub = IF proc[w].event.of # proc[w].copy.sub THEN proc[w].event.of ELSE row.sub
  /\ row'.sub # row.sub => (strayed' <=> row'.sub # newest)
  /\ row'.sub = row.sub => strayed' = strayed
  /\ strayed' \in BOOLEAN

LEMMA NameEffect ==
  ASSUME TypeOK, Kinds, NEW w \in Syncs, NameSub(w)
  PROVE  /\ Named(w)
         /\ UNCHANGED <<customers, credited, session, sub, until, newest, now, events, saw, trusted, changes, failures>>
<1> DEFINE copy == proc[w].copy
           mine == [copy EXCEPT !.sub = proc[w].event.of]
           new  == [proc[w] EXCEPT !.copy = mine, !.pc = "fetch"]
<1>1. /\ At(w, "name") /\ w \in Handlers /\ proc[w] \in Proc
      /\ copy \in Read /\ proc[w].event \in Event /\ proc[w].event.of \in Checkouts
  BY DEF NameSub, At, Kinds, Busy, TypeOK, Handlers, Event
<1>2. /\ mine \in Read /\ mine.sub = proc[w].event.of /\ mine.status = copy.status
      /\ mine.ends = copy.ends /\ mine.customer = copy.customer
      /\ \A f \in DOMAIN mine \ {"sub", "status", "ends"} : mine[f] = copy[f]
  BY <1>1 DEF Read, Names
<1> HIDE DEF mine
<1>3. /\ new \in Proc /\ new.pc = "fetch" /\ new.copy = mine /\ new.event = proc[w].event
      /\ new.alone = proc[w].alone
  BY <1>1, <1>2, CopiesAre DEF Proc, Pcs
<1>4. proc' = [proc EXCEPT ![w] = new] /\ row' = Saved(copy, mine) /\ strayed' = Stray(row'.sub)
  BY <1>1 DEF NameSub, TypeOK, mine
<1> HIDE DEF new
<1>5. OthersKeep(w) /\ proc'[w] = new
  BY <1>1, <1>3, <1>4 DEF TypeOK, OthersKeep
<1>6. /\ row' \in Row /\ row'.status = row.status /\ row'.ends = row.ends /\ row'.customer = row.customer
      /\ row'.credited = row.credited
      /\ row'.sub = IF proc[w].event.of # copy.sub THEN proc[w].event.of ELSE row.sub
  BY <1>1, <1>2, <1>4, SavedIs DEF TypeOK
<1>7. strayed' \in BOOLEAN
  BY <1>4 DEF Stray, TypeOK
<1>8. Named(w)
  BY <1>1, <1>2, <1>3, <1>4, <1>5, <1>6, <1>7 DEF Named, Stray
<1>9. QED
  BY <1>8 DEF NameSub, stripe, bounds

\* A worker has asked Stripe; without a failed call, about the subscription its copy
\* names, its customer's newest, or that of its last session.
Fetched(w) ==
  /\ OthersKeep(w) /\ At(w, "fetch")
  /\ proc'[w].pc = "save" /\ proc'[w].copy = proc[w].copy /\ proc'[w].event = proc[w].event
  /\ proc'[w].found \in Names /\ proc'[w].status = Mapped(proc'[w].found)
  /\ proc'[w].ends = Until(proc'[w].found)
  /\ \/ proc'[w].found = proc[w].copy.sub \/ proc'[w].found = InSession(proc[w].copy.session)
     \/ proc'[w].found = None
     \/ proc[w].copy.customer # None /\ proc'[w].found \in Listed(proc[w].copy.customer)
  /\ proc'[w].alone =>
       /\ proc[w].alone
       /\ \/ proc[w].copy.sub # None /\ proc'[w].found = proc[w].copy.sub
          \/ /\ proc[w].copy.sub = None /\ proc[w].copy.customer # None
             /\ \E c \in Listed(proc[w].copy.customer) :
                  proc'[w].found = IF c # None THEN c ELSE InSession(proc[w].copy.session)
          \/ proc[w].copy.sub = None /\ proc[w].copy.customer = None /\ proc'[w].found = None

LEMMA FetchEffect ==
  ASSUME TypeOK, Kinds, NEW w \in Syncs, Fetch(w)
  PROVE  /\ Fetched(w) /\ changes' \in 0 .. MaxChanges /\ failures' \in 0 .. MaxFailures
         /\ UNCHANGED <<row, customers, credited, session, sub, until, newest, now, events, saw, trusted, strayed>>
<1> DEFINE copy == proc[w].copy
           finds(c) == [proc[w] EXCEPT !.found = c, !.status = Mapped(c), !.ends = Until(c), !.pc = "save"]
           lone(c)  == [finds(c) EXCEPT !.alone = FALSE]
<1>1. At(w, "fetch") /\ w \in Handlers /\ proc[w] \in Proc /\ copy \in Read
  BY DEF Fetch, At, Kinds, Busy, TypeOK, Handlers
<1>2. UNCHANGED <<row, customers, credited, session, sub, until, newest, now, events, saw, trusted, strayed>>
  BY DEF Fetch, stripe, marks
<1>3. copy.sub \in Names /\ None \in Names /\ InSession(copy.session) \in Names
  BY <1>1 DEF Read, Names, InSession
<1>4. \A x : Listed(x) \subseteq Names
  BY DEF Listed, Names, TypeOK
<1>5. \A c \in Names :
        /\ finds(c) \in Proc /\ finds(c).pc = "save" /\ finds(c).copy = copy
        /\ finds(c).event = proc[w].event /\ finds(c).found = c /\ finds(c).status = Mapped(c)
        /\ finds(c).ends = Until(c)
        /\ finds(c).alone = proc[w].alone
  BY <1>1, MappedIs, UntilIs DEF Proc, Pcs
<1>6. \A c \in Names :
        /\ lone(c) \in Proc /\ lone(c).pc = "save" /\ lone(c).copy = copy
        /\ lone(c).event = proc[w].event /\ lone(c).found = c /\ lone(c).status = Mapped(c)
        /\ lone(c).ends = Until(c)
        /\ ~lone(c).alone
  BY <1>1, MappedIs, UntilIs DEF Proc, Pcs
<1>7. \/ copy.sub # None /\ Works /\ proc' = [proc EXCEPT ![w] = finds(copy.sub)]
      \/ /\ copy.sub = None /\ copy.customer # None /\ Works
         /\ \E c \in Listed(copy.customer) :
              proc' = [proc EXCEPT ![w] = finds(IF c # None THEN c ELSE InSession(copy.session))]
      \/ copy.sub = None /\ copy.customer = None /\ Works /\ proc' = [proc EXCEPT ![w] = finds(None)]
      \/ copy.sub # None /\ Fails /\ proc' = [proc EXCEPT ![w] = lone(InSession(copy.session))]
  BY DEF Fetch
<1> HIDE DEF finds, lone
<1>8. \A new \in Proc : proc' = [proc EXCEPT ![w] = new] => OthersKeep(w) /\ proc'[w] = new
  BY <1>1 DEF TypeOK, OthersKeep
<1>9. CASE copy.sub # None /\ Works /\ proc' = [proc EXCEPT ![w] = finds(copy.sub)]
  <2>1. OthersKeep(w) /\ proc'[w] = finds(copy.sub)
    BY <1>3, <1>5, <1>8, <1>9
  <2>2. Fetched(w)
    BY <1>1, <1>3, <1>5, <1>9, <2>1 DEF Fetched
  <2>3. QED
    BY <1>2, <1>9, <2>2 DEF Works, bounds, TypeOK
<1>10. CASE /\ copy.sub = None /\ copy.customer # None /\ Works
            /\ \E c \in Listed(copy.customer) :
                 proc' = [proc EXCEPT ![w] = finds(IF c # None THEN c ELSE InSession(copy.session))]
  <2>1. PICK c \in Listed(copy.customer) :
          proc' = [proc EXCEPT ![w] = finds(IF c # None THEN c ELSE InSession(copy.session))]
    BY <1>10
  <2> DEFINE found == IF c # None THEN c ELSE InSession(copy.session)
  <2>2. found \in Names
    BY <1>3, <1>4
  <2>3. OthersKeep(w) /\ proc'[w] = finds(found)
    BY ZenonT(60), <1>5, <1>8, <2>1, <2>2
  <2>4. Fetched(w)
    BY <1>1, <1>5, <1>10, <2>2, <2>3 DEF Fetched
  <2>5. QED
    BY <1>2, <1>10, <2>4 DEF Works, bounds, TypeOK
<1>11. CASE copy.sub = None /\ copy.customer = None /\ Works /\ proc' = [proc EXCEPT ![w] = finds(None)]
  <2>1. OthersKeep(w) /\ proc'[w] = finds(None)
    BY <1>3, <1>5, <1>8, <1>11
  <2>2. Fetched(w)
    BY <1>1, <1>3, <1>5, <1>11, <2>1 DEF Fetched
  <2>3. QED
    BY <1>2, <1>11, <2>2 DEF Works, bounds, TypeOK
<1>12. CASE copy.sub # None /\ Fails /\ proc' = [proc EXCEPT ![w] = lone(InSession(copy.session))]
  <2>1. OthersKeep(w) /\ proc'[w] = lone(InSession(copy.session))
    BY <1>3, <1>6, <1>8, <1>12
  <2>2. Fetched(w)
    BY <1>1, <1>3, <1>6, <1>12, <2>1 DEF Fetched
  <2>3. QED
    BY <1>2, <1>12, <2>2, ShopAssumption DEF Fails, TypeOK
<1>13. QED
  BY <1>7, <1>9, <1>10, <1>11, <1>12

LEMMA FetchFailsEffect ==
  ASSUME TypeOK, NEW w \in Syncs, FetchFails(w)
  PROVE  /\ OthersKeep(w) /\ At(w, "fetch") /\ proc'[w].pc = "idle"
         /\ events' = events \cup ({proc[w].event} \ {None})
         /\ changes' \in 0 .. MaxChanges /\ failures' \in 0 .. MaxFailures
         /\ UNCHANGED <<row, customers, credited, session, sub, until, newest, now, saw, trusted, strayed>>
<1>1. w \in Handlers
  BY DEF Handlers
<1>2. QED
  BY <1>1, LeavesEffect, ShopAssumption DEF FetchFails, Fails, stripe, marks, TypeOK

\* The row is saved as Stripe described it.
Kept(w) ==
  /\ OthersKeep(w) /\ At(w, "save") /\ proc'[w].pc = "idle"
  /\ row' \in Row /\ row'.customer = row.customer /\ row'.credited = row.credited
  /\ row'.status = IF proc[w].status # proc[w].copy.status THEN proc[w].status ELSE row.status
  /\ row'.ends = IF proc[w].ends # proc[w].copy.ends THEN proc[w].ends ELSE row.ends
  /\ row'.sub = IF proc[w].found # None /\ proc[w].found # proc[w].copy.sub
                THEN proc[w].found ELSE row.sub
  /\ row'.sub # row.sub => (strayed' <=> row'.sub # newest)
  /\ row'.sub = row.sub => strayed' = strayed
  /\ strayed' \in BOOLEAN
  /\ trusted' = proc[w].alone

LEMMA SaveEffect ==
  ASSUME TypeOK, Kinds, NEW w \in Syncs, SaveSync(w)
  PROVE  /\ Kept(w)
         /\ UNCHANGED <<customers, credited, session, sub, until, newest, now, events, saw, changes, failures>>
<1> DEFINE copy == proc[w].copy
           new  == Synced(w)
<1>1. /\ At(w, "save") /\ w \in Handlers /\ proc[w] \in Proc /\ copy \in Read
      /\ proc[w].status \in Statuses /\ proc[w].found \in Names
      /\ proc[w].ends \in Dates \cup {None}
  BY DEF SaveSync, At, Kinds, Busy, TypeOK, Handlers, Proc
<1>2. /\ new \in Read /\ new.status = proc[w].status /\ new.ends = proc[w].ends
      /\ new.sub = (IF proc[w].found # None THEN proc[w].found ELSE copy.sub)
      /\ \A f \in DOMAIN new \ {"sub", "status", "ends"} : new[f] = copy[f]
  BY <1>1 DEF Synced, Read
<1>3. row' = Saved(copy, new) /\ strayed' = Stray(row'.sub) /\ trusted' = proc[w].alone
  BY DEF SaveSync
<1> HIDE DEF new
<1>4. /\ row' \in Row /\ row'.customer = row.customer /\ row'.credited = row.credited
      /\ row'.status = (IF new.status # copy.status THEN new.status ELSE row.status)
      /\ row'.ends = (IF new.ends # copy.ends THEN new.ends ELSE row.ends)
      /\ row'.sub = (IF new.sub # copy.sub THEN new.sub ELSE row.sub)
  BY <1>1, <1>2, <1>3, SavedIs DEF TypeOK
<1>5. OthersKeep(w) /\ proc'[w].pc = "idle"
  BY <1>1, LeavesEffect DEF SaveSync
<1>6. strayed' \in BOOLEAN
  BY <1>3 DEF Stray, TypeOK
<1>7. Kept(w)
  BY <1>1, <1>2, <1>3, <1>4, <1>5, <1>6 DEF Kept, Stray
<1>8. QED
  BY <1>7 DEF SaveSync, stripe, bounds

\* Steps that leave the workers, the subscriptions and the events alone.
AsideStep ==
  \/ \E c \in Checkouts :
       (\E kind \in {"checkout", "portal"} : CheckoutBegin(c, kind))
         \/ EnsureCustomer(c) \/ GrantCredit(c) \/ CreateSession(c)
  \/ \E d \in Desks : (\E kind \in DeskKinds : DeskBegin(d, kind)) \/ (\E given \in Overrides : DeskWrite(d, given))

Aside ==
  /\ \A w \in Syncs : proc'[w] = proc[w]
  /\ row'.sub = row.sub /\ row'.status = row.status /\ row'.ends = row.ends /\ customers \subseteq customers'
  /\ UNCHANGED <<sub, until, newest, events, trusted, strayed>>

LEMMA AsideEffect == ASSUME TypeOK, Kinds, AsideStep PROVE Aside
<1> USE ShopAssumption DEF Aside, OthersKeep, Handlers
<1>1. ASSUME NEW c \in Checkouts, NEW kind \in {"checkout", "portal"}, CheckoutBegin(c, kind) PROVE Aside
  BY <1>1, BeginEffect
<1>2. ASSUME NEW c \in Checkouts, EnsureCustomer(c) PROVE Aside
  BY <1>2, EnsureEffect DEF Ensured
<1>3. ASSUME NEW c \in Checkouts, GrantCredit(c) PROVE Aside
  BY <1>3, GrantEffect DEF Granted
<1>4. ASSUME NEW c \in Checkouts, CreateSession(c) PROVE Aside
  BY <1>4, SessionEffect DEF Opened
<1>5. ASSUME NEW d \in Desks, (\E kind \in DeskKinds : DeskBegin(d, kind)) \/ (\E given \in Overrides : DeskWrite(d, given)) PROVE Aside
  BY <1>5, DeskEffect DEF Attended
<1>6. QED
  BY <1>1, <1>2, <1>3, <1>4, <1>5 DEF AsideStep

LEMMA NoCustomerNoSub ==
  ASSUME TypeOK, AllPaid, AllMet, row.customer = None
  PROVE  newest = None
  BY DEF TypeOK, Names, AllPaid, Paid, AllMet, Met

\* With one customer the event of a checkout finds the shop.
LEMMA NothingDropped ==
  ASSUME TypeOK, AllPaid, AllMet, OneCustomer, NEW e \in events
  PROVE  session[e.of] = row.customer
<1>1. e.of \in Checkouts /\ sub[e.of] # None
  BY DEF TypeOK, Event, AllPaid
<1>2. session[e.of] \in customers /\ row.customer \in customers
  BY <1>1 DEF AllPaid, AllMet, Met
<1>3. QED
  BY <1>2 DEF OneCustomer

\* The newest subscription is the one a lone customer's list begins with.
LEMMA ListedIsNewest ==
  ASSUME TypeOK, AllPaid, AllMet, OneCustomer, NEW x \in customers, NEW c \in Listed(x), NEW s \in Names
  PROVE  (IF c # None THEN c ELSE InSession(s)) = newest
<1> DEFINE subs == {d \in Checkouts : sub[d] # None /\ session[d] = x}
<1>1. CASE newest = None
  <2>1. \A d \in Checkouts : sub[d] = None
    BY <1>1 DEF AllPaid
  <2>2. c = None
    BY <1>1, <2>1 DEF Listed, Names
  <2>3. InSession(s) = None
    BY <2>1 DEF InSession, Names
  <2>4. QED
    BY <1>1, <2>2, <2>3
<1>2. CASE newest # None
  <2>1. newest \in Checkouts /\ sub[newest] # None
    BY <1>2 DEF TypeOK, Names, AllPaid, Paid
  <2>2. session[newest] = x
    BY <2>1 DEF AllPaid, AllMet, Met, OneCustomer
  <2>3. Listed(x) = {newest}
    BY <2>1, <2>2 DEF Listed
  <2>4. QED
    BY <1>2, <2>3
<1>3. QED
  BY <1>1, <1>2

---------------------------------------------------------------------------
\* Every variable keeps its type.
LEMMA TypeOKStep == ASSUME IInv, [Next]_vars PROVE TypeOK'
<1> USE ShopAssumption DEF At, Busy, Handlers
<1>a. TypeOK /\ Kinds
  BY DEF IInv
<1>1. ASSUME NEW c \in Checkouts, NEW kind \in {"checkout", "portal"}, CheckoutBegin(c,
     kind) PROVE TypeOK'
  BY <1>1, <1>a, BeginEffect, CopyIs DEF OthersKeep, TypeOK
<1>2. ASSUME NEW c \in Checkouts, EnsureCustomer(c) PROVE TypeOK'
  BY <1>2, <1>a, EnsureEffect DEF Ensured, OthersKeep, TypeOK
<1>3. ASSUME NEW c \in Checkouts, GrantCredit(c) PROVE TypeOK'
  BY <1>3, <1>a, GrantEffect DEF Granted, OthersKeep, TypeOK
<1>4. ASSUME NEW c \in Checkouts, CreateSession(c) PROVE TypeOK'
  <2>1. proc[c].copy.customer \in Names
    BY <1>4, <1>a DEF CreateSession, Kinds, Looked
  <2>2. QED
    BY <1>4, <1>a, <2>1, SessionEffect DEF Opened, OthersKeep, TypeOK
<1>5. ASSUME NEW c \in Checkouts, Pay(c) PROVE TypeOK'
  <2>1. {[of |-> c, type |-> "checkout"], [of |-> c, type |-> "subscription"]} \subseteq Event
    BY DEF Event
  <2>2. sub' \in [Checkouts -> Live \cup {"canceled", None}]
    BY <1>5, <1>a DEF Pay, TypeOK
  <2>3. until' \in [Checkouts -> Dates \cup {None}]
    BY <1>5, <1>a, NextDate DEF Pay, TypeOK
  <2>4. QED
    BY <1>5, <1>a, <2>1, <2>2, <2>3 DEF Pay, TypeOK, Names, marks, bounds
<1>6. ASSUME NEW c \in Checkouts, NEW status \in Live \cup {"canceled"}, NEW date \in Dates,
             ChangeSub(c, status, date) PROVE TypeOK'
  <2>1. [of |-> c, type |-> "subscription"] \in Event
    BY DEF Event
  <2>2. sub' \in [Checkouts -> Live \cup {"canceled", None}]
    BY <1>6, <1>a DEF ChangeSub, TypeOK
  <2>3. changes' \in 0 .. MaxChanges
    BY <1>6, <1>a DEF ChangeSub, TypeOK
  <2>4. QED
    BY <1>6, <1>a, <2>1, <2>2, <2>3 DEF ChangeSub, TypeOK, marks
<1>7. ASSUME NEW w \in Syncs, SyncNow(w) PROVE TypeOK'
  BY <1>7, <1>a, SyncNowEffect, CopyIs DEF Begun, TypeOK
<1>8. ASSUME NEW w \in Syncs, NEW e \in events, Deliver(w, e) PROVE TypeOK'
  BY <1>8, <1>a, DeliverEffect, CopyIs DEF Begun, TypeOK
<1>9. ASSUME NEW w \in Syncs, NameSub(w) PROVE TypeOK'
  <2>1. strayed' \in BOOLEAN
    BY <1>9, <1>a, NameEffect DEF Named
  <2>2. QED
    BY <1>9, <1>a, <2>1, NameEffect DEF Named, OthersKeep, TypeOK
<1>10. ASSUME NEW w \in Syncs, Fetch(w) PROVE TypeOK'
  BY <1>10, <1>a, FetchEffect DEF Fetched, OthersKeep, TypeOK
<1>11. ASSUME NEW w \in Syncs, FetchFails(w) PROVE TypeOK'
  <2>1. proc[w].event \in Event \cup {None}
    BY <1>a DEF TypeOK, Proc
  <2>2. QED
    BY <1>11, <1>a, <2>1, FetchFailsEffect DEF OthersKeep, TypeOK
<1>12. ASSUME NEW w \in Syncs, SaveSync(w) PROVE TypeOK'
  <2>1. strayed' \in BOOLEAN
    BY <1>12, <1>a, SaveEffect DEF Kept
  <2>2. trusted' \in BOOLEAN
    BY <1>12, <1>a, SaveEffect DEF Kept, TypeOK, Proc
  <2>3. QED
    BY <1>12, <1>a, <2>1, <2>2, SaveEffect DEF Kept, OthersKeep, TypeOK
<1>13. ASSUME NEW d \in Desks, (\E kind \in DeskKinds : DeskBegin(d, kind)) \/
     (\E given \in Overrides : DeskWrite(d, given)) PROVE TypeOK'
  BY <1>13, <1>a, DeskEffect DEF Attended, OthersKeep, TypeOK
<1>14. ASSUME UNCHANGED vars PROVE TypeOK'
  BY <1>14, <1>a DEF vars, TypeOK, stripe, marks, bounds
<1>15. ASSUME Tick PROVE TypeOK'
  BY <1>15, <1>a DEF Tick, TypeOK, stripe, marks, bounds
<1> QED
  BY <1>1, <1>2, <1>3, <1>4, <1>5, <1>6, <1>7, <1>8, <1>9, <1>10, <1>11, <1>12, <1>13,
       <1>14, <1>15 DEF Next

\* A request takes the next step of its kind.
LEMMA KindsStep == ASSUME IInv, [Next]_vars PROVE Kinds'
<1> USE ShopAssumption DEF At, Busy, Handlers
<1>a. TypeOK /\ Kinds
  BY DEF IInv
<1>1. ASSUME NEW c \in Checkouts, NEW kind \in {"checkout", "portal"}, CheckoutBegin(c,
     kind) PROVE Kinds'
  BY SMTT(30), <1>1, <1>a, BeginEffect, CopyIs DEF OthersKeep, Kinds, TypeOK
<1>2. ASSUME NEW c \in Checkouts, EnsureCustomer(c) PROVE Kinds'
  BY <1>2, <1>a, EnsureEffect DEF Ensured, OthersKeep, Kinds, TypeOK
<1>3. ASSUME NEW c \in Checkouts, GrantCredit(c) PROVE Kinds'
  BY <1>3, <1>a, GrantEffect DEF Granted, OthersKeep, Kinds, TypeOK
<1>4. ASSUME NEW c \in Checkouts, CreateSession(c) PROVE Kinds'
  BY <1>4, <1>a, SessionEffect DEF Opened, OthersKeep, Kinds, TypeOK
<1>5. ASSUME NEW c \in Checkouts, Pay(c) PROVE Kinds'
  BY <1>5, <1>a DEF Pay, stripe, marks, bounds, Kinds, TypeOK
<1>6. ASSUME NEW c \in Checkouts, NEW status \in Live \cup {"canceled"}, NEW date \in Dates,
             ChangeSub(c, status, date) PROVE Kinds'
  BY <1>6, <1>a DEF ChangeSub, marks, Kinds, TypeOK
<1>7. ASSUME NEW w \in Syncs, SyncNow(w) PROVE Kinds'
  BY <1>7, <1>a, SyncNowEffect, CopyIs DEF Begun, Kinds, TypeOK
<1>8. ASSUME NEW w \in Syncs, NEW e \in events, Deliver(w, e) PROVE Kinds'
  BY <1>8, <1>a, DeliverEffect, CopyIs DEF Begun, Kinds, TypeOK
<1>9. ASSUME NEW w \in Syncs, NameSub(w) PROVE Kinds'
  BY <1>9, <1>a, NameEffect DEF Named, OthersKeep, Kinds, TypeOK
<1>10. ASSUME NEW w \in Syncs, Fetch(w) PROVE Kinds'
  <2>1. proc'[w].status \in Statuses
    BY <1>10, <1>a, FetchEffect, MappedIs DEF Fetched
  <2>2. QED
    BY <1>10, <1>a, <2>1, FetchEffect DEF Fetched, OthersKeep, Kinds, TypeOK
<1>11. ASSUME NEW w \in Syncs, FetchFails(w) PROVE Kinds'
  BY <1>11, <1>a, FetchFailsEffect DEF OthersKeep, Kinds, TypeOK
<1>12. ASSUME NEW w \in Syncs, SaveSync(w) PROVE Kinds'
  BY <1>12, <1>a, SaveEffect DEF Kept, OthersKeep, Kinds, TypeOK
<1>13. ASSUME NEW d \in Desks, (\E kind \in DeskKinds : DeskBegin(d, kind)) \/
     (\E given \in Overrides : DeskWrite(d, given)) PROVE Kinds'
  BY <1>13, <1>a, DeskEffect DEF Attended, OthersKeep, Kinds, TypeOK
<1>14. ASSUME UNCHANGED vars PROVE Kinds'
  BY <1>14, <1>a DEF vars, Kinds, TypeOK, stripe, marks, bounds
<1>15. ASSUME Tick PROVE Kinds'
  BY <1>15, <1>a DEF Tick, Kinds, TypeOK, stripe, marks, bounds
<1> QED
  BY <1>1, <1>2, <1>3, <1>4, <1>5, <1>6, <1>7, <1>8, <1>9, <1>10, <1>11, <1>12, <1>13,
       <1>14, <1>15 DEF Next

\* A subscription is never taken back.
LEMMA AllPaidStep == ASSUME IInv, [Next]_vars PROVE AllPaid'
<1> USE ShopAssumption DEF At, Busy, Handlers
<1>a. TypeOK /\ Kinds /\ AllPaid /\ AllMet
  BY DEF IInv
<1>1. ASSUME NEW c \in Checkouts, NEW kind \in {"checkout", "portal"}, CheckoutBegin(c,
     kind) PROVE AllPaid'
  BY <1>1, <1>a, BeginEffect, CopyIs DEF OthersKeep, AllPaid, Paid, TypeOK
<1>2. ASSUME NEW c \in Checkouts, EnsureCustomer(c) PROVE AllPaid'
  BY <1>2, <1>a, EnsureEffect DEF Ensured, OthersKeep, AllPaid, Paid, TypeOK
<1>3. ASSUME NEW c \in Checkouts, GrantCredit(c) PROVE AllPaid'
  BY <1>3, <1>a, GrantEffect DEF Granted, OthersKeep, AllPaid, Paid, TypeOK
<1>4. ASSUME NEW c \in Checkouts, CreateSession(c) PROVE AllPaid'
  <2>1. \A d \in Checkouts : session[d] # None => session'[d] # None
    BY <1>4, <1>a, SessionEffect DEF Opened, AllMet, TypeOK
  <2>2. QED
    BY <1>4, <1>a, <2>1, SessionEffect DEF Opened, OthersKeep, AllPaid, Paid
<1>5. ASSUME NEW c \in Checkouts, Pay(c) PROVE AllPaid'
  <2>1. /\ c # None /\ session[c] # None /\ sub'[c] # None /\ until'[c] # None
        /\ \A d \in Checkouts \ {c} : sub'[d] = sub[d] /\ until'[d] = until[d]
    BY <1>5, <1>a, NextDate DEF Pay, TypeOK
  <2>2. newest' = c /\ UNCHANGED <<row, session, proc>>
    BY <1>5 DEF Pay
  <2>3. \A x \in Checkouts : sub[x] # None => sub'[x] # None
    BY <2>1
  <2>4. \A e \in events' : e \in events \/ e.of = c
    BY <1>5 DEF Pay
  <2>5. \A e \in events : e.of \in Checkouts
    BY <1>a DEF TypeOK, Event
  <2>6. /\ Paid(row.sub)' /\ Paid(newest)'
        /\ \A e \in events' : sub'[e.of] # None
        /\ \A d \in Checkouts : sub'[d] # None =>
             session[d] # None /\ newest' # None /\ until'[d] # None
    BY <1>a, <2>1, <2>2, <2>3, <2>4, <2>5 DEF AllPaid, Paid, TypeOK, Row, Names
  <2>7. ASSUME NEW w \in Syncs
        PROVE  /\ Busy(w) => Paid(proc[w].copy.sub)'
               /\ Busy(w) /\ proc[w].event # None => sub'[proc[w].event.of] # None
               /\ At(w, "save") => Paid(proc[w].found)'
    <3>1. proc[w] \in Proc /\ (Busy(w) => proc[w].copy \in Read)
      BY <1>a DEF TypeOK, Kinds
    <3> QED
      BY <1>a, <2>2, <2>3, <3>1 DEF AllPaid, Paid, Proc, Event, Read, Names
  <2> QED
    BY <2>2, <2>6, <2>7 DEF AllPaid
<1>6. ASSUME NEW c \in Checkouts, NEW status \in Live \cup {"canceled"}, NEW date \in Dates,
             ChangeSub(c, status, date) PROVE AllPaid'
  BY <1>6, <1>a DEF ChangeSub, marks, AllPaid, Paid, TypeOK
<1>7. ASSUME NEW w \in Syncs, SyncNow(w) PROVE AllPaid'
  BY <1>7, <1>a, SyncNowEffect, CopyIs DEF Begun, AllPaid, Paid, TypeOK
<1>8. ASSUME NEW w \in Syncs, NEW e \in events, Deliver(w, e) PROVE AllPaid'
  BY <1>8, <1>a, DeliverEffect, CopyIs DEF Begun, AllPaid, Paid, TypeOK
<1>9. ASSUME NEW w \in Syncs, NameSub(w) PROVE AllPaid'
  BY <1>9, <1>a, NameEffect DEF Named, OthersKeep, AllPaid, Paid, TypeOK
<1>10. ASSUME NEW w \in Syncs, Fetch(w) PROVE AllPaid'
  <2>1. proc[w].copy \in Read
    BY <1>10, <1>a DEF Fetch, Kinds
  <2>2. Paid(proc'[w].found)
    <3>1. /\ Fetched(w) /\ UNCHANGED sub
      BY <1>10, <1>a, FetchEffect
    <3>2. Paid(proc[w].copy.sub) /\ Paid(newest)
      BY <1>a, <3>1 DEF Fetched, AllPaid
    <3>3. \A x : \A c \in Listed(x) : Paid(c)
      BY <3>2 DEF Listed, Paid
    <3>4. \A x : Paid(InSession(x))
      BY DEF InSession, Paid
    <3>5. Paid(proc'[w].found)
      BY <3>1, <3>2, <3>3, <3>4 DEF Fetched, Paid
    <3> QED
      BY <3>1, <3>5 DEF Paid
  <2>3. QED
    BY <1>10, <1>a, <2>2, FetchEffect DEF Fetched, OthersKeep, AllPaid, Paid
<1>11. ASSUME NEW w \in Syncs, FetchFails(w) PROVE AllPaid'
  BY <1>11, <1>a, FetchFailsEffect DEF OthersKeep, AllPaid, Paid, TypeOK
<1>12. ASSUME NEW w \in Syncs, SaveSync(w) PROVE AllPaid'
  BY <1>12, <1>a, SaveEffect DEF Kept, OthersKeep, AllPaid, Paid, TypeOK
<1>13. ASSUME NEW d \in Desks, (\E kind \in DeskKinds : DeskBegin(d, kind)) \/
     (\E given \in Overrides : DeskWrite(d, given)) PROVE AllPaid'
  <2>1. /\ Attended(d) /\ UNCHANGED <<sub, until, newest, session, events>>
    BY <1>13, <1>a, DeskEffect
  <2>2. row'.sub = row.sub /\ \A w \in Syncs : proc'[w] = proc[w]
    BY <2>1 DEF Attended, OthersKeep
  <2> QED
    BY <1>a, <2>1, <2>2 DEF AllPaid, Paid
<1>14. ASSUME UNCHANGED vars PROVE AllPaid'
  BY <1>14, <1>a DEF vars, AllPaid, Paid, TypeOK, stripe, marks, bounds
<1>15. ASSUME Tick PROVE AllPaid'
  BY <1>15, <1>a DEF Tick, AllPaid, Paid, TypeOK, stripe, marks, bounds
<1> QED
  BY <1>1, <1>2, <1>3, <1>4, <1>5, <1>6, <1>7, <1>8, <1>9, <1>10, <1>11, <1>12, <1>13,
       <1>14, <1>15 DEF Next

\* A customer is made before it is named.
LEMMA AllMetStep == ASSUME IInv, [Next]_vars PROVE AllMet'
<1> USE ShopAssumption DEF At, Busy, Handlers
<1>a. TypeOK /\ Kinds /\ AllMet
  BY DEF IInv
<1>1. ASSUME NEW c \in Checkouts, NEW kind \in {"checkout", "portal"}, CheckoutBegin(c,
     kind) PROVE AllMet'
  BY <1>1, <1>a, BeginEffect, CopyIs DEF OthersKeep, AllMet, Met, TypeOK
<1>2. ASSUME NEW c \in Checkouts, EnsureCustomer(c) PROVE AllMet'
  <2>1. Ensured(c) /\ UNCHANGED session
    BY <1>2, <1>a, EnsureEffect
  <2>2. IsFiniteSet(customers')
    BY <1>a, <2>1, FS_AddElement DEF Ensured, AllMet
  <2>3. customers \subseteq customers' /\ (row.customer # None => row'.customer # None)
    BY <2>1 DEF Ensured
  <2>4. \A x : Met(x) => Met(x)'
    BY <2>3 DEF Met
  <2>5. Met(row.customer)'
    BY <1>a, <2>1, <2>3 DEF Ensured, AllMet, Met
  <2>6. /\ proc'[c].pc \in {"customer", "credit", "session"} => Met(proc[c].copy.customer)'
        /\ proc'[c].pc \in {"credit", "session"} => proc'[c].copy.customer # None
    BY <1>a, <2>1, <2>3, <2>4 DEF Ensured, AllMet, Met
  <2>7. QED
    BY <1>a, <2>1, <2>2, <2>4, <2>5, <2>6 DEF Ensured, OthersKeep, AllMet, TypeOK
<1>3. ASSUME NEW c \in Checkouts, GrantCredit(c) PROVE AllMet'
  BY <1>3, <1>a, GrantEffect DEF Granted, OthersKeep, AllMet, Met, TypeOK
<1>4. ASSUME NEW c \in Checkouts, CreateSession(c) PROVE AllMet'
  BY <1>4, <1>a, SessionEffect DEF Opened, OthersKeep, AllMet, Met, TypeOK
<1>5. ASSUME NEW c \in Checkouts, Pay(c) PROVE AllMet'
  BY <1>5, <1>a DEF Pay, stripe, marks, bounds, AllMet, Met, TypeOK
<1>6. ASSUME NEW c \in Checkouts, NEW status \in Live \cup {"canceled"}, NEW date \in Dates,
             ChangeSub(c, status, date) PROVE AllMet'
  BY <1>6, <1>a DEF ChangeSub, marks, AllMet, Met, TypeOK
<1>7. ASSUME NEW w \in Syncs, SyncNow(w) PROVE AllMet'
  BY <1>7, <1>a, SyncNowEffect, CopyIs DEF Begun, AllMet, Met, TypeOK
<1>8. ASSUME NEW w \in Syncs, NEW e \in events, Deliver(w, e) PROVE AllMet'
  BY <1>8, <1>a, DeliverEffect, CopyIs DEF Begun, AllMet, Met, TypeOK
<1>9. ASSUME NEW w \in Syncs, NameSub(w) PROVE AllMet'
  BY <1>9, <1>a, NameEffect DEF Named, OthersKeep, AllMet, Met, TypeOK
<1>10. ASSUME NEW w \in Syncs, Fetch(w) PROVE AllMet'
  BY <1>10, <1>a, FetchEffect DEF Fetched, OthersKeep, AllMet, Met, TypeOK
<1>11. ASSUME NEW w \in Syncs, FetchFails(w) PROVE AllMet'
  BY <1>11, <1>a, FetchFailsEffect DEF OthersKeep, AllMet, Met, TypeOK
<1>12. ASSUME NEW w \in Syncs, SaveSync(w) PROVE AllMet'
  BY <1>12, <1>a, SaveEffect DEF Kept, OthersKeep, AllMet, Met, TypeOK
<1>13. ASSUME NEW d \in Desks, (\E kind \in DeskKinds : DeskBegin(d, kind)) \/
     (\E given \in Overrides : DeskWrite(d, given)) PROVE AllMet'
  BY <1>13, <1>a, DeskEffect DEF Attended, OthersKeep, AllMet, Met, TypeOK
<1>14. ASSUME UNCHANGED vars PROVE AllMet'
  BY <1>14, <1>a DEF vars, AllMet, Met, TypeOK, stripe, marks, bounds
<1>15. ASSUME Tick PROVE AllMet'
  BY <1>15, <1>a DEF Tick, AllMet, Met, TypeOK, stripe, marks, bounds
<1> QED
  BY <1>1, <1>2, <1>3, <1>4, <1>5, <1>6, <1>7, <1>8, <1>9, <1>10, <1>11, <1>12, <1>13,
       <1>14, <1>15 DEF Next

\* Who begins beside a worker takes it the mark of running alone.
LEMMA AloneIsFreshStep == ASSUME IInv, [Next]_vars PROVE AloneIsFresh'
<1> USE ShopAssumption DEF At, Busy, Handlers
<1>a. TypeOK /\ Kinds /\ AloneIsFresh
  BY DEF IInv
<1>1. ASSUME AsideStep PROVE AloneIsFresh'
  BY <1>1, <1>a, AsideEffect DEF Aside, AloneIsFresh
<1>2. ASSUME NEW c \in Checkouts, Pay(c) PROVE AloneIsFresh'
  BY <1>2, <1>a DEF Pay, stripe, marks, bounds, AloneIsFresh
<1>3. ASSUME NEW c \in Checkouts, NEW status \in Live \cup {"canceled"}, NEW date \in Dates,
             ChangeSub(c, status, date) PROVE AloneIsFresh'
  BY <1>3, <1>a DEF ChangeSub, marks, AloneIsFresh
<1>4. ASSUME NEW w \in Syncs, SyncNow(w) PROVE AloneIsFresh'
  BY <1>4, <1>a, SyncNowEffect, CopyIs DEF Begun, AloneIsFresh
<1>5. ASSUME NEW w \in Syncs, NEW e \in events, Deliver(w, e) PROVE AloneIsFresh'
  BY <1>5, <1>a, DeliverEffect, CopyIs DEF Begun, AloneIsFresh
<1>6. ASSUME NEW w \in Syncs, NameSub(w) PROVE AloneIsFresh'
  BY <1>6, <1>a, NameEffect DEF Named, OthersKeep, AloneIsFresh
<1>7. ASSUME NEW w \in Syncs, Fetch(w) PROVE AloneIsFresh'
  BY <1>7, <1>a, FetchEffect DEF Fetched, OthersKeep, AloneIsFresh
<1>8. ASSUME NEW w \in Syncs, FetchFails(w) PROVE AloneIsFresh'
  BY <1>8, <1>a, FetchFailsEffect DEF OthersKeep, AloneIsFresh
<1>9. ASSUME NEW w \in Syncs, SaveSync(w) PROVE AloneIsFresh'
  BY <1>9, <1>a, SaveEffect DEF Kept, OthersKeep, AloneIsFresh
<1>10. ASSUME UNCHANGED vars PROVE AloneIsFresh'
  BY <1>10, <1>a DEF vars, AloneIsFresh, stripe, marks, bounds
<1>11. ASSUME Tick PROVE AloneIsFresh'
  BY <1>11, <1>a DEF Tick, AloneIsFresh, stripe, marks, bounds
<1> QED
  BY <1>1, <1>2, <1>3, <1>4, <1>5, <1>6, <1>7, <1>8, <1>9, <1>10, <1>11 DEF Next, AsideStep

\* Only a worker names another subscription, and strays by an older one.
LEMMA NewestKeptStep == ASSUME IInv, [Next]_vars PROVE NewestKept'
<1> USE ShopAssumption DEF At, Busy, Handlers
<1>a. TypeOK /\ Kinds /\ AllPaid /\ NewestKept
  BY DEF IInv
<1>1. ASSUME AsideStep PROVE NewestKept'
  BY <1>1, <1>a, AsideEffect DEF Aside, NewestKept, AllPaid, Paid
<1>2. ASSUME NEW c \in Checkouts, Pay(c) PROVE NewestKept'
  BY <1>2, <1>a DEF Pay, stripe, marks, bounds, NewestKept, AllPaid, Paid
<1>3. ASSUME NEW c \in Checkouts, NEW status \in Live \cup {"canceled"}, NEW date \in Dates,
             ChangeSub(c, status, date) PROVE NewestKept'
  BY <1>3, <1>a DEF ChangeSub, marks, NewestKept, AllPaid, Paid
<1>4. ASSUME NEW w \in Syncs, SyncNow(w) PROVE NewestKept'
  BY <1>4, <1>a, SyncNowEffect, CopyIs DEF Begun, NewestKept, AllPaid, Paid
<1>5. ASSUME NEW w \in Syncs, NEW e \in events, Deliver(w, e) PROVE NewestKept'
  BY <1>5, <1>a, DeliverEffect, CopyIs DEF Begun, NewestKept, AllPaid, Paid
<1>6. ASSUME NEW w \in Syncs, NameSub(w) PROVE NewestKept'
  <2>1. /\ Named(w) /\ UNCHANGED newest
    BY <1>6, <1>a, NameEffect
  <2>2. strayed' => row'.sub # None
    BY <1>a, <2>1 DEF Named, NewestKept, Event
  <2>3. strayed \/ row.sub = newest => strayed' \/ row'.sub = newest
    BY <2>1 DEF Named
  <2>4. ASSUME NEW x \in Syncs, proc'[x].pc # "idle", proc'[x].copy.sub # None,
               proc'[x].copy.sub = newest
        PROVE  strayed' \/ row'.sub = newest
    <3>1. CASE x # w
      BY <1>a, <2>1, <2>3, <2>4, <3>1 DEF Named, OthersKeep, NewestKept
    <3>2. CASE x = w
      BY <1>a, <2>1, <2>3, <2>4, <3>2 DEF Named, NewestKept
    <3>3. QED
      BY <3>1, <3>2
  <2>5. QED
    BY <2>1, <2>2, <2>4 DEF NewestKept
<1>7. ASSUME NEW w \in Syncs, Fetch(w) PROVE NewestKept'
  BY <1>7, <1>a, FetchEffect DEF Fetched, OthersKeep, NewestKept, AllPaid, Paid
<1>8. ASSUME NEW w \in Syncs, FetchFails(w) PROVE NewestKept'
  BY <1>8, <1>a, FetchFailsEffect DEF OthersKeep, NewestKept, AllPaid, Paid
<1>9. ASSUME NEW w \in Syncs, SaveSync(w) PROVE NewestKept'
  <2>1. /\ Kept(w) /\ UNCHANGED newest
    BY <1>9, <1>a, SaveEffect
  <2>2. strayed' => row'.sub # None
    BY <1>a, <2>1 DEF Kept, NewestKept
  <2>3. strayed \/ row.sub = newest => strayed' \/ row'.sub = newest
    BY <2>1 DEF Kept
  <2>4. ASSUME NEW x \in Syncs, proc'[x].pc # "idle", proc'[x].copy.sub # None,
               proc'[x].copy.sub = newest
        PROVE  strayed' \/ row'.sub = newest
    <3>1. CASE x # w
      BY <1>a, <2>1, <2>3, <2>4, <3>1 DEF Kept, OthersKeep, NewestKept
    <3>2. CASE x = w
      BY <1>a, <2>1, <2>3, <2>4, <3>2 DEF Kept, NewestKept
    <3>3. QED
      BY <3>1, <3>2
  <2>5. QED
    BY <2>1, <2>2, <2>4 DEF NewestKept
<1>10. ASSUME UNCHANGED vars PROVE NewestKept'
  BY <1>10, <1>a DEF vars, NewestKept, AllPaid, Paid, stripe, marks, bounds
<1>11. ASSUME Tick PROVE NewestKept'
  BY <1>11, <1>a DEF Tick, NewestKept, AllPaid, Paid, stripe, marks, bounds
<1> QED
  BY <1>1, <1>2, <1>3, <1>4, <1>5, <1>6, <1>7, <1>8, <1>9, <1>10, <1>11 DEF Next, AsideStep

\* The event of a new subscription waits, is held by a worker, or has been
\* written.
LEMMA NewestAwaitedStep == ASSUME IInv, [Next]_vars PROVE NewestAwaited'
<1> USE ShopAssumption DEF At, Busy, Handlers
<1>a. TypeOK /\ Kinds /\ AllPaid /\ AllMet /\ NewestKept /\ NewestAwaited
  BY DEF IInv
<1>1. ASSUME AsideStep PROVE NewestAwaited'
  BY <1>1, <1>a, AsideEffect DEF Aside, NewestAwaited, OneCustomer
<1>2. ASSUME NEW c \in Checkouts, Pay(c) PROVE NewestAwaited'
  BY <1>2, <1>a DEF Pay, stripe, marks, bounds, NewestAwaited, OneCustomer
<1>3. ASSUME NEW c \in Checkouts, NEW status \in Live \cup {"canceled"}, NEW date \in Dates,
             ChangeSub(c, status, date) PROVE NewestAwaited'
  BY <1>3, <1>a DEF ChangeSub, marks, NewestAwaited, OneCustomer
<1>4. ASSUME NEW w \in Syncs, SyncNow(w) PROVE NewestAwaited'
  BY <1>4, <1>a, SyncNowEffect, CopyIs DEF Begun, NewestAwaited, OneCustomer
<1>5. ASSUME NEW w \in Syncs, NEW e \in events, Deliver(w, e) PROVE NewestAwaited'
  <2> DEFINE told == [of |-> newest, type |-> "checkout"]
  <2>1. /\ e \in Event /\ events' = events \ {e} /\ UNCHANGED <<row, strayed, customers, newest>>
        /\ OneCustomer => Begun(w, e, "name") \/ (e.type # "checkout" /\ Begun(w, e, "fetch"))
    BY <1>5, <1>a, DeliverEffect, NothingDropped
  <2>2. ASSUME ~strayed, OneCustomer, newest # None
        PROVE  \/ row.sub = newest \/ told \in events'
               \/ \E x \in Syncs : proc'[x].pc = "name" /\ proc'[x].event.of = newest
    <3>1. CASE row.sub = newest
      BY <3>1
    <3>2. CASE told \in events /\ told # e
      BY <2>1, <3>2
    <3>3. CASE told = e
      <4>1. e.type = "checkout" /\ e.of = newest
        BY <3>3
      <4>2. proc'[w].pc = "name" /\ proc'[w].event.of = newest
        BY <2>1, <2>2, <4>1 DEF Begun
      <4>3. QED
        BY <4>2
    <3>4. CASE \E x \in Syncs : At(x, "name") /\ proc[x].event.of = newest
      <4>1. PICK x \in Syncs : At(x, "name") /\ proc[x].event.of = newest
        BY <3>4
      <4>2. At(w, "idle") /\ x # w
        BY <2>1, <2>2, <4>1 DEF Begun
      <4>3. proc'[x].pc = "name" /\ proc'[x].event.of = newest
        BY <2>1, <2>2, <4>1, <4>2 DEF Begun
      <4>4. QED
        BY <4>3
    <3>5. QED
      BY <1>a, <2>2, <3>1, <3>2, <3>3, <3>4 DEF NewestAwaited
  <2>3. QED
    BY <2>1, <2>2 DEF NewestAwaited, OneCustomer
<1>6. ASSUME NEW w \in Syncs, NameSub(w) PROVE NewestAwaited'
  <2>1. Named(w) /\ UNCHANGED <<newest, events, customers>>
    BY <1>6, <1>a, NameEffect
  <2>2. ASSUME ~strayed', OneCustomer, newest # None
        PROVE  \/ row'.sub = newest \/ [of |-> newest, type |-> "checkout"] \in events
               \/ \E x \in Syncs : proc'[x].pc = "name" /\ proc'[x].event.of = newest
    <3>1. CASE row'.sub # row.sub
      BY <2>1, <2>2, <3>1 DEF Named
    <3>2. CASE row'.sub = row.sub
      <4>1. ~strayed
        BY <2>1, <2>2, <3>2 DEF Named
      <4>2. ASSUME NEW x \in Syncs, At(x, "name"), proc[x].event.of = newest, row.sub # newest
            PROVE  proc'[x].pc = "name" /\ proc'[x].event.of = newest
        BY <1>a, <2>1, <2>2, <3>2, <4>1, <4>2 DEF Named, OthersKeep, NewestKept
      <4>3. QED
        BY <1>a, <2>2, <3>2, <4>1, <4>2 DEF NewestAwaited
    <3>3. QED
      BY <3>1, <3>2
  <2>3. QED
    BY <2>1, <2>2 DEF NewestAwaited, OneCustomer
<1>7. ASSUME NEW w \in Syncs, Fetch(w) PROVE NewestAwaited'
  BY <1>7, <1>a, FetchEffect DEF Fetched, OthersKeep, NewestAwaited, OneCustomer
<1>8. ASSUME NEW w \in Syncs, FetchFails(w) PROVE NewestAwaited'
  BY <1>8, <1>a, FetchFailsEffect DEF OthersKeep, NewestAwaited, OneCustomer
<1>9. ASSUME NEW w \in Syncs, SaveSync(w) PROVE NewestAwaited'
  <2>1. Kept(w) /\ UNCHANGED <<newest, events, customers>>
    BY <1>9, <1>a, SaveEffect
  <2>2. ASSUME ~strayed', OneCustomer, newest # None
        PROVE  \/ row'.sub = newest \/ [of |-> newest, type |-> "checkout"] \in events
               \/ \E x \in Syncs : proc'[x].pc = "name" /\ proc'[x].event.of = newest
    <3>1. CASE row'.sub # row.sub
      BY <2>1, <2>2, <3>1 DEF Kept
    <3>2. CASE row'.sub = row.sub
      <4>1. ~strayed
        BY <2>1, <2>2, <3>2 DEF Kept
      <4>2. ASSUME NEW x \in Syncs, At(x, "name"), proc[x].event.of = newest, row.sub # newest
            PROVE  proc'[x].pc = "name" /\ proc'[x].event.of = newest
        BY <1>a, <2>1, <2>2, <3>2, <4>1, <4>2 DEF Kept, OthersKeep, NewestKept
      <4>3. QED
        BY <1>a, <2>2, <3>2, <4>1, <4>2 DEF NewestAwaited
    <3>3. QED
      BY <3>1, <3>2
  <2>3. QED
    BY <2>1, <2>2 DEF NewestAwaited, OneCustomer
<1>10. ASSUME UNCHANGED vars PROVE NewestAwaited'
  BY <1>10, <1>a DEF vars, NewestAwaited, OneCustomer, stripe, marks, bounds
<1>11. ASSUME Tick PROVE NewestAwaited'
  BY <1>11, <1>a DEF Tick, NewestAwaited, OneCustomer, stripe, marks, bounds
<1> QED
  BY <1>1, <1>2, <1>3, <1>4, <1>5, <1>6, <1>7, <1>8, <1>9, <1>10, <1>11 DEF Next, AsideStep

\* What is paid after a worker read the row is told by an event.
LEMMA NothingMissedStep == ASSUME IInv, [Next]_vars PROVE NothingMissed'
<1> USE ShopAssumption DEF At, Busy, Handlers
<1>a. TypeOK /\ Kinds /\ AllPaid /\ AllMet /\ AloneIsFresh /\ NothingMissed
  BY DEF IInv
<1>1. ASSUME AsideStep PROVE NothingMissed'
  BY <1>1, <1>a, AsideEffect DEF Aside, NothingMissed, OneCustomer
<1>2. ASSUME NEW c \in Checkouts, Pay(c) PROVE NothingMissed'
  BY <1>2, <1>a DEF Pay, stripe, marks, bounds, NothingMissed, OneCustomer
<1>3. ASSUME NEW c \in Checkouts, NEW status \in Live \cup {"canceled"}, NEW date \in Dates,
             ChangeSub(c, status, date) PROVE NothingMissed'
  BY <1>3, <1>a DEF ChangeSub, marks, NothingMissed, OneCustomer
<1>4. ASSUME NEW w \in Syncs, SyncNow(w) PROVE NothingMissed'
  <2>1. Begun(w, None, "fetch") /\ UNCHANGED <<newest, events, customers>>
    BY <1>4, <1>a, SyncNowEffect
  <2>2. proc'[w].copy.customer = row.customer
    BY <1>a, <2>1, CopyIs DEF Begun
  <2>3. row.customer = None => newest = None
    BY <1>a, NoCustomerNoSub
  <2>4. QED
    BY <1>a, <2>1, <2>2, <2>3 DEF Begun, NothingMissed, OneCustomer
<1>5. ASSUME NEW w \in Syncs, NEW e \in events, Deliver(w, e) PROVE NothingMissed'
  <2>1. UNCHANGED <<newest, customers>>
    BY <1>5, <1>a, DeliverEffect
  <2>2. row.customer = None => newest = None
    BY <1>a, NoCustomerNoSub
  <2>3. SUFFICES ASSUME OneCustomer PROVE NothingMissed'
    BY <2>1 DEF NothingMissed, OneCustomer
  <2>4. PICK pc \in {"name", "fetch"} : Begun(w, e, pc) /\ Copy(w).customer = row.customer
    BY <1>5, <1>a, <2>3, DeliverEffect, NothingDropped, CopyIs
  <2>5. QED
    BY <2>1, <2>2, <2>4 DEF Begun, NothingMissed
<1>6. ASSUME NEW w \in Syncs, NameSub(w) PROVE NothingMissed'
  BY <1>6, <1>a, NameEffect DEF Named, OthersKeep, NothingMissed, OneCustomer
<1>7. ASSUME NEW w \in Syncs, Fetch(w) PROVE NothingMissed'
  BY <1>7, <1>a, FetchEffect DEF Fetched, OthersKeep, NothingMissed, OneCustomer
<1>8. ASSUME NEW w \in Syncs, FetchFails(w) PROVE NothingMissed'
  BY <1>8, <1>a, FetchFailsEffect DEF OthersKeep, NothingMissed, OneCustomer
<1>9. ASSUME NEW w \in Syncs, SaveSync(w) PROVE NothingMissed'
  BY <1>9, <1>a, SaveEffect DEF Kept, OthersKeep, NothingMissed, OneCustomer
<1>10. ASSUME UNCHANGED vars PROVE NothingMissed'
  BY <1>10, <1>a DEF vars, NothingMissed, OneCustomer, stripe, marks, bounds
<1>11. ASSUME Tick PROVE NothingMissed'
  BY <1>11, <1>a DEF Tick, NothingMissed, OneCustomer, stripe, marks, bounds
<1> QED
  BY <1>1, <1>2, <1>3, <1>4, <1>5, <1>6, <1>7, <1>8, <1>9, <1>10, <1>11 DEF Next, AsideStep

\* Stripe is asked about the newest subscription unless the row strayed.
LEMMA FetchedRightStep == ASSUME IInv, [Next]_vars PROVE FetchedRight'
<1> USE ShopAssumption DEF At, Busy, Handlers
<1>a. TypeOK /\ Kinds /\ AllPaid /\ AllMet /\ AloneIsFresh /\ NewestKept /\
     NewestAwaited /\ NothingMissed /\ FetchedRight
  BY DEF IInv
<1>b. UNCHANGED <<sub, until, newest>> => Mapped(newest)' = Mapped(newest) /\ Until(newest)' = Until(newest)
  BY DEF Mapped, Until
<1>1. ASSUME AsideStep PROVE FetchedRight'
  BY <1>1, <1>a, <1>b, AsideEffect DEF Aside, FetchedRight, OneCustomer
<1>2. ASSUME NEW c \in Checkouts, Pay(c) PROVE FetchedRight'
  BY <1>2, <1>a, <1>b DEF Pay, stripe, marks, bounds, FetchedRight, OneCustomer
<1>3. ASSUME NEW c \in Checkouts, NEW status \in Live \cup {"canceled"}, NEW date \in Dates,
             ChangeSub(c, status, date) PROVE FetchedRight'
  <2>1. events' # {}
    BY <1>3 DEF ChangeSub
  <2> QED
    BY <2>1 DEF FetchedRight
<1>4. ASSUME NEW w \in Syncs, SyncNow(w) PROVE FetchedRight'
  BY <1>4, <1>a, <1>b, SyncNowEffect, CopyIs DEF Begun, FetchedRight, OneCustomer
<1>5. ASSUME NEW w \in Syncs, NEW e \in events, Deliver(w, e) PROVE FetchedRight'
  <2>1. UNCHANGED <<newest, customers>>
    BY <1>5, <1>a, DeliverEffect
  <2>2. SUFFICES ASSUME OneCustomer PROVE FetchedRight'
    BY <2>1 DEF FetchedRight, OneCustomer
  <2>3. PICK pc \in {"name", "fetch"} : Begun(w, e, pc)
    BY <1>5, <1>a, <2>2, DeliverEffect, NothingDropped
  <2>4. QED
    BY <2>3 DEF Begun, FetchedRight
<1>6. ASSUME NEW w \in Syncs, NameSub(w) PROVE FetchedRight'
  <2>1. Named(w)
    BY <1>6, <1>a, NameEffect
  <2>2. QED
    BY <1>a, <2>1 DEF Named, OthersKeep, AloneIsFresh, FetchedRight
<1>7. ASSUME NEW w \in Syncs, Fetch(w) PROVE FetchedRight'
  <2>1. Fetched(w) /\ UNCHANGED <<row, customers, sub, until, newest, now, events, strayed>>
    BY <1>7, <1>a, FetchEffect
  <2>2. \A x \in Syncs \ {w} : ~(proc'[x].pc = "save" /\ proc'[x].alone)
    BY <1>a, <2>1 DEF Fetched, OthersKeep, AloneIsFresh
  <2> DEFINE copy == proc[w].copy
             found == proc'[w].found
  <2>3. ASSUME proc'[w].alone, OneCustomer, events = {}
        PROVE  \/ strayed /\ copy.sub # None /\ found = copy.sub
               \/ found = newest
    <3>1. proc[w].alone /\ At(w, "fetch") /\ copy \in Read /\ copy.sub = row.sub
      BY <1>a, <2>1, <2>3 DEF Fetched, AloneIsFresh, Kinds
    <3>2. CASE copy.sub # None /\ found = copy.sub
      <4>1. newest # None
        BY <1>a, <3>1, <3>2 DEF AllPaid, Paid, Read, Names
      <4>2. \A x \in Syncs : ~At(x, "name")
        BY <1>a, <3>1 DEF AloneIsFresh
      <4>3. strayed \/ row.sub = newest
        BY <1>a, <2>3, <4>1, <4>2 DEF NewestAwaited
      <4>4. QED
        BY <3>1, <3>2, <4>3
    <3>3. CASE copy.sub = None /\ copy.customer = None /\ found = None
      BY <1>a, <2>3, <3>1, <3>3 DEF NothingMissed
    <3>4. CASE /\ copy.sub = None /\ copy.customer # None
               /\ \E c \in Listed(copy.customer) : found = IF c # None THEN c ELSE InSession(copy.session)
      <4>1. PICK c \in Listed(copy.customer) : found = IF c # None THEN c ELSE InSession(copy.session)
        BY <3>4
      <4>2. copy.customer \in customers /\ copy.session \in Names
        BY <1>a, <3>1, <3>4 DEF AllMet, Met, Read
      <4>3. QED
        BY <1>a, <2>3, <4>1, <4>2, ListedIsNewest
    <3>5. QED
      BY <2>1, <2>3, <3>2, <3>3, <3>4 DEF Fetched
  <2>4. /\ proc'[w].pc = "save" /\ proc'[w].copy = copy /\ proc'[w].status = Mapped(found)
        /\ proc'[w].ends = Until(found)
    BY <2>1 DEF Fetched
  <2>5. Mapped(newest)' = Mapped(newest) /\ Until(newest)' = Until(newest)
    BY <1>b, <2>1
  <2> HIDE DEF copy, found
  <2>6. QED
    BY <2>1, <2>2, <2>3, <2>4, <2>5 DEF FetchedRight, OneCustomer, copy, found
<1>8. ASSUME NEW w \in Syncs, FetchFails(w) PROVE FetchedRight'
  BY <1>8, <1>a, <1>b, FetchFailsEffect DEF OthersKeep, FetchedRight, OneCustomer
<1>9. ASSUME NEW w \in Syncs, SaveSync(w) PROVE FetchedRight'
  <2>1. Kept(w)
    BY <1>9, <1>a, SaveEffect
  <2>2. QED
    BY <1>a, <2>1 DEF Kept, OthersKeep, AloneIsFresh, FetchedRight
<1>10. ASSUME UNCHANGED vars PROVE FetchedRight'
  BY <1>10, <1>a, <1>b DEF vars, FetchedRight, OneCustomer, stripe, marks, bounds
<1>11. ASSUME Tick PROVE FetchedRight'
  BY <1>11, <1>a, <1>b DEF Tick, FetchedRight, OneCustomer, stripe, marks, bounds
<1> QED
  BY <1>1, <1>2, <1>3, <1>4, <1>5, <1>6, <1>7, <1>8, <1>9, <1>10, <1>11 DEF Next, AsideStep

\* A worker that ran alone writes what it fetched; every change of it is told.
LEMMA RightOrToldStep == ASSUME IInv, [Next]_vars PROVE RightOrTold'
<1> USE ShopAssumption DEF At, Busy, Handlers
<1>a. TypeOK /\ Kinds /\ AllPaid /\ AllMet /\ AloneIsFresh /\ FetchedRight /\
     RightOrTold
  BY DEF IInv
<1>b. UNCHANGED <<sub, until, newest>> => Mapped(newest)' = Mapped(newest) /\ Until(newest)' = Until(newest)
  BY DEF Mapped, Until
<1>1. ASSUME AsideStep PROVE RightOrTold'
  BY <1>1, <1>a, <1>b, AsideEffect DEF Aside, RightOrTold, Settled, OneCustomer
<1>2. ASSUME NEW c \in Checkouts, Pay(c) PROVE RightOrTold'
  BY <1>2, <1>a, <1>b DEF Pay, stripe, marks, bounds, RightOrTold, Settled, OneCustomer
<1>3. ASSUME NEW c \in Checkouts, NEW status \in Live \cup {"canceled"}, NEW date \in Dates,
             ChangeSub(c, status, date) PROVE RightOrTold'
  BY <1>3, <1>a, <1>b DEF ChangeSub, marks, RightOrTold, Settled, OneCustomer
<1>4. ASSUME NEW w \in Syncs, SyncNow(w) PROVE RightOrTold'
  <2>1. UNCHANGED <<row, sub, until, newest, customers, trusted, strayed>>
    BY <1>4, <1>a, SyncNowEffect
  <2>2. SUFFICES ASSUME trusted, ~strayed, OneCustomer
                 PROVE  events' # {} \/ Settled \/ \E x \in Syncs : proc'[x].pc # "idle" /\ proc'[x].event # None
    BY <1>b, <2>1 DEF RightOrTold, Settled, OneCustomer
  <2>3. Begun(w, None, "fetch") /\ UNCHANGED events
    BY <1>4, <1>a, SyncNowEffect
  <2>4. \A x \in Syncs : Busy(x) => proc'[x].pc # "idle" /\ proc'[x].event = proc[x].event
    BY <2>3 DEF Begun
  <2>5. QED
    BY <1>a, <2>2, <2>3, <2>4 DEF RightOrTold
<1>5. ASSUME NEW w \in Syncs, NEW e \in events, Deliver(w, e) PROVE RightOrTold'
  <2>1. UNCHANGED <<row, sub, until, newest, customers, trusted, strayed>>
    BY <1>5, <1>a, DeliverEffect
  <2>2. SUFFICES ASSUME trusted, ~strayed, OneCustomer
                 PROVE  events' # {} \/ Settled \/ \E x \in Syncs : proc'[x].pc # "idle" /\ proc'[x].event # None
    BY <1>b, <2>1 DEF RightOrTold, Settled, OneCustomer
  <2>3. PICK pc \in {"name", "fetch"} : Begun(w, e, pc) /\ e \in Event
    BY <1>5, <1>a, <2>2, DeliverEffect, NothingDropped
  <2>4. proc'[w].pc # "idle" /\ proc'[w].event # None
    BY <2>3 DEF Begun
  <2>5. QED
    BY <2>4
<1>6. ASSUME NEW w \in Syncs, NameSub(w) PROVE RightOrTold'
  <2>1. proc'[w].pc # "idle" /\ proc'[w].event # None
    BY <1>6, <1>a, NameEffect DEF Named
  <2>2. QED
    BY <2>1 DEF RightOrTold
<1>7. ASSUME NEW w \in Syncs, Fetch(w) PROVE RightOrTold'
  <2>1. /\ Fetched(w)
        /\ UNCHANGED <<row, sub, until, newest, customers, trusted, strayed, events>>
    BY <1>7, <1>a, FetchEffect
  <2>2. \A x \in Syncs : Busy(x) => proc'[x].pc # "idle" /\ proc'[x].event = proc[x].event
    BY <2>1 DEF Fetched, OthersKeep
  <2>3. Settled' <=> Settled
    BY <1>b, <2>1 DEF Settled
  <2> QED
    BY <1>a, <2>1, <2>2, <2>3 DEF RightOrTold, OneCustomer
<1>8. ASSUME NEW w \in Syncs, FetchFails(w) PROVE RightOrTold'
  <2>1. UNCHANGED <<row, sub, until, newest, customers, trusted, strayed>>
    BY <1>8, <1>a, FetchFailsEffect
  <2>2. SUFFICES ASSUME trusted, ~strayed, OneCustomer
                 PROVE  events' # {} \/ Settled \/ \E x \in Syncs : proc'[x].pc # "idle" /\ proc'[x].event # None
    BY <1>b, <2>1 DEF RightOrTold, Settled, OneCustomer
  <2>3. OthersKeep(w) /\ events' = events \cup ({proc[w].event} \ {None})
    BY <1>8, <1>a, FetchFailsEffect
  <2>4. ASSUME NEW x \in Syncs, Busy(x), proc[x].event # None
        PROVE  events' # {} \/ \E y \in Syncs : proc'[y].pc # "idle" /\ proc'[y].event # None
    <3>1. CASE x = w
      BY <2>3, <2>4, <3>1
    <3>2. CASE x # w
      BY <2>3, <2>4, <3>2 DEF OthersKeep
    <3>3. QED
      BY <3>1, <3>2
  <2>5. QED
    BY <1>a, <2>2, <2>3, <2>4 DEF RightOrTold
<1>9. ASSUME NEW w \in Syncs, SaveSync(w) PROVE RightOrTold'
  <2>1. Kept(w) /\ UNCHANGED <<sub, until, newest, events, customers>>
    BY <1>9, <1>a, SaveEffect
  <2>2. SUFFICES ASSUME trusted', ~strayed', OneCustomer, events = {}
                 PROVE  row'.sub = newest /\ row'.status = Mapped(newest) /\ row'.ends = Until(newest)
    BY <1>b, <2>1 DEF RightOrTold, Settled, OneCustomer
  <2>3. /\ At(w, "save") /\ proc[w].alone
        /\ proc[w].copy.sub = row.sub /\ proc[w].copy.status = row.status
        /\ proc[w].copy.ends = row.ends
    BY <1>a, <2>1, <2>2 DEF Kept, AloneIsFresh
  <2>4. ~(strayed /\ proc[w].copy.sub # None /\ proc[w].found = proc[w].copy.sub)
    BY <2>1, <2>2 DEF Kept
  <2>5. proc[w].found = newest /\ proc[w].status = Mapped(newest) /\ proc[w].ends = Until(newest)
    BY <1>a, <2>2, <2>3, <2>4 DEF FetchedRight
  <2>6. row'.status = Mapped(newest) /\ row'.ends = Until(newest)
    BY <2>1, <2>3, <2>5 DEF Kept
  <2>7. newest = None => row.sub = None
    BY <1>a DEF AllPaid, Paid, TypeOK, Row, Names
  <2>8. row'.sub = newest
    BY <2>1, <2>3, <2>5, <2>7 DEF Kept
  <2>9. QED
    BY <2>6, <2>8
<1>10. ASSUME UNCHANGED vars PROVE RightOrTold'
  BY <1>10, <1>a, <1>b DEF vars, RightOrTold, Settled, OneCustomer, stripe, marks,
       bounds
<1>11. ASSUME Tick PROVE RightOrTold'
  BY <1>11, <1>a, <1>b DEF Tick, RightOrTold, Settled, OneCustomer, stripe, marks, bounds
<1> QED
  BY <1>1, <1>2, <1>3, <1>4, <1>5, <1>6, <1>7, <1>8, <1>9, <1>10, <1>11 DEF Next, AsideStep

\* The grant and its note are one step, and nothing takes the note away.
LEMMA CreditNotedStep == ASSUME IInv, [Next]_vars PROVE CreditNoted'
<1> USE ShopAssumption DEF At, Busy, Handlers
<1>a. TypeOK /\ Kinds /\ CreditNoted
  BY DEF IInv
<1>1. ASSUME NEW c \in Checkouts, NEW kind \in {"checkout", "portal"}, CheckoutBegin(c,
     kind) PROVE CreditNoted'
  BY <1>1, <1>a, BeginEffect, CopyIs DEF OthersKeep, CreditNoted, TypeOK
<1>2. ASSUME NEW c \in Checkouts, EnsureCustomer(c) PROVE CreditNoted'
  BY <1>2, <1>a, EnsureEffect DEF Ensured, OthersKeep, CreditNoted, TypeOK
<1>3. ASSUME NEW c \in Checkouts, GrantCredit(c) PROVE CreditNoted'
  BY <1>3, <1>a, GrantEffect DEF Granted, OthersKeep, CreditNoted, TypeOK
<1>4. ASSUME NEW c \in Checkouts, CreateSession(c) PROVE CreditNoted'
  BY <1>4, <1>a, SessionEffect DEF Opened, OthersKeep, CreditNoted, TypeOK
<1>5. ASSUME NEW c \in Checkouts, Pay(c) PROVE CreditNoted'
  BY <1>5, <1>a DEF Pay, stripe, marks, bounds, CreditNoted, TypeOK
<1>6. ASSUME NEW c \in Checkouts, NEW status \in Live \cup {"canceled"}, NEW date \in Dates,
             ChangeSub(c, status, date) PROVE CreditNoted'
  BY <1>6, <1>a DEF ChangeSub, marks, CreditNoted, TypeOK
<1>7. ASSUME NEW w \in Syncs, SyncNow(w) PROVE CreditNoted'
  BY <1>7, <1>a, SyncNowEffect, CopyIs DEF Begun, CreditNoted, TypeOK
<1>8. ASSUME NEW w \in Syncs, NEW e \in events, Deliver(w, e) PROVE CreditNoted'
  BY <1>8, <1>a, DeliverEffect, CopyIs DEF Begun, CreditNoted, TypeOK
<1>9. ASSUME NEW w \in Syncs, NameSub(w) PROVE CreditNoted'
  BY <1>9, <1>a, NameEffect DEF Named, OthersKeep, CreditNoted, TypeOK
<1>10. ASSUME NEW w \in Syncs, Fetch(w) PROVE CreditNoted'
  BY <1>10, <1>a, FetchEffect DEF Fetched, OthersKeep, CreditNoted, TypeOK
<1>11. ASSUME NEW w \in Syncs, FetchFails(w) PROVE CreditNoted'
  BY <1>11, <1>a, FetchFailsEffect DEF OthersKeep, CreditNoted, TypeOK
<1>12. ASSUME NEW w \in Syncs, SaveSync(w) PROVE CreditNoted'
  BY <1>12, <1>a, SaveEffect DEF Kept, OthersKeep, CreditNoted, TypeOK
<1>13. ASSUME NEW d \in Desks, (\E kind \in DeskKinds : DeskBegin(d, kind)) \/
     (\E given \in Overrides : DeskWrite(d, given)) PROVE CreditNoted'
  BY <1>13, <1>a, DeskEffect DEF Attended, OthersKeep, CreditNoted, TypeOK
<1>14. ASSUME UNCHANGED vars PROVE CreditNoted'
  BY <1>14, <1>a DEF vars, CreditNoted, TypeOK, stripe, marks, bounds
<1>15. ASSUME Tick PROVE CreditNoted'
  BY <1>15, <1>a DEF Tick, CreditNoted, TypeOK, stripe, marks, bounds
<1> QED
  BY <1>1, <1>2, <1>3, <1>4, <1>5, <1>6, <1>7, <1>8, <1>9, <1>10, <1>11, <1>12, <1>13,
       <1>14, <1>15 DEF Next

---------------------------------------------------------------------------
\* IInv holds of every reachable state.
THEOREM Invariance == Spec => []IInv
<1>1. Init => IInv
  <2> SUFFICES ASSUME Init PROVE IInv
    OBVIOUS
  <2> USE ShopAssumption DEF Init, Idle, At, Busy
  <2>1. TypeOK
    <3>1. Idle \in Proc
      BY DEF Proc, Pcs, Names
    <3>2. row \in Row
      BY DEF Row, Names
    <3>3. proc \in [Handlers -> Proc]
      BY <3>1
    <3>4. /\ session \in [Checkouts -> Names] /\ saw \in [Checkouts -> SUBSET Checkouts]
          /\ sub \in [Checkouts -> Live \cup {"canceled", None}]
      BY DEF Names
    <3>5. changes \in 0 .. MaxChanges /\ failures \in 0 .. MaxFailures /\ now \in 0 .. Latest
          /\ until \in [Checkouts -> Dates \cup {None}]
      OBVIOUS
    <3>6. QED
      BY <3>2, <3>3, <3>4, <3>5 DEF TypeOK, Names
  <2>2. Kinds
    BY DEF Kinds, Handlers
  <2>3. AllPaid
    BY DEF AllPaid, Paid, Handlers
  <2>4. AllMet
    BY FS_EmptySet DEF AllMet, Met, Handlers
  <2>5. AloneIsFresh /\ NewestKept /\ NewestAwaited
    BY DEF AloneIsFresh, NewestKept, NewestAwaited, Handlers
  <2>6. NothingMissed /\ FetchedRight /\ RightOrTold
    BY DEF NothingMissed, FetchedRight, RightOrTold, Handlers
  <2>7. CreditNoted
    BY DEF CreditNoted, Handlers
  <2>8. QED
    BY <2>1, <2>2, <2>3, <2>4, <2>5, <2>6, <2>7 DEF IInv
<1>2. IInv /\ [Next]_vars => IInv'
  BY TypeOKStep, KindsStep, AllPaidStep, AllMetStep, AloneIsFreshStep, NewestKeptStep,
     NewestAwaitedStep, NothingMissedStep, FetchedRightStep, RightOrToldStep, CreditNotedStep DEF IInv
<1>3. QED
  BY <1>1, <1>2, PTL DEF Spec

THEOREM TypeCorrect == Spec => []TypeOK
<1>1. IInv => TypeOK
  BY DEF IInv
<1>2. QED
  BY <1>1, Invariance, PTL

\* When Stripe's events and the synchronisations are answered, a shop takes bookings
\* exactly if its newest subscription is alive and short of its end date, under the conditions
\* that PaidIsOpen names (stripe_service.py:217-310, views.py:471-512, utils.py:107-123).
THEOREM PaidIsOpenHolds == Spec => []PaidIsOpen
<1>1. IInv => PaidIsOpen
  <2> SUFFICES ASSUME IInv, events = {}, \A w \in Syncs : At(w, "idle"), trusted, ~strayed,
                      Cardinality(customers) <= 1, row.override = None
               PROVE  Subscribed(row) <=> newest # None /\ sub[newest] \in Live /\ until[newest] > now
    BY DEF PaidIsOpen
  <2>1. OneCustomer
    <3> SUFFICES ASSUME NEW x \in customers, NEW y \in customers, x # y PROVE FALSE
      BY DEF OneCustomer
    <3>1. IsFiniteSet(customers) /\ {x, y} \subseteq customers
      BY DEF IInv, AllMet
    <3>2. IsFiniteSet({x, y}) /\ Cardinality({x, y}) = 2
      <4>1. {x, y} = {x} \cup {y} /\ y \notin {x}
        OBVIOUS
      <4>2. IsFiniteSet({x}) /\ Cardinality({x}) = 1
        BY FS_Singleton
      <4>3. QED
        BY <4>1, <4>2, FS_AddElement
    <3>3. Cardinality({x, y}) <= Cardinality(customers) /\ Cardinality(customers) \in Nat
      BY <3>1, FS_Subset, FS_CardinalityType
    <3>4. QED
      BY <3>2, <3>3
  <2>2. row.status = Mapped(newest) /\ row.ends = Until(newest)
    BY <2>1 DEF IInv, RightOrTold, Settled, Busy
  <2>3. newest \in Names /\ (newest # None => sub[newest] \in Live \cup {"canceled"})
    BY DEF IInv, TypeOK, AllPaid, Paid, Names
  <2>4. Subscribed(row) <=>
          row.status \in {"ACTIVE", "TRIAL"} /\ (row.ends # None => row.ends > now)
    BY DEF Subscribed
  <2>5. CASE newest = None
    BY <2>2, <2>4, <2>5 DEF Mapped
  <2>6. CASE newest # None /\ sub[newest] = "canceled"
    BY <2>2, <2>4, <2>6, ShopAssumption DEF Mapped
  <2>7. CASE newest # None /\ sub[newest] \in Live
    <3>1. until[newest] # None
      BY <2>7, <2>3, ShopAssumption DEF IInv, AllPaid, Names
    <3>2. row.ends = until[newest] /\ row.status \in {"ACTIVE", "TRIAL"}
      BY <2>2, <2>7, ShopAssumption DEF Mapped, Until
    <3> QED
      BY <2>4, <2>7, <3>1, <3>2
  <2>8. QED
    BY <2>3, <2>5, <2>6, <2>7
<1>2. QED
  BY <1>1, Invariance, PTL

\* A shop that came back to a checkout after one had ended well is not granted the
\* first month's credit again (stripe_service.py:149-168).
THEOREM CreditOnceHolds == Spec => []CreditOnce
<1>1. IInv => CreditOnce
  BY DEF IInv, CreditNoted, CreditOnce, TypeOK
<1>2. QED
  BY <1>1, Invariance, PTL

\* Only a desk's own write deletes, recovers, bans or overrides a shop, whatever was read
\* before it by requests that end after it.
THEOREM DeskStandsHolds == Spec => DeskStands
<1> DEFINE Touched == row'.deleted # row.deleted \/ row'.enabled # row.enabled \/ row'.override # row.override
           AtDesk  == \E d \in Desks : At(d, "write") /\ proc'[d].pc = "done"
<1>1. IInv /\ [Next]_vars => [Touched => AtDesk]_vars
  <2> SUFFICES ASSUME IInv, Next, Touched PROVE AtDesk
    OBVIOUS
  <2>1. TypeOK /\ Kinds
    BY DEF IInv
  <2>2. ASSUME NEW copy, NEW new,
               \A f \in DOMAIN new \ {"sub", "status", "ends"} : new[f] = copy[f],
               row' = Saved(copy, new)
        PROVE  FALSE
    BY <2>1, <2>2 DEF Saved, TypeOK, Row
  <2>3. ASSUME NEW c \in Checkouts PROVE ~(EnsureCustomer(c) \/ GrantCredit(c) \/ CreateSession(c))
    <3>1. ASSUME NEW x, row' \in {row, [row EXCEPT !.customer = x], [row EXCEPT !.session = x],
                                  [row EXCEPT !.credited = x]}
          PROVE  FALSE
      BY <2>1, <3>1 DEF TypeOK, Row
    <3>2. ~EnsureCustomer(c)
      BY <3>1 DEF EnsureCustomer
    <3>3. ~GrantCredit(c)
      BY <3>1 DEF GrantCredit
    <3>4. ~CreateSession(c)
      BY <3>1 DEF CreateSession
    <3>5. QED
      BY <3>2, <3>3, <3>4
  <2>4. ASSUME NEW w \in Syncs PROVE ~NameSub(w)
    <3> DEFINE mine == [proc[w].copy EXCEPT !.sub = proc[w].event.of]
    <3>1. \A f \in DOMAIN mine \ {"sub", "status", "ends"} : mine[f] = proc[w].copy[f]
      OBVIOUS
    <3>2. QED
      BY <2>2, <3>1 DEF NameSub
  <2>5. ASSUME NEW w \in Syncs PROVE ~SaveSync(w)
    <3>1. \A f \in DOMAIN Synced(w) \ {"sub", "status", "ends"} : Synced(w)[f] = proc[w].copy[f]
      BY DEF Synced
    <3>2. QED
      BY <2>2, <3>1 DEF SaveSync
  <2>6. PICK d \in Desks, given \in Overrides : DeskWrite(d, given)
    BY <2>3, <2>4, <2>5 DEF Next, CheckoutBegin, Pay, ChangeSub, SyncNow, Deliver, Fetch,
       FetchFails, DeskBegin, Tick
  <2>7. proc'[d].pc = "done" /\ At(d, "write")
    BY <2>1, <2>6, LeavesEffect DEF DeskWrite, Handlers
  <2>8. QED
    BY <2>7
<1>2. QED
  BY <1>1, Invariance, PTL DEF Spec, DeskStands

=============================================================================
