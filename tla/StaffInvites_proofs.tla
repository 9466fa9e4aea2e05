------------------------- MODULE StaffInvites_proofs -------------------------
(***************************************************************************)
(* Proofs about how a person becomes and stays staff of a shop, for any    *)
(* number of persons, sign-ins, saves of the owner, resources and shifts.  *)
(* A lemma <name>Step says that every step keeps a conjunct of the         *)
(* inductive invariant IInv.                                               *)
(***************************************************************************)
EXTENDS StaffInvites, FiniteSetTheorems, TLAPS

Member(u) == u.tenant = "shop" /\ u.role \in Staff /\ u.staff = TRUE

\* Since mine was read, u was at most made staff of the shop.
Fresh(u, mine) ==
  /\ u.staff = mine.staff
  /\ u.tenant \in {mine.tenant, "shop"}
  /\ u.role \in {mine.role} \cup Staff

Binding == {"find", "link", "create", "gather", "move"}

\* A request that is under way holds a copy of its user, and a row once it found one.
Holds ==
  \A x \in Processes :
    /\ proc[x].pc \in Binding \cup {"apply", "sync", "final", "normalise", "write"} =>
         proc[x].mine # None
    /\ proc[x].pc \in {"link", "gather", "move"} => proc[x].row # None
    /\ proc[x].mine # None => user[person[x]] # None
    /\ x \in Visits /\ Running(x) => proc[x].hint # None

\* The owner's page changes a role to one of the staff or not at all.
SavesPromote ==
  \A o \in Saves : proc[o].mine # None => proc[o].hint \in Staff \cup {proc[o].mine.role}

\* Every use of the invite is a visit of its own.
UsesCounted == IsFiniteSet(joined) /\ Cardinality(joined) = invite.used

\* A visit that has used the invite binds the resource and ends.
JoinedBinds ==
  \A v \in joined :
    proc[v].pc \in Binding \cup {"final", "done", "failed"} /\ proc[v].then \in {"final", "done"}

\* Two visits of one person at once are remembered.
LoneVisit ==
  \A x, y \in Visits :
    (x # y /\ person[x] = person[y] /\ Running(x) /\ Running(y)) => person[x] \in mixed

\* Beside a visit that runs alone only the owner's page writes its user.
CopyFresh ==
  \A x \in Visits :
    (Running(x) /\ proc[x].mine # None /\ person[x] \notin mixed) =>
      Fresh(user[person[x]], proc[x].mine)

\* A visit of somebody who has joined has read that she is staff of the shop.
CopyKept ==
  \A v \in joined, x \in Visits :
    (person[x] = person[v] /\ Running(x) /\ person[x] \notin mixed) =>
      proc[x].mine # None /\ Member(proc[x].mine)

KnownMember ==
  \A v \in joined : user[person[v]] # None

\* MembershipStays in these words.
MembersKept ==
  \A v \in joined : person[v] \in mixed \/ Member(user[person[v]])

\* A resource may become a person's: a sign-in of hers makes it, or it carries her
\* identity, email or name.
Claims(p, r) == \/ r \in Processes /\ person[r] = p
                \/ r \in OldRows /\ p \in {KeyOf[r], MailOf[r]}

\* A person is linked to one resource at most, and only to one that may be hers.
LinkedOnce ==
  /\ \A r, q \in Rows : link[r] # None /\ link[r] = link[q] => r = q
  /\ \A r \in Rows : link[r] # None => Claims(link[r], r)

\* What a request binds or migrates may be its person's.
BindsOwn ==
  \A x \in Processes :
    /\ At(x, "link") => proc[x].row \in OldRows /\ Claims(person[x], proc[x].row)
    /\ At(x, "move") => /\ proc[x].row \notin proc[x].sources
                        /\ \A r \in proc[x].sources : Claims(person[x], r)
    /\ (At(x, "gather") \/ At(x, "move")) /\ Undisputed(person[x]) => link[proc[x].row] = person[x]

\* A resource leaves the shop with the person it is linked to only.
HomeKept ==
  \A p \in Persons : Undisputed(p) =>
    \A r \in OldRows : Claims(p, r) /\ link[r] = None => home[r] = "shop"

\* A shift is where it was at first or on the resource its person is linked to.
ShiftsKept ==
  \A p \in Persons : Undisputed(p) =>
    \A s \in Shifts : KeyOf[RowOf[s]] = p => at[s] = RowOf[s] \/ link[at[s]] = p

Settled(p) ==
  \E r \in Rows : link[r] = p /\ \A s \in Shifts : KeyOf[RowOf[s]] = p => at[s] = r

\* A visit that has used the invite is about to move the shifts of its person.
Settling(v) ==
  /\ proc[v].pc \in Binding /\ proc[v].create = TRUE
  /\ proc[v].mine.role \in Staff /\ proc[v].mine.tenant = "shop"
  /\ At(v, "move") =>
       \A s \in Shifts : KeyOf[RowOf[s]] = person[v] =>
         at[s] = proc[v].row \/ at[s] \in proc[v].sources

JoinedSettle ==
  \A v \in joined : Undisputed(person[v]) =>
    Settled(person[v]) \/ At(v, "failed") \/ Settling(v)

\* The part of the inductive invariant about the schedule.
Kept ==
  LinkedOnce /\ BindsOwn /\ HomeKept /\ ShiftsKept /\ JoinedSettle

IInv ==
  /\ TypeOK /\ Holds /\ SavesPromote /\ UsesCounted /\ JoinedBinds /\ LoneVisit
  /\ CopyFresh /\ CopyKept /\ KnownMember /\ MembersKept
  /\ Kept

---------------------------------------------------------------------------
(* What the steps do to the users and the requests *)

Known == user \in [Persons -> User \cup {None}]
Procs == proc \in [Processes -> Proc]
OthersGo(x) == Procs' /\ \A y \in Processes \ {x} : proc'[y] = proc[y]

\* A request has ended, and what it knew is forgotten.
Ends(x) ==
  /\ OthersGo(x) /\ proc'[x].pc \in {"done", "failed"} /\ proc'[x].mine = None
  /\ proc'[x].then = "done" /\ proc'[x].row = None

\* A request goes on as p, unless p has ended.
Goes(x, p) == \/ p.pc \notin {"done", "failed"} /\ OthersGo(x) /\ proc'[x] = p
              \/ p.pc \in {"done", "failed"} /\ Ends(x)

LEMMA BecomesEffect ==
  ASSUME Procs, NEW x \in Processes, NEW p \in Proc, Becomes(x, p)
  PROVE  Goes(x, p)
<1> DEFINE e == [Idle EXCEPT !.pc = p.pc]
<1>1. p.pc \in {"done", "failed"} =>
        e \in Proc /\ e.pc = p.pc /\ e.mine = None /\ e.then = "done" /\ e.row = None
  BY DEF Idle, Proc, Pcs, RoleNames
<1>2. proc' = [proc EXCEPT ![x] = IF p.pc \in {"done", "failed"} THEN e ELSE p]
  BY DEF Becomes
<1> HIDE DEF e
<1>3. proc'[x] = IF p.pc \in {"done", "failed"} THEN e ELSE p
  BY <1>2 DEF Procs
<1>4. OthersGo(x)
  BY <1>1, <1>2 DEF Procs, OthersGo
<1> QED
  BY <1>1, <1>3, <1>4 DEF Goes, Ends

\* The row of one user after save(update_fields=..) of what differs from the copy.
Saved1(p, old, new) ==
  /\ Known' /\ user'[p] \in User /\ \A q \in Persons \ {p} : user'[q] = user[q]
  /\ user'[p].role   = IF new.role # old.role THEN new.role ELSE user[p].role
  /\ user'[p].staff  = IF new.staff # old.staff THEN new.staff ELSE user[p].staff
  /\ user'[p].tenant = IF new.tenant # old.tenant THEN new.tenant ELSE user[p].tenant

LEMMA SaveEffect ==
  ASSUME Known, NEW p \in Persons, user[p] # None, NEW old \in User, NEW new \in User,
         SaveChanged(p, old, new)
  PROVE  Saved1(p, old, new)
<1> DEFINE u == [f \in DOMAIN old |-> IF new[f] # old[f] THEN new[f] ELSE user[p][f]]
<1>1. user[p] \in User
  BY DEF Known
<1>2. DOMAIN old = {"role", "staff", "tenant", "active"}
  BY DEF User
<1>3. /\ u \in User
      /\ u.role   = IF new.role # old.role THEN new.role ELSE user[p].role
      /\ u.staff  = IF new.staff # old.staff THEN new.staff ELSE user[p].staff
      /\ u.tenant = IF new.tenant # old.tenant THEN new.tenant ELSE user[p].tenant
  BY <1>1, <1>2 DEF User
<1>4. user' = [user EXCEPT ![p] = u]
  BY DEF SaveChanged, Known
<1> HIDE DEF u
<1>5. user'[p] = u
  BY <1>4 DEF Known
<1>6. Known' /\ \A q \in Persons \ {p} : user'[q] = user[q]
  BY <1>3, <1>4 DEF Known
<1> QED
  BY <1>3, <1>5, <1>6 DEF Saved1

---------------------------------------------------------------------------
(* What a step does, as far as the invariant looks *)

\* What keeps the user, the uses of the invite and who overlapped.
Quiet == UNCHANGED <<user, joined, mixed, person, invite>>
Places == /\ link' \in [Rows -> Persons \cup {None}] /\ home' \in [Rows -> Shops \cup {None}]
          /\ at' \in [Shifts -> Rows]

\* A request that keeps its copy and its aim: it goes on to one of pcs, or ends.
Passed(x, pcs) ==
  /\ Quiet /\ Places /\ OthersGo(x)
  /\ \/ Ends(x)
     \/ /\ proc'[x].pc \in pcs \ {"done", "failed"} /\ proc'[x].mine = proc[x].mine
        /\ proc'[x].hint = proc[x].hint /\ proc'[x].then \in {proc[x].then, "done"}
        /\ proc'[x].pc \in {"link", "gather", "move"} => proc'[x].row # None

\* Binding finds, creates or links a row, or moves shifts; then the request goes on.
LEMMA BindEffect ==
  ASSUME TypeOK, Holds, NEW x \in Processes, Bind(x)
  PROVE  proc[x].pc \in Binding /\ Passed(x, Binding \cup {proc[x].then})
<1> USE DEF schedule
<1>a. Procs /\ person[x] \in Persons /\ proc[x] \in Proc /\ x \in Rows
  BY DEF TypeOK, Procs, Rows
<1>b. /\ link \in [Rows -> Persons \cup {None}] /\ home \in [Rows -> Shops \cup {None}]
      /\ at \in [Shifts -> Rows]
  BY DEF TypeOK
<1>c. Quiet
  BY DEF Bind, FindRow, LinkRow, CreateRow, Gather, Move, Quiet
<1>f. /\ proc[x].pc \in Pcs /\ proc[x].mine \in User \cup {None}
      /\ proc[x].hint \in RoleNames \cup {None} /\ proc[x].row \in Rows \cup {None}
      /\ proc[x].sources \in SUBSET Rows /\ proc[x].then \in {"apply", "final", "write", "done"}
  BY <1>a DEF Proc
<1>t. ASSUME NEW pc \in Pcs, To(x, pc), pc \notin {"link", "gather", "move"} \/ proc[x].row # None,
             pc \in {"done", "failed"} \/ pc \in Binding \cup {proc[x].then}, Places
      PROVE  Passed(x, Binding \cup {proc[x].then})
  <2> DEFINE p == [proc[x] EXCEPT !.pc = pc]
  <2>1. /\ p \in Proc /\ p.pc = pc /\ p.mine = proc[x].mine /\ p.hint = proc[x].hint
        /\ p.then = proc[x].then /\ p.row = proc[x].row
    BY <1>a DEF Proc
  <2>2. Becomes(x, p)
    BY <1>t DEF To
  <2> HIDE DEF p
  <2>3. Goes(x, p)
    BY <1>a, <2>1, <2>2, BecomesEffect
  <2> QED
    BY <1>c, <1>t, <2>1, <2>3 DEF Goes, Ends, Passed
<1>g. ASSUME NEW pc \in Pcs, NEW row \in Rows \cup {None},
             Becomes(x, [proc[x] EXCEPT !.pc = pc, !.row = row]),
             pc \notin {"link", "gather", "move"} \/ row # None,
             pc \in {"done", "failed"} \/ pc \in Binding \cup {proc[x].then}, Places
      PROVE  Passed(x, Binding \cup {proc[x].then})
  <2> DEFINE p == [proc[x] EXCEPT !.pc = pc, !.row = row]
  <2>1. /\ p \in Proc /\ p.pc = pc /\ p.mine = proc[x].mine /\ p.hint = proc[x].hint
        /\ p.then = proc[x].then /\ p.row = row
    BY <1>a DEF Proc
  <2> HIDE DEF p
  <2>3. Goes(x, p)
    BY <1>a, <1>g, <2>1, BecomesEffect DEF p
  <2> QED
    BY <1>c, <1>g, <2>1, <2>3 DEF Goes, Ends, Passed
<1>m. ASSUME NEW sources \in SUBSET Rows, proc[x].row # None, Migrate(x, proc[x].row, sources), Places
      PROVE  Passed(x, Binding \cup {proc[x].then})
  <2> DEFINE p == [proc[x] EXCEPT !.row = IF sources = {} THEN None ELSE proc[x].row,
                                  !.sources = sources,
                                  !.pc = IF sources = {} THEN proc[x].then ELSE "move"]
  <2>1. /\ p \in Proc /\ p.pc = (IF sources = {} THEN proc[x].then ELSE "move")
        /\ p.mine = proc[x].mine /\ p.hint = proc[x].hint
        /\ p.then = proc[x].then /\ p.row = IF sources = {} THEN None ELSE proc[x].row
    BY ZenonT(60), <1>a, <1>f DEF Proc, Pcs
  <2> HIDE DEF p
  <2>3. Goes(x, p)
    BY <1>a, <1>m, <2>1, BecomesEffect DEF p, Migrate
  <2> QED
    BY <1>c, <1>f, <1>m, <2>1, <2>3 DEF Goes, Ends, Passed, Binding
<1>p. proc[x].pc \in Binding
  BY DEF Bind, FindRow, LinkRow, CreateRow, Gather, Move, At, Binding
<1> SUFFICES Passed(x, Binding \cup {proc[x].then})
  BY <1>p
<1>1. CASE FindRow(x)
  <2>1. At(x, "find") /\ proc[x].mine \in User /\ UNCHANGED <<link, at>>
    BY <1>1, <1>f DEF FindRow, At, Holds, Binding
  <2>2. CASE proc[x].mine.role \notin Staff \/ Shop(x) = None
    <3>1. To(x, proc[x].then) /\ home' = home
      BY <1>1, <2>2 DEF FindRow
    <3>2. Places
      BY <1>b, <2>1, <3>1 DEF Places
    <3>3. proc[x].then \in Pcs /\ proc[x].then \notin {"link", "gather", "move"}
      BY <1>f DEF Pcs
    <3>4. PICK pc \in Pcs : pc = proc[x].then
      BY <3>3
    <3>5. To(x, pc) /\ pc \notin {"link", "gather", "move"} /\ pc \in Binding \cup {proc[x].then}
      BY <3>1, <3>3, <3>4
    <3> QED
      BY <1>t, <3>2, <3>5
  <2>3. CASE ~(proc[x].mine.role \notin Staff \/ Shop(x) = None)
    <3>1. Shop(x) \in Shops
      BY <2>1, <2>3 DEF Shop, User, Shops
    <3>2. \/ \E r \in Rows : /\ Becomes(x, [proc[x] EXCEPT !.pc = "gather", !.row = r])
                             /\ home' = [home EXCEPT ![r] = Shop(x)]
          \/ \E r \in Rows : /\ Becomes(x, [proc[x] EXCEPT !.pc = "link", !.row = r])
                             /\ home' = home
          \/ \E pc \in {"create", proc[x].then} :
               /\ Becomes(x, [proc[x] EXCEPT !.pc = pc, !.row = None])
               /\ home' = home
      BY <1>1, <2>3 DEF FindRow, Linked, Reusable, Rows
    <3>3. home' = home => Places
      BY <1>b, <2>1 DEF Places
    <3>4. \A r \in Rows : r # None /\ (home' = [home EXCEPT ![r] = Shop(x)] => Places)
      BY <1>b, <2>1, <3>1, StaffAssumption DEF Places, Rows
    <3>5. {"gather", "link", "create"} \subseteq Pcs \cap Binding /\ proc[x].then \in Pcs
      BY <1>f DEF Pcs, Binding
    <3>6. proc[x].then \notin {"link", "gather", "move"}
      BY <1>f
    <3>7. ASSUME NEW r \in Rows, Becomes(x, [proc[x] EXCEPT !.pc = "gather", !.row = r]),
                 home' = [home EXCEPT ![r] = Shop(x)]
          PROVE  Passed(x, Binding \cup {proc[x].then})
      BY <1>g, <3>4, <3>5, <3>7
    <3>8. ASSUME NEW r \in Rows, Becomes(x, [proc[x] EXCEPT !.pc = "link", !.row = r]),
                 home' = home
          PROVE  Passed(x, Binding \cup {proc[x].then})
      BY <1>g, <3>3, <3>4, <3>5, <3>8
    <3>9. ASSUME NEW pc \in {"create", proc[x].then}, home' = home,
                 Becomes(x, [proc[x] EXCEPT !.pc = pc, !.row = None])
          PROVE  Passed(x, Binding \cup {proc[x].then})
      <4>1. pc \in Pcs /\ pc \notin {"link", "gather", "move"} /\ pc \in Binding \cup {proc[x].then}
        BY <3>5, <3>6
      <4> QED
        BY <1>g, <3>3, <3>9, <4>1
    <3> QED
      BY <3>2, <3>7, <3>8, <3>9
  <2> QED
    BY <2>2, <2>3
<1>2. CASE LinkRow(x)
  <2>1. At(x, "link") /\ proc[x].row # None /\ (To(x, "failed") \/ To(x, "gather"))
    BY <1>2 DEF LinkRow, At, Holds
  <2>2. Places
    BY <1>2, <1>a, <1>b DEF LinkRow, Places
  <2> QED
    BY <2>1, <2>2, <1>t DEF Pcs, Binding
<1>3. CASE CreateRow(x)
  <2>1. /\ At(x, "create") /\ proc[x].mine \in User
        /\ To(x, "failed") \/ Becomes(x, [proc[x] EXCEPT !.pc = "gather", !.row = x])
    BY <1>3, <1>f DEF CreateRow, At, Holds, Binding
  <2>2. Shop(x) \in Shops \cup {None}
    BY <2>1 DEF Shop, User, Shops
  <2>3. Places
    BY <1>3, <1>a, <1>b, <2>2 DEF CreateRow, Places
  <2>4. x # None
    BY StaffAssumption
  <2> QED
    BY <2>1, <2>3, <2>4, <1>a, <1>t, <1>g DEF Pcs, Binding
<1>4. CASE Gather(x)
  <2>1. At(x, "gather") /\ proc[x].row # None
    BY <1>4 DEF Gather, At, Holds
  <2>2. PICK sources \in SUBSET Rows : Migrate(x, proc[x].row, sources)
    BY <1>4 DEF Gather
  <2>3. Places
    BY <1>4, <1>b DEF Gather, Places
  <2> QED
    BY <2>1, <2>2, <2>3, <1>m
<1>5. CASE Move(x)
  <2>1. At(x, "move") /\ proc[x].row \in Rows /\ proc[x].row # None
    BY <1>5, <1>f DEF Move, At, Holds
  <2>2. PICK r \in proc[x].sources :
           /\ at' = [s \in Shifts |-> IF at[s] = r THEN proc[x].row ELSE at[s]]
           /\ link' = [link EXCEPT ![r] = IF @ = person[x] THEN None ELSE @]
           /\ Migrate(x, proc[x].row, proc[x].sources \ {r})
    BY <1>5 DEF Move
  <2>3. Places
    BY <1>5, <1>b, <1>f, <2>1, <2>2 DEF Move, Places
  <2>4. proc[x].sources \ {r} \in SUBSET Rows
    BY <1>f
  <2> QED
    BY <2>1, <2>2, <2>3, <2>4, <1>m
<1> QED
  BY <1>1, <1>2, <1>3, <1>4, <1>5 DEF Bind

\* A sign-in or a visit begins: it reads its user, and overlapping ones are remembered.
Began(v) ==
  /\ At(v, "idle") /\ UNCHANGED <<joined, person, invite>> /\ Places /\ Known'
  /\ mixed' = IF \E y \in Visits \ {v} : person[y] = person[v] /\ Running(y)
              THEN mixed \cup {person[v]} ELSE mixed
  /\ \A q \in Persons :
       /\ user'[q] = None <=> user[q] = None
       /\ user[q] # None => /\ user'[q].role = user[q].role /\ user'[q].staff = user[q].staff
                            /\ user'[q].tenant = user[q].tenant
  /\ \/ Ends(v)
     \/ /\ OthersGo(v) /\ proc'[v].mine = user'[person[v]] /\ proc'[v].hint # None
        /\ \/ proc'[v].pc \in {"apply", "sync", "normalise"} /\ user[person[v]] # None
           \/ proc'[v].pc = "signup" /\ user[person[v]] = None

\* save_user has made the account.
SignedUp(v) ==
  /\ At(v, "signup") /\ UNCHANGED <<joined, mixed, person, invite>> /\ Places /\ Known'
  /\ user[person[v]] = None /\ user'[person[v]] = NewUser
  /\ \A q \in Persons \ {person[v]} : user'[q] = user[q]
  /\ OthersGo(v) /\ proc'[v].mine = NewUser /\ proc'[v].hint = proc[v].hint
  /\ proc'[v].pc \in {"sync", "apply"}

\* A request saves its user and goes on with the new copy, or ends.
Wrote(x, new) ==
  /\ UNCHANGED <<mixed, person>> /\ Places
  /\ proc[x].mine \in User /\ new \in User /\ Saved1(person[x], proc[x].mine, new)
  /\ \/ Ends(x)
     \/ OthersGo(x) /\ proc'[x].mine = new /\ proc'[x].hint = proc[x].hint
SyncedTo(v, new) ==
  /\ At(v, "sync") /\ UNCHANGED <<joined, invite>> /\ Wrote(v, new)
  /\ new = Synced(proc[v].mine, proc[v].hint)
  /\ proc'[v].pc \in {"find", "apply", "done"}
AppliedTo(v, new) ==
  /\ At(v, "apply") /\ Available /\ Wrote(v, new)
  /\ new.role = "STAFF" /\ new.staff = TRUE /\ new.tenant = "shop"
  /\ invite' = [used |-> invite.used + 1, active |-> invite.used + 1 < MaxUses]
  /\ joined' = joined \cup {v}
  /\ proc'[v].pc = "find" /\ proc'[v].then \in {"final", "done"}
WrittenTo(o, new) ==
  /\ At(o, "write") /\ UNCHANGED <<joined, invite>> /\ Wrote(o, new)
  /\ new.tenant = "shop" /\ new.role = proc[o].hint /\ new.staff = proc[o].mine.staff
  /\ proc'[o].pc = "find"

\* sso_authorize saves a copy that keeps a privilege, or saves nothing.
Normalised(v, new) ==
  /\ At(v, "normalise") /\ UNCHANGED <<joined, mixed, person, invite>> /\ Places /\ Ends(v)
  /\ proc[v].mine \in User /\ new \in User
  /\ user' = user \/ Saved1(person[v], proc[v].mine, new)
  /\ Privileged(proc[v].mine) =>
       /\ new.role = proc[v].mine.role /\ new.staff = proc[v].mine.staff
       /\ proc[v].mine.tenant # None => new.tenant = proc[v].mine.tenant

\* The owner's page has read its user.
Opened(o) ==
  /\ At(o, "idle") /\ Quiet /\ Places /\ OthersGo(o)
  /\ user[person[o]] # None /\ proc'[o].mine = user[person[o]]
  /\ proc'[o].hint \in Staff \cup {proc'[o].mine.role}
  /\ proc'[o].pc \in {"find", "write"}

LEMMA Placed ==
  ASSUME TypeOK, UNCHANGED schedule PROVE Places
  BY DEF TypeOK, Places, schedule

LEMMA ProcFields ==
  ASSUME TypeOK, NEW x \in Processes
  PROVE  /\ Procs /\ Known /\ person[x] \in Persons /\ proc[x] \in Proc
         /\ proc[x].pc \in Pcs /\ proc[x].mine \in User \cup {None}
         /\ proc[x].hint \in RoleNames \cup {None}
         /\ proc[x].then \in {"apply", "final", "write", "done"}
         /\ proc[x].public \in BOOLEAN /\ proc[x].fresh \in BOOLEAN /\ proc[x].token \in BOOLEAN
<1>1. Procs /\ Known /\ person[x] \in Persons /\ proc[x] \in Proc
  BY DEF TypeOK, Procs, Known
<1> QED
  BY <1>1 DEF Proc

\* To keeps the copy and the aim.
LEMMA ToEffect ==
  ASSUME TypeOK, NEW x \in Processes, NEW pc \in Pcs, To(x, pc), Quiet, Places,
         pc \notin {"link", "gather", "move"}
  PROVE  Passed(x, {pc})
<1>a. Procs /\ proc[x] \in Proc
  BY ProcFields
<1> DEFINE p == [proc[x] EXCEPT !.pc = pc]
<1>1. /\ p \in Proc /\ p.pc = pc /\ p.mine = proc[x].mine /\ p.hint = proc[x].hint
      /\ p.then = proc[x].then /\ p.row = proc[x].row
  BY <1>a DEF Proc
<1>2. Becomes(x, p)
  BY DEF To
<1> HIDE DEF p
<1>3. Goes(x, p)
  BY <1>a, <1>1, <1>2, BecomesEffect
<1> QED
  BY <1>1, <1>3 DEF Goes, Ends, Passed

\* Arrive reads the user it has woken.
LEMMA ArriveEffect ==
  ASSUME TypeOK, NEW v \in Visits, NEW token \in BOOLEAN, NEW public \in BOOLEAN,
         NEW hint \in Hints, Arrive(v, token, public, hint)
  PROVE  Began(v)
<1> DEFINE p == person[v]
           known == user[p] # None
           invited == token /\ Available
           marked == public /\ (known \/ (token => invited))
           r == [Idle EXCEPT
                  !.mine = user'[p], !.token = invited, !.public = marked,
                  !.hint = IF marked THEN hint ELSE "CONSUMER", !.fresh = ~known,
                  !.pc = CASE known /\ invited -> "apply"
                           [] known /\ ~invited /\ marked -> "sync"
                           [] ~known /\ (invited \/ marked) -> "signup"
                           [] OTHER -> "done"]
<1>a. Procs /\ Known /\ p \in Persons /\ v \in Processes /\ hint \in RoleNames
  BY ProcFields, StaffAssumption DEF Processes
<1>1. /\ At(v, "idle") /\ UNCHANGED <<joined, person, invite>> /\ Places
      /\ user' = IF known THEN [user EXCEPT ![p].active = TRUE] ELSE user
      /\ Starts(v, r)
  BY Placed DEF Arrive
<1>2. Known' /\ \A q \in Persons :
       /\ user'[q] = None <=> user[q] = None
       /\ user[q] # None => /\ user'[q].role = user[q].role /\ user'[q].staff = user[q].staff
                            /\ user'[q].tenant = user[q].tenant
  <2>1. CASE ~known
    BY <1>1, <1>a, <2>1 DEF Known
  <2>2. CASE known
    <3> DEFINE u == [user[p] EXCEPT !.active = TRUE]
    <3>1. /\ u \in User /\ u.role = user[p].role /\ u.staff = user[p].staff
          /\ u.tenant = user[p].tenant
      BY <1>a, <2>2 DEF Known, User
    <3>2. user' = [user EXCEPT ![p] = u]
      BY <1>1, <2>2
    <3> HIDE DEF u
    <3>3. u # None
      BY <3>1, StaffAssumption
    <3> QED
      BY <1>a, <2>2, <3>1, <3>2, <3>3 DEF Known
  <2> QED
    BY <2>1, <2>2
<1>3. PICK pc \in {"apply", "sync", "signup", "done"} :
        /\ pc = r.pc
        /\ pc \in {"apply", "sync"} => known
        /\ pc = "signup" => ~known
  BY DEF Idle
<1>4. user'[p] \in User \cup {None}
  BY <1>2, <1>a DEF Known
<1>h. PICK h \in RoleNames : h = r.hint
  BY <1>a DEF Idle, RoleNames
<1>5. r \in Proc /\ r.pc = pc /\ r.mine = user'[p] /\ r.hint = h
  <2>1. invited \in BOOLEAN /\ marked \in BOOLEAN
    BY DEF Available
  <2> QED
    BY ZenonT(60), <1>3, <1>4, <1>h, <2>1 DEF Idle, Proc, Pcs
<1>6. /\ Becomes(v, r)
      /\ mixed' = IF \E y \in Visits \ {v} : person[y] = person[v] /\ Running(y)
                  THEN mixed \cup {person[v]} ELSE mixed
  BY <1>1 DEF Starts
<1> HIDE DEF r
<1>7. Goes(v, r)
  BY <1>5, <1>6, <1>a, BecomesEffect
<1>8. h # None
  BY StaffAssumption
<1> QED
  BY <1>1, <1>2, <1>3, <1>5, <1>6, <1>7, <1>8 DEF Began, Goes

LEMMA AuthorizeEffect ==
  ASSUME TypeOK, NEW v \in Visits, NEW hint \in Hints, Authorize(v, hint)
  PROVE  Began(v)
<1> DEFINE r == [Idle EXCEPT !.pc = "normalise", !.mine = user[person[v]], !.hint = hint]
<1>a. Procs /\ Known /\ person[v] \in Persons /\ v \in Processes /\ hint \in RoleNames /\ hint # None
  BY ProcFields, StaffAssumption DEF Processes
<1>1. /\ At(v, "idle") /\ UNCHANGED <<user, joined, person, invite>> /\ Places
      /\ user[person[v]] # None
      /\ Starts(v, r)
  BY Placed DEF Authorize
<1>2. user[person[v]] \in User
  BY <1>a, <1>1 DEF Known
<1>5. r \in Proc /\ r.pc = "normalise" /\ r.mine = user[person[v]] /\ r.hint = hint
  BY <1>2, <1>a DEF Idle, Proc, Pcs
<1>6. /\ Becomes(v, r)
      /\ mixed' = IF \E y \in Visits \ {v} : person[y] = person[v] /\ Running(y)
                  THEN mixed \cup {person[v]} ELSE mixed
  BY <1>1 DEF Starts
<1> HIDE DEF r
<1>7. Goes(v, r)
  BY <1>5, <1>6, <1>a, BecomesEffect
<1> QED
  BY <1>a, <1>1, <1>5, <1>6, <1>7 DEF Began, Goes, Known

\* The other steps of a request that keep its copy.
Turned(v) == /\ proc[v].pc \in {"signup", "apply"} /\ Passed(v, {"final", "sync"})
             /\ At(v, "signup") => Ends(v)
LastBind(v) == At(v, "final") /\ Passed(v, {"find"})
Bound(x) == proc[x].pc \in Binding /\ Passed(x, Binding \cup {proc[x].then})

LEMMA SignUpEffect ==
  ASSUME TypeOK, Holds, NEW v \in Visits, SignUp(v)
  PROVE  SignedUp(v) \/ Turned(v)
<1>a. /\ Procs /\ Known /\ person[v] \in Persons /\ v \in Processes /\ proc[v] \in Proc
  BY ProcFields DEF Processes
<1>1. At(v, "signup") /\ UNCHANGED <<joined, mixed, person, invite>> /\ Places
  BY Placed DEF SignUp
<1>2. CASE user[person[v]] # None
  <2>1. To(v, "failed") /\ Quiet
    BY <1>1, <1>2 DEF SignUp, Quiet
  <2>2. Passed(v, {"failed"})
    BY <1>a, <1>1, <2>1, ToEffect DEF Pcs
  <2> QED
    BY <1>1, <2>2 DEF Turned, Passed, At
<1>3. CASE user[person[v]] = None
  <2> DEFINE pc == IF proc[v].public THEN "sync" ELSE "apply"
             r  == [proc[v] EXCEPT !.mine = NewUser, !.pc = pc]
  <2>1. user' = [user EXCEPT ![person[v]] = NewUser] /\ Becomes(v, r)
    BY <1>3 DEF SignUp
  <2>2. NewUser \in User
    BY DEF NewUser, User, RoleNames
  <2>3. /\ r \in Proc /\ r.pc \in {"sync", "apply"} /\ r.mine = NewUser
        /\ r.hint = proc[v].hint
    BY <1>a, <2>2 DEF Proc, Pcs
  <2> HIDE DEF r
  <2>4. Goes(v, r)
    BY <1>a, <2>1, <2>3, BecomesEffect
  <2>5. Known' /\ user'[person[v]] = NewUser /\ \A q \in Persons \ {person[v]} : user'[q] = user[q]
    BY <1>a, <2>1, <2>2 DEF Known
  <2> QED
    BY <1>1, <1>3, <2>3, <2>4, <2>5 DEF SignedUp, Goes
<1> QED
  BY <1>2, <1>3

LEMMA TurnEffect ==
  ASSUME TypeOK, Holds, NEW v \in Visits, TurnAway(v) \/ PassInvite(v)
  PROVE  Turned(v)
<1>a. v \in Processes
  BY DEF Processes
<1>1. CASE TurnAway(v)
  <2>1. At(v, "signup") /\ To(v, "failed") /\ Quiet /\ Places
    BY <1>1, Placed DEF TurnAway, Quiet
  <2>2. Passed(v, {"failed"})
    BY <1>a, <2>1, ToEffect DEF Pcs
  <2> QED
    BY <2>1, <2>2 DEF Turned, Passed, At
<1>2. CASE PassInvite(v)
  <2>1. At(v, "apply") /\ Quiet /\ Places
    BY <1>2, Placed DEF PassInvite, Quiet
  <2>2. PICK pc \in {"failed", "final", "sync", "done"} : To(v, pc)
    <3> DEFINE mine == proc[v].mine
               none == ~proc[v].token \/ ~Available
               pc == CASE ~none -> "failed"
                       [] none /\ proc[v].fresh -> "final"
                       [] none /\ ~proc[v].fresh /\ proc[v].public -> "sync"
                       [] OTHER -> "done"
    <3>1. pc \in {"failed", "final", "sync", "done"}
      OBVIOUS
    <3>2. To(v, pc)
      BY <1>2 DEF PassInvite
    <3> QED
      BY <3>1, <3>2
  <2>3. Passed(v, {pc})
    BY <1>a, <2>1, <2>2, ToEffect DEF Pcs
  <2> QED
    BY <2>1, <2>2, <2>3 DEF Turned, Passed, At
<1> QED
  BY <1>1, <1>2

LEMMA FinalEffect ==
  ASSUME TypeOK, NEW v \in Visits, Final(v)
  PROVE  LastBind(v)
<1> DEFINE r == [proc[v] EXCEPT !.pc = "find", !.create = ~proc[v].public, !.then = "done"]
<1>a. Procs /\ v \in Processes /\ proc[v] \in Proc /\ proc[v].public \in BOOLEAN
  BY ProcFields DEF Processes
<1>1. At(v, "final") /\ Quiet /\ Places /\ Becomes(v, r)
  BY Placed DEF Final, Quiet
<1>2. /\ r \in Proc /\ r.pc = "find" /\ r.mine = proc[v].mine /\ r.hint = proc[v].hint
      /\ r.then = "done"
  BY ZenonT(60), <1>a DEF Proc, Pcs
<1> HIDE DEF r
<1>3. Goes(v, r)
  BY <1>a, <1>1, <1>2, BecomesEffect
<1> QED
  BY <1>1, <1>2, <1>3 DEF LastBind, Passed, Goes

\* Where a request is about to write, its copy and its user's row are there.
LEMMA Copied ==
  ASSUME TypeOK, Holds, NEW x \in Processes, proc[x].pc \in {"apply", "sync", "normalise", "write"}
  PROVE  proc[x].mine \in User /\ user[person[x]] # None /\ user[person[x]] \in User
<1>1. proc[x].mine # None /\ user[person[x]] # None
  BY DEF Holds
<1> QED
  BY <1>1, ProcFields DEF Known

LEMMA SyncedUser ==
  ASSUME NEW mine \in User, NEW hint \in RoleNames
  PROVE  Synced(mine, hint) \in User
<1> DEFINE role == IF hint = "CONSUMER" /\ Privileged(mine) THEN mine.role ELSE hint
<1>1. role \in RoleNames
  BY DEF User
<1>2. Synced(mine, hint) =
        [mine EXCEPT !.role = role, !.staff = role \in Staff,
                     !.tenant = IF role = "CONSUMER" THEN None ELSE IF @ = None THEN "public" ELSE @]
  BY DEF Synced
<1> HIDE DEF role
<1>3. /\ (role \in Staff) \in BOOLEAN
      /\ (IF role = "CONSUMER" THEN None ELSE IF mine.tenant = None THEN "public" ELSE mine.tenant)
           \in Shops \cup {None}
  BY DEF User, Shops
<1> QED
  BY <1>1, <1>2, <1>3 DEF User

LEMMA SyncEffect ==
  ASSUME TypeOK, Holds, NEW v \in Visits, Sync(v)
  PROVE  \E new \in User : SyncedTo(v, new)
<1> DEFINE old  == proc[v].mine
           new  == Synced(old, proc[v].hint)
           next == IF proc[v].fresh THEN "apply" ELSE "done"
           r == [proc[v] EXCEPT !.mine = new, !.then = next, !.create = FALSE,
                                !.pc = IF new.role \in Staff THEN "find" ELSE next]
<1>a. /\ Procs /\ Known /\ person[v] \in Persons /\ v \in Processes /\ proc[v] \in Proc
      /\ proc[v].hint \in RoleNames \cup {None}
  BY ProcFields DEF Processes
<1>1. /\ At(v, "sync") /\ UNCHANGED <<joined, mixed, person, invite>> /\ Places
      /\ SaveChanged(person[v], old, new) /\ Becomes(v, r)
  BY Placed DEF Sync
<1>2. old \in User /\ user[person[v]] # None
  BY <1>1, <1>a, Copied DEF At
<1>3. proc[v].hint \in RoleNames
  BY <1>1, <1>a DEF Holds, At, Running
<1>4. new \in User
  BY <1>2, <1>3, SyncedUser
<1>5. Saved1(person[v], old, new)
  BY <1>1, <1>2, <1>4, <1>a, SaveEffect
<1>6. /\ r \in Proc /\ r.pc \in {"find", "apply", "done"} /\ r.mine = new
      /\ r.hint = proc[v].hint
  <2> DEFINE pc == IF new.role \in Staff THEN "find" ELSE next
  <2>1. next \in {"apply", "done"} /\ pc \in {"find", "apply", "done"}
    OBVIOUS
  <2>2. r = [proc[v] EXCEPT !.mine = new, !.then = next, !.create = FALSE, !.pc = pc]
    OBVIOUS
  <2> HIDE DEF new, next, pc, r
  <2>3. /\ r.pc = pc /\ r.mine = new /\ r.hint = proc[v].hint
    BY <1>a, <2>2 DEF Proc
  <2>4. pc \in Pcs /\ next \in {"apply", "final", "write", "done"} /\ new \in User \cup {None}
    BY <1>4, <2>1 DEF Pcs
  <2>5. r \in Proc
    BY <1>a, <2>2, <2>4 DEF Proc
  <2> QED
    BY <2>1, <2>3, <2>5
<1> HIDE DEF r
<1>7. Goes(v, r)
  BY <1>a, <1>1, <1>6, BecomesEffect
<1>8. proc'[v].pc \in {"find", "apply", "done"}
  <2>1. CASE r.pc \in {"find", "apply"}
    BY <2>1, <1>6, <1>7 DEF Goes
  <2>2. CASE r.pc = "done"
    BY <2>2, <1>1, <1>a DEF Becomes, Procs, Idle
  <2> QED
    BY <2>1, <2>2, <1>6
<1>9. SyncedTo(v, new)
  <2>1. new = Synced(proc[v].mine, proc[v].hint)
    OBVIOUS
  <2> HIDE DEF new
  <2> QED
    BY <1>1, <1>2, <1>4, <1>5, <1>6, <1>7, <1>8, <2>1 DEF SyncedTo, Wrote, Goes
<1> QED
  BY <1>4, <1>9

LEMMA ApplyEffect ==
  ASSUME TypeOK, Holds, NEW v \in Visits, Apply(v)
  PROVE  \E new \in User : AppliedTo(v, new)
<1> DEFINE old == proc[v].mine
           new == [role |-> "STAFF", staff |-> TRUE, tenant |-> "shop", active |-> TRUE]
           r == [proc[v] EXCEPT !.mine = new, !.create = TRUE, !.pc = "find",
                                !.then = IF proc[v].fresh THEN "final" ELSE "done"]
<1>a. Procs /\ Known /\ person[v] \in Persons /\ v \in Processes /\ proc[v] \in Proc
  BY ProcFields DEF Processes
<1>1. /\ At(v, "apply") /\ Available /\ UNCHANGED <<mixed, person>> /\ Places
      /\ SaveChanged(person[v], old, new) /\ Becomes(v, r)
      /\ invite' = [used |-> invite.used + 1, active |-> invite.used + 1 < MaxUses]
      /\ joined' = joined \cup {v}
  BY Placed DEF Apply
<1>2. old \in User /\ user[person[v]] # None
  BY <1>1, <1>a, Copied DEF At
<1>4. new \in User /\ new.role = "STAFF" /\ new.staff = TRUE /\ new.tenant = "shop"
  BY DEF User, RoleNames, Shops
<1> HIDE DEF new
<1>5. Saved1(person[v], old, new)
  BY <1>1, <1>2, <1>4, <1>a, SaveEffect
<1>6. /\ r \in Proc /\ r.pc = "find" /\ r.mine = new
      /\ r.hint = proc[v].hint /\ r.then \in {"final", "done"}
  BY <1>a, <1>4 DEF Proc, Pcs
<1> HIDE DEF r
<1>7. Goes(v, r)
  BY <1>a, <1>1, <1>6, BecomesEffect
<1>8. AppliedTo(v, new)
  BY <1>1, <1>2, <1>4, <1>5, <1>6, <1>7 DEF AppliedTo, Wrote, Goes
<1> QED
  BY <1>4, <1>8

LEMMA NormaliseEffect ==
  ASSUME TypeOK, Holds, NEW v \in Visits, Normalise(v)
  PROVE  \E new \in User : Normalised(v, new)
<1> DEFINE old == proc[v].mine
           new == IF Privileged(old) THEN [old EXCEPT !.tenant = IF @ = None THEN "public" ELSE @]
                  ELSE [old EXCEPT !.role = "CONSUMER", !.staff = FALSE, !.tenant = None]
<1>a. Procs /\ Known /\ person[v] \in Persons /\ v \in Processes
  BY ProcFields DEF Processes
<1>1. /\ At(v, "normalise") /\ UNCHANGED <<joined, mixed, person, invite>> /\ Places
      /\ user' = user \/ SaveChanged(person[v], old, new)
      /\ To(v, "done")
  BY Placed DEF Normalise
<1>2. old \in User /\ user[person[v]] # None
  BY <1>1, <1>a, Copied DEF At
<1>3. /\ new \in User
      /\ Privileged(old) => /\ new.role = old.role /\ new.staff = old.staff
                            /\ old.tenant # None => new.tenant = old.tenant
  BY <1>2 DEF User, RoleNames, Shops
<1> HIDE DEF new
<1>4. user' = user \/ Saved1(person[v], old, new)
  BY <1>1, <1>2, <1>3, <1>a, SaveEffect
<1>5. Ends(v)
  <2> DEFINE r == [proc[v] EXCEPT !.pc = "done"]
  <2>1. r \in Proc /\ r.pc = "done"
    BY <1>a DEF Procs, Proc, Pcs
  <2>2. Becomes(v, r)
    BY <1>1 DEF To
  <2> HIDE DEF r
  <2> QED
    BY <1>a, <2>1, <2>2, BecomesEffect DEF Goes
<1>6. Normalised(v, new)
  BY <1>1, <1>2, <1>3, <1>4, <1>5 DEF Normalised
<1> QED
  BY <1>3, <1>6

LEMMA SaveStaffEffect ==
  ASSUME TypeOK, NEW o \in Saves, NEW role \in Staff \cup {None}, SaveStaff(o, role)
  PROVE  Opened(o)
<1> DEFINE mine == user[person[o]]
           hint == IF role = None THEN mine.role ELSE role
           r == [Idle EXCEPT
                  !.mine = mine, !.hint = hint, !.create = TRUE, !.then = "write",
                  !.pc = IF mine.role \in Staff \/ role \in Staff THEN "find" ELSE "write"]
<1>a. Procs /\ Known /\ person[o] \in Persons /\ o \in Processes
  BY ProcFields DEF Processes
<1>1. At(o, "idle") /\ Quiet /\ Places /\ mine # None /\ Becomes(o, r)
  BY Placed DEF SaveStaff, Quiet
<1>2. mine \in User
  BY <1>a, <1>1 DEF Known
<1>3. hint \in Staff \cup {mine.role} /\ hint \in RoleNames
  BY <1>2 DEF User, Staff, RoleNames
<1>4. r \in Proc /\ r.pc \in {"find", "write"} /\ r.mine = mine /\ r.hint = hint
  <2> HIDE DEF mine, hint
  <2> QED
    BY <1>2, <1>3 DEF Idle, Proc, Pcs
<1> HIDE DEF r, hint
<1>5. Goes(o, r)
  BY <1>a, <1>1, <1>4, BecomesEffect
<1> QED
  BY <1>1, <1>3, <1>4, <1>5 DEF Opened, Goes

LEMMA WriteStaffEffect ==
  ASSUME TypeOK, Holds, SavesPromote, NEW o \in Saves, WriteStaff(o)
  PROVE  \E new \in User : WrittenTo(o, new)
<1> DEFINE old == proc[o].mine
           new == [old EXCEPT !.tenant = "shop", !.role = proc[o].hint]
           r == [proc[o] EXCEPT !.mine = new, !.then = "done", !.pc = "find"]
<1>a. Procs /\ Known /\ person[o] \in Persons /\ o \in Processes /\ proc[o] \in Proc
  BY ProcFields DEF Processes
<1>1. /\ At(o, "write") /\ UNCHANGED <<joined, mixed, person, invite>> /\ Places
      /\ SaveChanged(person[o], old, new) /\ Becomes(o, r)
  BY Placed DEF WriteStaff
<1>2. old \in User /\ user[person[o]] # None
  BY <1>1, <1>a, Copied DEF At
<1>3. proc[o].hint \in RoleNames
  <2>1. proc[o].hint \in Staff \cup {old.role} /\ old.role \in RoleNames
    BY <1>2, StaffAssumption DEF SavesPromote, User
  <2> QED
    BY <2>1 DEF Staff, RoleNames
<1>4. new \in User /\ new.tenant = "shop" /\ new.role = proc[o].hint /\ new.staff = old.staff
  BY <1>2, <1>3 DEF User, Shops
<1> HIDE DEF new
<1>5. Saved1(person[o], old, new)
  BY <1>1, <1>2, <1>4, <1>a, SaveEffect
<1>6. r \in Proc /\ r.pc = "find" /\ r.mine = new /\ r.hint = proc[o].hint
  BY <1>a, <1>4 DEF Proc, Pcs
<1> HIDE DEF r
<1>7. Goes(o, r)
  BY <1>a, <1>1, <1>6, BecomesEffect
<1>8. WrittenTo(o, new)
  BY <1>1, <1>2, <1>4, <1>5, <1>6, <1>7 DEF WrittenTo, Wrote, Goes
<1> QED
  BY <1>4, <1>8

\* The owner closes the invite, or nothing happens.
Closed == /\ UNCHANGED <<user, proc, joined, mixed, person>> /\ Places
          /\ invite'.used = invite.used /\ invite' \in [used : 0 .. MaxUses, active : BOOLEAN]

\* Every step is one of these kinds.
LEMMA StepKinds ==
  ASSUME TypeOK, Holds, SavesPromote, [Next]_vars
  PROVE  \/ \E v \in Visits : Began(v) \/ SignedUp(v) \/ Turned(v) \/ LastBind(v)
         \/ \E v \in Visits, new \in User : SyncedTo(v, new) \/ AppliedTo(v, new) \/ Normalised(v, new)
         \/ \E o \in Saves : Opened(o)
         \/ \E o \in Saves, new \in User : WrittenTo(o, new)
         \/ \E x \in Processes : Bound(x)
         \/ Closed
<1>1. ASSUME NEW v \in Visits, NEW token \in BOOLEAN, NEW public \in BOOLEAN, NEW hint \in Hints,
             Arrive(v, token, public, hint)
      PROVE  Began(v)
  BY <1>1, ArriveEffect
<1>2. ASSUME NEW v \in Visits, NEW hint \in Hints, Authorize(v, hint) PROVE Began(v)
  BY <1>2, AuthorizeEffect
<1>3. ASSUME NEW v \in Visits, SignUp(v) PROVE SignedUp(v) \/ Turned(v)
  BY <1>3, SignUpEffect
<1>4. ASSUME NEW v \in Visits, TurnAway(v) \/ PassInvite(v) PROVE Turned(v)
  BY <1>4, TurnEffect
<1>5. ASSUME NEW v \in Visits, Sync(v) PROVE \E new \in User : SyncedTo(v, new)
  BY <1>5, SyncEffect
<1>6. ASSUME NEW v \in Visits, Apply(v) PROVE \E new \in User : AppliedTo(v, new)
  BY <1>6, ApplyEffect
<1>7. ASSUME NEW v \in Visits, Final(v) PROVE LastBind(v)
  BY <1>7, FinalEffect
<1>8. ASSUME NEW v \in Visits, Normalise(v) PROVE \E new \in User : Normalised(v, new)
  BY <1>8, NormaliseEffect
<1>9. ASSUME NEW o \in Saves, NEW role \in Staff \cup {None}, SaveStaff(o, role) PROVE Opened(o)
  BY <1>9, SaveStaffEffect
<1>10. ASSUME NEW o \in Saves, WriteStaff(o) PROVE \E new \in User : WrittenTo(o, new)
  BY <1>10, WriteStaffEffect
<1>11. ASSUME NEW x \in Processes, Bind(x) PROVE Bound(x)
  BY <1>11, BindEffect DEF Bound
<1>12. ASSUME Deactivate \/ UNCHANGED vars PROVE Closed
  <2>1. Places
    BY <1>12, Placed DEF Deactivate, vars
  <2>2. UNCHANGED <<user, proc, joined, mixed, person>>
    BY <1>12 DEF Deactivate, vars
  <2>3. invite' = [invite EXCEPT !.active = FALSE] \/ invite' = invite
    BY <1>12 DEF Deactivate, vars
  <2>4. invite \in [used : 0 .. MaxUses, active : BOOLEAN]
    BY DEF TypeOK
  <2>5. invite'.used = invite.used /\ invite' \in [used : 0 .. MaxUses, active : BOOLEAN]
    BY <2>3, <2>4
  <2> QED
    BY <2>1, <2>2, <2>5 DEF Closed
<1> QED
  BY <1>1, <1>2, <1>3, <1>4, <1>5, <1>6, <1>7, <1>8, <1>9, <1>10, <1>11, <1>12 DEF Next

\* The row of a user after a save from a fresh copy, and after one of the owner's.
LEMMA SavedFresh ==
  ASSUME NEW p, NEW old \in User, NEW new \in User, Fresh(user[p], old), Saved1(p, old, new)
  PROVE  Fresh(user'[p], new)
  BY DEF Fresh, Saved1

LEMMA OwnerFresh ==
  ASSUME NEW p, NEW old \in User, NEW new \in User, NEW mine, Fresh(user[p], mine),
         Saved1(p, old, new), new.tenant = "shop", new.role \in Staff \cup {old.role},
         new.staff = old.staff
  PROVE  Fresh(user'[p], mine)
  BY DEF Fresh, Saved1

LEMMA OwnerMember ==
  ASSUME NEW p, NEW old \in User, NEW new \in User, Member(user[p]), Saved1(p, old, new),
         new.tenant = "shop", new.role \in Staff \cup {old.role}, new.staff = old.staff
  PROVE  Member(user'[p])
  BY DEF Member, Saved1

\* A save from a copy of a member that leaves one leaves her one.
LEMMA SavedMember ==
  ASSUME NEW p, NEW old \in User, NEW new \in User, Member(user[p]), Member(new), Saved1(p, old, new)
  PROVE  Member(user'[p])
  BY DEF Member, Saved1

LEMMA FreshMember ==
  ASSUME NEW p, NEW old \in User, NEW new \in User, Fresh(user[p], old), Saved1(p, old, new),
         Member(new)
  PROVE  Member(user'[p])
  BY DEF Fresh, Member, Saved1

\* A hint leaves a member of staff what she is.
LEMMA SyncedMember ==
  ASSUME NEW mine \in User, NEW hint \in RoleNames, Member(mine)
  PROVE  Member(Synced(mine, hint))
<1> DEFINE role == IF hint = "CONSUMER" /\ Privileged(mine) THEN mine.role ELSE hint
<1>1. Privileged(mine) /\ mine.tenant # None
  BY StaffAssumption DEF Member, Privileged, Shops
<1>2. role \in Staff /\ role # "CONSUMER"
  BY <1>1 DEF Member, Staff, RoleNames
<1>3. Synced(mine, hint) =
        [mine EXCEPT !.role = role, !.staff = role \in Staff,
                     !.tenant = IF role = "CONSUMER" THEN None ELSE IF @ = None THEN "public" ELSE @]
  BY DEF Synced
<1> HIDE DEF role
<1>4. Synced(mine, hint) = [mine EXCEPT !.role = role, !.staff = TRUE]
  BY <1>1, <1>2, <1>3 DEF User
<1> QED
  BY <1>2, <1>4 DEF Member, User

LEMMA NormalMember ==
  ASSUME NEW v, NEW new \in User, Normalised(v, new), Member(proc[v].mine), Member(user[person[v]])
  PROVE  Member(user'[person[v]])
<1>1. Privileged(proc[v].mine) /\ proc[v].mine.tenant # None
  BY StaffAssumption DEF Member, Privileged, Shops
<1>2. Member(new)
  BY <1>1 DEF Normalised, Member
<1> QED
  BY <1>2, SavedMember DEF Normalised

LEMMA MembersStay == MembersKept => MembershipStays
  BY DEF MembersKept, Member, MembershipStays

\* What the proofs below need of the types.
LEMMA Basics ==
  ASSUME TypeOK
  PROVE  /\ Visits \cap Saves = {} /\ Processes = Visits \cup Saves /\ joined \subseteq Visits
         /\ \A u \in User : u # None
         /\ NewUser \in User /\ NewUser # None
         /\ \A x \in Processes : person[x] \in Persons
         /\ \A x \in Processes : proc[x].mine # None => proc[x].mine \in User
         /\ \A q \in Persons : user[q] # None => user[q] \in User
<1>1. NewUser \in User
  BY DEF NewUser, User, RoleNames
<1>2. \A u \in User : u # None
  BY StaffAssumption
<1>3. \A x \in Processes : person[x] \in Persons /\ (proc[x].mine # None => proc[x].mine \in User)
  BY ProcFields
<1> QED
  BY <1>1, <1>2, <1>3, StaffAssumption DEF TypeOK, Processes

\* No user is deleted.
LEMMA UserKept ==
  ASSUME IInv, [Next]_vars
  PROVE  person' = person /\ \A q \in Persons : user[q] # None => user'[q] # None
<1>a. TypeOK /\ Holds /\ SavesPromote
  BY DEF IInv
<1>b. \A x, new : Saved1(person[x], proc[x].mine, new) => \A q \in Persons : user[q] # None => user'[q] # None
  BY <1>a, Basics DEF Saved1
<1>1. ASSUME NEW v \in Visits, Began(v) \/ SignedUp(v) \/ Turned(v) \/ LastBind(v)
      PROVE  person' = person /\ \A q \in Persons : user[q] # None => user'[q] # None
  BY <1>1, <1>a, Basics DEF Began, SignedUp, Turned, LastBind, Passed, Quiet
<1>2. ASSUME NEW v \in Visits, NEW new \in User, SyncedTo(v, new) \/ AppliedTo(v, new) \/ Normalised(v, new)
      PROVE  person' = person /\ \A q \in Persons : user[q] # None => user'[q] # None
  BY <1>2, <1>b DEF SyncedTo, AppliedTo, Normalised, Wrote
<1>3. ASSUME NEW o \in Saves, NEW new \in User, WrittenTo(o, new)
      PROVE  person' = person /\ \A q \in Persons : user[q] # None => user'[q] # None
  BY <1>3, <1>b DEF WrittenTo, Wrote
<1>4. ASSUME NEW x \in Processes, Bound(x) \/ Opened(x) \/ Closed
      PROVE  person' = person /\ \A q \in Persons : user[q] # None => user'[q] # None
  BY <1>4 DEF Bound, Opened, Passed, Quiet, Closed
<1> QED
  BY <1>1, <1>2, <1>3, <1>4, <1>a, StepKinds DEF Processes, Closed

---------------------------------------------------------------------------
(* Every conjunct of the inductive invariant is kept by every kind of step *)

\* Every variable keeps its type.
LEMMA TypeOKStep == ASSUME IInv, [Next]_vars PROVE TypeOK'
<1>a. TypeOK
  BY DEF IInv
<1>b. /\ Visits \cap Saves = {} /\ Processes = Visits \cup Saves /\ joined \subseteq Visits
      /\ \A u \in User : u # None
      /\ NewUser \in User /\ NewUser # None
      /\ \A x \in Processes : person[x] \in Persons
      /\ \A x \in Processes : proc[x].mine # None => proc[x].mine \in User
      /\ \A q \in Persons : user[q] # None => user[q] \in User
      /\ person' = person /\ \A q \in Persons : user[q] # None => user'[q] # None
  BY <1>a, Basics, UserKept
<1>1. ASSUME NEW v \in Visits, Began(v) PROVE TypeOK'
  BY <1>1, <1>a, <1>b DEF Began, Ends, OthersGo, TypeOK, Places, Known, Procs
<1>2. ASSUME NEW v \in Visits, SignedUp(v) PROVE TypeOK'
  BY <1>2, <1>a, <1>b DEF SignedUp, OthersGo, TypeOK, Places, Known, Procs
<1>3. ASSUME NEW v \in Visits, Turned(v) PROVE TypeOK'
  BY <1>3, <1>a, <1>b DEF Turned, Passed, Ends, OthersGo, Quiet, TypeOK, Places,
     Known, Procs
<1>4. ASSUME NEW v \in Visits, LastBind(v) PROVE TypeOK'
  BY <1>4, <1>a, <1>b DEF LastBind, Passed, Ends, OthersGo, Quiet, TypeOK, Places,
     Known, Procs
<1>5. ASSUME NEW v \in Visits, NEW new \in User, SyncedTo(v, new) PROVE TypeOK'
  BY <1>5, <1>a, <1>b DEF SyncedTo, Wrote, Saved1, Ends, OthersGo, TypeOK, Places,
     Known, Procs
<1>6. ASSUME NEW v \in Visits, NEW new \in User, AppliedTo(v, new) PROVE TypeOK'
  <2>1. /\ invite' \in [used : 0 .. MaxUses, active : BOOLEAN]
        /\ joined' \subseteq Visits /\ mixed' \subseteq Persons
        /\ person' \in [Processes -> Persons]
    BY <1>6, <1>a, <1>b, StaffAssumption DEF AppliedTo, Wrote, Available, TypeOK
  <2>2. Known' /\ Procs' /\ Places
    BY <1>6 DEF AppliedTo, Wrote, Saved1, Ends, OthersGo
  <2> QED
    BY <2>1, <2>2 DEF TypeOK, Known, Procs, Places
<1>7. ASSUME NEW v \in Visits, NEW new \in User, Normalised(v, new) PROVE TypeOK'
  BY <1>7, <1>a, <1>b DEF Normalised, Saved1, Ends, OthersGo, TypeOK, Places, Known,
     Procs
<1>8. ASSUME NEW o \in Saves, Opened(o) PROVE TypeOK'
  BY <1>8, <1>a, <1>b DEF Opened, OthersGo, Quiet, TypeOK, Places, Known, Procs
<1>9. ASSUME NEW o \in Saves, NEW new \in User, WrittenTo(o, new) PROVE TypeOK'
  BY <1>9, <1>a, <1>b DEF WrittenTo, Wrote, Saved1, Ends, OthersGo, TypeOK, Places,
     Known, Procs
<1>10. ASSUME NEW x \in Processes, Bound(x) PROVE TypeOK'
  BY <1>10, <1>a, <1>b DEF Bound, Passed, Ends, OthersGo, Quiet, TypeOK, Places,
     Known, Procs
<1>11. ASSUME Closed PROVE TypeOK'
  BY <1>11, <1>a, <1>b DEF Closed, TypeOK, Places, Known, Procs
<1> QED
  BY <1>1, <1>2, <1>3, <1>4, <1>5, <1>6, <1>7, <1>8, <1>9, <1>10, <1>11, StepKinds DEF
     IInv

\* A request keeps its copy until it ends, and no user is deleted.
LEMMA HoldsStep == ASSUME IInv, [Next]_vars PROVE Holds'
<1>a. TypeOK /\ Holds
  BY DEF IInv
<1>b. /\ Visits \cap Saves = {} /\ Processes = Visits \cup Saves /\ joined \subseteq Visits
      /\ \A u \in User : u # None
      /\ NewUser \in User /\ NewUser # None
      /\ \A x \in Processes : person[x] \in Persons
      /\ \A x \in Processes : proc[x].mine # None => proc[x].mine \in User
      /\ \A q \in Persons : user[q] # None => user[q] \in User
      /\ person' = person /\ \A q \in Persons : user[q] # None => user'[q] # None
  BY <1>a, Basics, UserKept
<1>1. ASSUME NEW v \in Visits, Began(v) PROVE Holds'
  BY <1>1, <1>a, <1>b DEF Began, Ends, OthersGo, Holds, Running, At, Binding, Known
<1>2. ASSUME NEW v \in Visits, SignedUp(v) PROVE Holds'
  BY <1>2, <1>a, <1>b DEF SignedUp, OthersGo, Holds, Running, At, Binding, Known
<1>3. ASSUME NEW v \in Visits, Turned(v) PROVE Holds'
  BY <1>3, <1>a, <1>b DEF Turned, Passed, Ends, OthersGo, Quiet, Holds, Running, At,
     Binding, Known
<1>4. ASSUME NEW v \in Visits, LastBind(v) PROVE Holds'
  BY <1>4, <1>a, <1>b DEF LastBind, Passed, Ends, OthersGo, Quiet, Holds, Running, At,
     Binding, Known
<1>5. ASSUME NEW v \in Visits, NEW new \in User, SyncedTo(v, new) PROVE Holds'
  BY <1>5, <1>a, <1>b DEF SyncedTo, Wrote, Saved1, Ends, OthersGo, Holds, Running, At,
     Binding, Known
<1>6. ASSUME NEW v \in Visits, NEW new \in User, AppliedTo(v, new) PROVE Holds'
  BY <1>6, <1>a, <1>b DEF AppliedTo, Wrote, Saved1, Ends, OthersGo, Holds, Running,
     At, Binding, Known
<1>7. ASSUME NEW v \in Visits, NEW new \in User, Normalised(v, new) PROVE Holds'
  BY <1>7, <1>a, <1>b DEF Normalised, Saved1, Ends, OthersGo, Holds, Running, At,
     Binding, Known
<1>8. ASSUME NEW o \in Saves, Opened(o) PROVE Holds'
  BY <1>8, <1>a, <1>b DEF Opened, OthersGo, Quiet, Holds, Running, At, Binding, Known
<1>9. ASSUME NEW o \in Saves, NEW new \in User, WrittenTo(o, new) PROVE Holds'
  BY <1>9, <1>a, <1>b DEF WrittenTo, Wrote, Saved1, Ends, OthersGo, Holds, Running,
     At, Binding, Known
<1>10. ASSUME NEW x \in Processes, Bound(x) PROVE Holds'
  BY <1>10, <1>a, <1>b DEF Bound, Passed, Ends, OthersGo, Quiet, Holds, Running, At,
     Binding, Known
<1>11. ASSUME Closed PROVE Holds'
  BY <1>11, <1>a, <1>b DEF Closed, Holds, Running, At, Binding, Known
<1> QED
  BY <1>1, <1>2, <1>3, <1>4, <1>5, <1>6, <1>7, <1>8, <1>9, <1>10, <1>11, StepKinds DEF
     IInv

\* The role is chosen when the page reads the user.
LEMMA SavesPromoteStep == ASSUME IInv, [Next]_vars PROVE SavesPromote'
<1>a. TypeOK /\ SavesPromote
  BY DEF IInv
<1>b. /\ Visits \cap Saves = {} /\ Processes = Visits \cup Saves /\ joined \subseteq Visits
      /\ \A u \in User : u # None
      /\ NewUser \in User /\ NewUser # None
      /\ \A x \in Processes : person[x] \in Persons
      /\ \A x \in Processes : proc[x].mine # None => proc[x].mine \in User
      /\ \A q \in Persons : user[q] # None => user[q] \in User
      /\ person' = person /\ \A q \in Persons : user[q] # None => user'[q] # None
  BY <1>a, Basics, UserKept
<1>1. ASSUME NEW v \in Visits, Began(v) PROVE SavesPromote'
  BY <1>1, <1>a, <1>b DEF Began, Ends, OthersGo, SavesPromote, At
<1>2. ASSUME NEW v \in Visits, SignedUp(v) PROVE SavesPromote'
  BY <1>2, <1>a, <1>b DEF SignedUp, OthersGo, SavesPromote, At
<1>3. ASSUME NEW v \in Visits, Turned(v) PROVE SavesPromote'
  BY <1>3, <1>a, <1>b DEF Turned, Passed, Ends, OthersGo, Quiet, SavesPromote, At
<1>4. ASSUME NEW v \in Visits, LastBind(v) PROVE SavesPromote'
  BY <1>4, <1>a, <1>b DEF LastBind, Passed, Ends, OthersGo, Quiet, SavesPromote, At
<1>5. ASSUME NEW v \in Visits, NEW new \in User, SyncedTo(v, new) PROVE SavesPromote'
  BY <1>5, <1>a, <1>b DEF SyncedTo, Wrote, Saved1, Ends, OthersGo, SavesPromote, At
<1>6. ASSUME NEW v \in Visits, NEW new \in User, AppliedTo(v, new) PROVE SavesPromote'
  BY <1>6, <1>a, <1>b DEF AppliedTo, Wrote, Saved1, Ends, OthersGo, SavesPromote, At
<1>7. ASSUME NEW v \in Visits, NEW new \in User, Normalised(v, new) PROVE SavesPromote'
  BY <1>7, <1>a, <1>b DEF Normalised, Saved1, Ends, OthersGo, SavesPromote, At
<1>8. ASSUME NEW o \in Saves, Opened(o) PROVE SavesPromote'
  BY <1>8, <1>a, <1>b DEF Opened, OthersGo, Quiet, SavesPromote, At
<1>9. ASSUME NEW o \in Saves, NEW new \in User, WrittenTo(o, new) PROVE SavesPromote'
  BY <1>9, <1>a, <1>b DEF WrittenTo, Wrote, Saved1, Ends, OthersGo, SavesPromote, At
<1>10. ASSUME NEW x \in Processes, Bound(x) PROVE SavesPromote'
  BY <1>10, <1>a, <1>b DEF Bound, Passed, Ends, OthersGo, Quiet, SavesPromote, At
<1>11. ASSUME Closed PROVE SavesPromote'
  BY <1>11, <1>a, <1>b DEF Closed, SavesPromote, At
<1> QED
  BY <1>1, <1>2, <1>3, <1>4, <1>5, <1>6, <1>7, <1>8, <1>9, <1>10, <1>11, StepKinds DEF
     IInv

\* A visit that has used the invite is past that.
LEMMA UsesCountedStep == ASSUME IInv, [Next]_vars PROVE UsesCounted'
<1>a. TypeOK /\ UsesCounted /\ JoinedBinds
  BY DEF IInv
<1>b. /\ Visits \cap Saves = {} /\ Processes = Visits \cup Saves /\ joined \subseteq Visits
      /\ \A u \in User : u # None
      /\ NewUser \in User /\ NewUser # None
      /\ \A x \in Processes : person[x] \in Persons
      /\ \A x \in Processes : proc[x].mine # None => proc[x].mine \in User
      /\ \A q \in Persons : user[q] # None => user[q] \in User
      /\ person' = person /\ \A q \in Persons : user[q] # None => user'[q] # None
  BY <1>a, Basics, UserKept
<1>1. ASSUME NEW v \in Visits, Began(v) PROVE UsesCounted'
  BY <1>1, <1>a, <1>b DEF Began, Ends, OthersGo, UsesCounted
<1>2. ASSUME NEW v \in Visits, SignedUp(v) PROVE UsesCounted'
  BY <1>2, <1>a, <1>b DEF SignedUp, OthersGo, UsesCounted
<1>3. ASSUME NEW v \in Visits, Turned(v) PROVE UsesCounted'
  BY <1>3, <1>a, <1>b DEF Turned, Passed, Ends, OthersGo, Quiet, UsesCounted
<1>4. ASSUME NEW v \in Visits, LastBind(v) PROVE UsesCounted'
  BY <1>4, <1>a, <1>b DEF LastBind, Passed, Ends, OthersGo, Quiet, UsesCounted
<1>5. ASSUME NEW v \in Visits, NEW new \in User, SyncedTo(v, new) PROVE UsesCounted'
  BY <1>5, <1>a, <1>b DEF SyncedTo, Wrote, Saved1, Ends, OthersGo, UsesCounted
<1>6. ASSUME NEW v \in Visits, NEW new \in User, AppliedTo(v, new) PROVE UsesCounted'
  <2>1. v \notin joined
    BY <1>6, <1>a, <1>b DEF AppliedTo, At, JoinedBinds, Binding
  <2>2. joined' = joined \cup {v} /\ invite'.used = invite.used + 1
    BY <1>6 DEF AppliedTo
  <2> QED
    BY <1>a, <2>1, <2>2, FS_AddElement DEF UsesCounted
<1>7. ASSUME NEW v \in Visits, NEW new \in User, Normalised(v, new) PROVE UsesCounted'
  BY <1>7, <1>a, <1>b DEF Normalised, Saved1, Ends, OthersGo, UsesCounted
<1>8. ASSUME NEW o \in Saves, Opened(o) PROVE UsesCounted'
  BY <1>8, <1>a, <1>b DEF Opened, OthersGo, Quiet, UsesCounted
<1>9. ASSUME NEW o \in Saves, NEW new \in User, WrittenTo(o, new) PROVE UsesCounted'
  BY <1>9, <1>a, <1>b DEF WrittenTo, Wrote, Saved1, Ends, OthersGo, UsesCounted
<1>10. ASSUME NEW x \in Processes, Bound(x) PROVE UsesCounted'
  BY <1>10, <1>a, <1>b DEF Bound, Passed, Ends, OthersGo, Quiet, UsesCounted
<1>11. ASSUME Closed PROVE UsesCounted'
  BY <1>11, <1>a, <1>b DEF Closed, UsesCounted
<1> QED
  BY <1>1, <1>2, <1>3, <1>4, <1>5, <1>6, <1>7, <1>8, <1>9, <1>10, <1>11, StepKinds DEF
     IInv

\* Binding ends where the use of the invite said.
LEMMA JoinedBindsStep == ASSUME IInv, [Next]_vars PROVE JoinedBinds'
<1>a. TypeOK /\ JoinedBinds
  BY DEF IInv
<1>b. /\ Visits \cap Saves = {} /\ Processes = Visits \cup Saves /\ joined \subseteq Visits
      /\ \A u \in User : u # None
      /\ NewUser \in User /\ NewUser # None
      /\ \A x \in Processes : person[x] \in Persons
      /\ \A x \in Processes : proc[x].mine # None => proc[x].mine \in User
      /\ \A q \in Persons : user[q] # None => user[q] \in User
      /\ person' = person /\ \A q \in Persons : user[q] # None => user'[q] # None
  BY <1>a, Basics, UserKept
<1>1. ASSUME NEW v \in Visits, Began(v) PROVE JoinedBinds'
  BY <1>1, <1>a, <1>b DEF Began, Ends, OthersGo, JoinedBinds, At, Binding
<1>2. ASSUME NEW v \in Visits, SignedUp(v) PROVE JoinedBinds'
  BY <1>2, <1>a, <1>b DEF SignedUp, OthersGo, JoinedBinds, At, Binding
<1>3. ASSUME NEW v \in Visits, Turned(v) PROVE JoinedBinds'
  BY <1>3, <1>a, <1>b DEF Turned, Passed, Ends, OthersGo, Quiet, JoinedBinds, At,
     Binding
<1>4. ASSUME NEW v \in Visits, LastBind(v) PROVE JoinedBinds'
  BY <1>4, <1>a, <1>b DEF LastBind, Passed, Ends, OthersGo, Quiet, JoinedBinds, At,
     Binding
<1>5. ASSUME NEW v \in Visits, NEW new \in User, SyncedTo(v, new) PROVE JoinedBinds'
  BY <1>5, <1>a, <1>b DEF SyncedTo, Wrote, Saved1, Ends, OthersGo, JoinedBinds, At,
     Binding
<1>6. ASSUME NEW v \in Visits, NEW new \in User, AppliedTo(v, new) PROVE JoinedBinds'
  BY <1>6, <1>a, <1>b DEF AppliedTo, Wrote, Saved1, Ends, OthersGo, JoinedBinds, At,
     Binding
<1>7. ASSUME NEW v \in Visits, NEW new \in User, Normalised(v, new) PROVE JoinedBinds'
  BY <1>7, <1>a, <1>b DEF Normalised, Saved1, Ends, OthersGo, JoinedBinds, At, Binding
<1>8. ASSUME NEW o \in Saves, Opened(o) PROVE JoinedBinds'
  BY <1>8, <1>a, <1>b DEF Opened, OthersGo, Quiet, JoinedBinds, At, Binding
<1>9. ASSUME NEW o \in Saves, NEW new \in User, WrittenTo(o, new) PROVE JoinedBinds'
  BY <1>9, <1>a, <1>b DEF WrittenTo, Wrote, Saved1, Ends, OthersGo, JoinedBinds, At,
     Binding
<1>10. ASSUME NEW x \in Processes, Bound(x) PROVE JoinedBinds'
  BY <1>10, <1>a, <1>b DEF Bound, Passed, Ends, OthersGo, Quiet, JoinedBinds, At,
     Binding
<1>11. ASSUME Closed PROVE JoinedBinds'
  BY <1>11, <1>a, <1>b DEF Closed, JoinedBinds, At, Binding
<1> QED
  BY <1>1, <1>2, <1>3, <1>4, <1>5, <1>6, <1>7, <1>8, <1>9, <1>10, <1>11, StepKinds DEF
     IInv

\* A visit that begins looks for others that run.
LEMMA LoneVisitStep == ASSUME IInv, [Next]_vars PROVE LoneVisit'
<1>a. TypeOK /\ LoneVisit
  BY DEF IInv
<1>b. /\ Visits \cap Saves = {} /\ Processes = Visits \cup Saves /\ joined \subseteq Visits
      /\ \A u \in User : u # None
      /\ NewUser \in User /\ NewUser # None
      /\ \A x \in Processes : person[x] \in Persons
      /\ \A x \in Processes : proc[x].mine # None => proc[x].mine \in User
      /\ \A q \in Persons : user[q] # None => user[q] \in User
      /\ person' = person /\ \A q \in Persons : user[q] # None => user'[q] # None
  BY <1>a, Basics, UserKept
<1>1. ASSUME NEW v \in Visits, Began(v) PROVE LoneVisit'
  BY <1>1, <1>a, <1>b DEF Began, Ends, OthersGo, LoneVisit, Running, At
<1>2. ASSUME NEW v \in Visits, SignedUp(v) PROVE LoneVisit'
  BY <1>2, <1>a, <1>b DEF SignedUp, OthersGo, LoneVisit, Running, At
<1>3. ASSUME NEW v \in Visits, Turned(v) PROVE LoneVisit'
  BY <1>3, <1>a, <1>b DEF Turned, Passed, Ends, OthersGo, Quiet, LoneVisit, Running,
     At
<1>4. ASSUME NEW v \in Visits, LastBind(v) PROVE LoneVisit'
  BY <1>4, <1>a, <1>b DEF LastBind, Passed, Ends, OthersGo, Quiet, LoneVisit, Running,
     At
<1>5. ASSUME NEW v \in Visits, NEW new \in User, SyncedTo(v, new) PROVE LoneVisit'
  BY <1>5, <1>a, <1>b DEF SyncedTo, Wrote, Saved1, Ends, OthersGo, LoneVisit, Running,
     At
<1>6. ASSUME NEW v \in Visits, NEW new \in User, AppliedTo(v, new) PROVE LoneVisit'
  BY <1>6, <1>a, <1>b DEF AppliedTo, Wrote, Saved1, Ends, OthersGo, LoneVisit,
     Running, At
<1>7. ASSUME NEW v \in Visits, NEW new \in User, Normalised(v, new) PROVE LoneVisit'
  BY <1>7, <1>a, <1>b DEF Normalised, Saved1, Ends, OthersGo, LoneVisit, Running, At
<1>8. ASSUME NEW o \in Saves, Opened(o) PROVE LoneVisit'
  BY <1>8, <1>a, <1>b DEF Opened, OthersGo, Quiet, LoneVisit, Running, At
<1>9. ASSUME NEW o \in Saves, NEW new \in User, WrittenTo(o, new) PROVE LoneVisit'
  BY <1>9, <1>a, <1>b DEF WrittenTo, Wrote, Saved1, Ends, OthersGo, LoneVisit,
     Running, At
<1>10. ASSUME NEW x \in Processes, Bound(x) PROVE LoneVisit'
  <2>1. Running(x)
    BY <1>10 DEF Bound, Binding, Running, At
  <2> QED
    BY <1>10, <1>a, <1>b, <2>1 DEF Bound, Passed, Ends, OthersGo, Quiet, LoneVisit, Running, At
<1>11. ASSUME Closed PROVE LoneVisit'
  BY <1>11, <1>a, <1>b DEF Closed, LoneVisit, Running, At
<1> QED
  BY <1>1, <1>2, <1>3, <1>4, <1>5, <1>6, <1>7, <1>8, <1>9, <1>10, <1>11, StepKinds DEF
     IInv

\* Nobody but a visit itself and the owner writes, and the owner promotes.
LEMMA CopyFreshStep == ASSUME IInv, [Next]_vars PROVE CopyFresh'
<1>a. TypeOK /\ Holds /\ SavesPromote /\ LoneVisit /\ CopyFresh
  BY DEF IInv
<1>b. /\ Visits \cap Saves = {} /\ Processes = Visits \cup Saves /\ joined \subseteq Visits
      /\ \A u \in User : u # None
      /\ NewUser \in User /\ NewUser # None
      /\ \A x \in Processes : person[x] \in Persons
      /\ \A x \in Processes : proc[x].mine # None => proc[x].mine \in User
      /\ \A q \in Persons : user[q] # None => user[q] \in User
      /\ person' = person /\ \A q \in Persons : user[q] # None => user'[q] # None
  BY <1>a, Basics, UserKept
<1>1. ASSUME NEW v \in Visits, Began(v) PROVE CopyFresh'
  <2>1. \A q \in Persons : \A m : user[q] # None /\ Fresh(user[q], m) => Fresh(user'[q], m)
    BY <1>1 DEF Began, Fresh
  <2>2. \A u : Fresh(u, u)
    BY DEF Fresh
  <2>3. Ends(v) \/ (OthersGo(v) /\ proc'[v].mine = user'[person[v]])
    BY <1>1 DEF Began
  <2>4. mixed \subseteq mixed'
    BY <1>1 DEF Began
  <2> QED
    BY <1>a, <1>b, <2>1, <2>2, <2>3, <2>4 DEF Ends, OthersGo, CopyFresh, Holds, Running, At
<1>2. ASSUME NEW v \in Visits, SignedUp(v) PROVE CopyFresh'
  <2>o. \A y \in Visits \ {v} : person[y] = person[v] /\ Running(y) => person[y] \in mixed
    BY <1>2, <1>a DEF LoneVisit, Running, At, SignedUp
  <2>2. \A u : Fresh(u, u)
    BY DEF Fresh
  <2> QED
    BY <1>2, <1>a, <1>b, <2>o, <2>2 DEF SignedUp, OthersGo, CopyFresh, Running, At
<1>3. ASSUME NEW v \in Visits, Turned(v) PROVE CopyFresh'
  BY <1>3, <1>a, <1>b DEF Turned, Passed, Ends, OthersGo, Quiet, CopyFresh, Running,
     At
<1>4. ASSUME NEW v \in Visits, LastBind(v) PROVE CopyFresh'
  BY <1>4, <1>a, <1>b DEF LastBind, Passed, Ends, OthersGo, Quiet, CopyFresh, Running,
     At
<1>5. ASSUME NEW v \in Visits, NEW new \in User, SyncedTo(v, new) PROVE CopyFresh'
  <2>o. \A y \in Visits \ {v} : person[y] = person[v] /\ Running(y) => person[y] \in mixed
    BY <1>5, <1>a DEF LoneVisit, Running, At, SyncedTo
  <2>1. Running(v) /\ proc[v].mine \in User /\ proc[v].mine # None
    BY <1>5, <1>b DEF SyncedTo, Wrote, Running, At
  <2>2. Fresh(user[person[v]], proc[v].mine) => Fresh(user'[person[v]], new)
    BY <1>5, <2>1, SavedFresh DEF SyncedTo, Wrote
  <2>3. /\ mixed' = mixed /\ \A q \in Persons \ {person[v]} : user'[q] = user[q]
        /\ Ends(v) \/ (OthersGo(v) /\ proc'[v].mine = new)
    BY <1>5 DEF SyncedTo, Wrote, Saved1
  <2> QED
    BY <1>a, <1>b, <2>o, <2>1, <2>2, <2>3 DEF Ends, OthersGo, CopyFresh, Running, At
<1>6. ASSUME NEW v \in Visits, NEW new \in User, AppliedTo(v, new) PROVE CopyFresh'
  <2>o. \A y \in Visits \ {v} : person[y] = person[v] /\ Running(y) => person[y] \in mixed
    BY <1>6, <1>a DEF LoneVisit, Running, At, AppliedTo
  <2>1. Running(v) /\ proc[v].mine \in User /\ proc[v].mine # None
    BY <1>6, <1>b DEF AppliedTo, Wrote, Running, At
  <2>2. Fresh(user[person[v]], proc[v].mine) => Fresh(user'[person[v]], new)
    BY <1>6, <2>1, SavedFresh DEF AppliedTo, Wrote
  <2>3. /\ mixed' = mixed /\ \A q \in Persons \ {person[v]} : user'[q] = user[q]
        /\ Ends(v) \/ (OthersGo(v) /\ proc'[v].mine = new)
    BY <1>6 DEF AppliedTo, Wrote, Saved1
  <2> QED
    BY <1>a, <1>b, <2>o, <2>1, <2>2, <2>3 DEF Ends, OthersGo, CopyFresh, Running, At
<1>7. ASSUME NEW v \in Visits, NEW new \in User, Normalised(v, new) PROVE CopyFresh'
  <2>o. \A y \in Visits \ {v} : person[y] = person[v] /\ Running(y) => person[y] \in mixed
    BY <1>7, <1>a DEF LoneVisit, Running, At, Normalised
  <2>3. /\ mixed' = mixed /\ Ends(v)
        /\ \A q \in Persons \ {person[v]} : user'[q] = user[q]
    BY <1>7 DEF Normalised, Saved1
  <2> QED
    BY <1>a, <1>b, <2>o, <2>3 DEF Ends, OthersGo, CopyFresh, Running, At
<1>8. ASSUME NEW o \in Saves, Opened(o) PROVE CopyFresh'
  BY <1>8, <1>a, <1>b DEF Opened, OthersGo, Quiet, CopyFresh, Running, At
<1>9. ASSUME NEW o \in Saves, NEW new \in User, WrittenTo(o, new) PROVE CopyFresh'
  <2>1. \A m : Fresh(user[person[o]], m) => Fresh(user'[person[o]], m)
    <3>1. proc[o].hint \in Staff \cup {proc[o].mine.role} /\ proc[o].mine \in User
      BY <1>9, <1>a, <1>b DEF WrittenTo, Wrote, SavesPromote
    <3> QED
      BY <1>9, <3>1, OwnerFresh DEF WrittenTo, Wrote
  <2>2. /\ UNCHANGED mixed /\ \A y \in Visits : proc'[y] = proc[y]
        /\ \A q \in Persons \ {person[o]} : user'[q] = user[q]
    BY <1>9, <1>b DEF WrittenTo, Wrote, Saved1, Ends, OthersGo
  <2> QED
    BY <1>a, <1>b, <2>1, <2>2 DEF CopyFresh, Running, At
<1>10. ASSUME NEW x \in Processes, Bound(x) PROVE CopyFresh'
  <2>1. Running(x)
    BY <1>10 DEF Bound, Binding, Running, At
  <2> QED
    BY <1>10, <1>a, <1>b, <2>1 DEF Bound, Passed, Ends, OthersGo, Quiet, CopyFresh, Running, At
<1>11. ASSUME Closed PROVE CopyFresh'
  BY <1>11, <1>a, <1>b DEF Closed, CopyFresh, Running, At
<1> QED
  BY <1>1, <1>2, <1>3, <1>4, <1>5, <1>6, <1>7, <1>8, <1>9, <1>10, <1>11, StepKinds DEF
     IInv

\* A visit reads or writes what makes its person staff.
LEMMA CopyKeptStep == ASSUME IInv, [Next]_vars PROVE CopyKept'
<1>a. TypeOK /\ Holds /\ JoinedBinds /\ LoneVisit /\ CopyKept /\ KnownMember /\ MembersKept
  BY DEF IInv
<1>b. /\ Visits \cap Saves = {} /\ Processes = Visits \cup Saves /\ joined \subseteq Visits
      /\ \A u \in User : u # None
      /\ NewUser \in User /\ NewUser # None
      /\ \A x \in Processes : person[x] \in Persons
      /\ \A x \in Processes : proc[x].mine # None => proc[x].mine \in User
      /\ \A q \in Persons : user[q] # None => user[q] \in User
      /\ person' = person /\ \A q \in Persons : user[q] # None => user'[q] # None
  BY <1>a, Basics, UserKept
<1>1. ASSUME NEW v \in Visits, Began(v) PROVE CopyKept'
  <2>1. Member(user[person[v]]) => Member(user'[person[v]])
    BY <1>1, <1>a, <1>b DEF Began, Member, KnownMember
  <2>2. /\ mixed \subseteq mixed' /\ joined' = joined /\ v \in Processes
        /\ Ends(v) \/ (OthersGo(v) /\ proc'[v].mine = user'[person[v]])
    BY <1>1, <1>b DEF Began
  <2>3. \A w \in joined : person[w] = person[v] /\ person[v] \notin mixed =>
          user'[person[v]] # None /\ Member(user'[person[v]])
    BY <1>a, <1>b, <2>1 DEF KnownMember, MembersKept
  <2> QED
    BY <1>a, <1>b, <2>2, <2>3 DEF Ends, OthersGo, CopyKept, Running, At
<1>2. ASSUME NEW v \in Visits, SignedUp(v) PROVE CopyKept'
  <2>1. \A w \in joined : person[w] # person[v]
    BY <1>2, <1>a DEF SignedUp, KnownMember
  <2> QED
    BY <1>2, <1>a, <1>b, <2>1 DEF SignedUp, OthersGo, CopyKept, Running, At
<1>3. ASSUME NEW v \in Visits, Turned(v) PROVE CopyKept'
  BY <1>3, <1>a, <1>b DEF Turned, Passed, Ends, OthersGo, Quiet, CopyKept, Running, At
<1>4. ASSUME NEW v \in Visits, LastBind(v) PROVE CopyKept'
  BY <1>4, <1>a, <1>b DEF LastBind, Passed, Ends, OthersGo, Quiet, CopyKept, Running,
     At
<1>5. ASSUME NEW v \in Visits, NEW new \in User, SyncedTo(v, new) PROVE CopyKept'
  <2>1. proc[v].mine \in User /\ proc[v].hint \in RoleNames /\ Running(v)
    BY <1>5, <1>a, <1>b, ProcFields DEF SyncedTo, Wrote, Holds, Running, At
  <2>2. Member(proc[v].mine) => Member(new)
    BY <1>5, <2>1, SyncedMember DEF SyncedTo
  <2>3. /\ new # None /\ UNCHANGED <<joined, mixed>>
        /\ Ends(v) \/ (OthersGo(v) /\ proc'[v].mine = new)
    BY <1>5, <1>b DEF SyncedTo, Wrote
  <2> QED
    BY <1>a, <1>b, <2>1, <2>2, <2>3 DEF Ends, OthersGo, CopyKept, Running, At
<1>6. ASSUME NEW v \in Visits, NEW new \in User, AppliedTo(v, new) PROVE CopyKept'
  <2>o. \A y \in Visits \ {v} : person[y] = person[v] /\ Running(y) => person[y] \in mixed
    BY <1>6, <1>a DEF LoneVisit, Running, At, AppliedTo
  <2>1. Member(new) /\ new # None
    BY <1>6, <1>b DEF AppliedTo, Member, Staff
  <2>2. /\ joined' = joined \cup {v} /\ mixed' = mixed /\ v \in Processes
        /\ Ends(v) \/ (OthersGo(v) /\ proc'[v].mine = new)
    BY <1>6, <1>b DEF AppliedTo, Wrote
  <2>3. \A y \in Visits \ {v} : proc'[y] = proc[y] /\ (Running(y)' <=> Running(y))
    BY <1>b, <2>2 DEF Ends, OthersGo, Running, At
  <2>4. Running(v)' => proc'[v].mine = new
    BY <2>2 DEF Ends, Running, At
  <2> QED
    BY <1>a, <1>b, <2>o, <2>1, <2>2, <2>3, <2>4 DEF CopyKept
<1>7. ASSUME NEW v \in Visits, NEW new \in User, Normalised(v, new) PROVE CopyKept'
  BY <1>7, <1>a, <1>b DEF Normalised, Saved1, Ends, OthersGo, CopyKept, Running, At
<1>8. ASSUME NEW o \in Saves, Opened(o) PROVE CopyKept'
  BY <1>8, <1>a, <1>b DEF Opened, OthersGo, Quiet, CopyKept, Running, At
<1>9. ASSUME NEW o \in Saves, NEW new \in User, WrittenTo(o, new) PROVE CopyKept'
  BY <1>9, <1>a, <1>b DEF WrittenTo, Wrote, Saved1, Ends, OthersGo, CopyKept, Running,
     At
<1>10. ASSUME NEW x \in Processes, Bound(x) PROVE CopyKept'
  <2>1. Running(x)
    BY <1>10 DEF Bound, Binding, Running, At
  <2> QED
    BY <1>10, <1>a, <1>b, <2>1 DEF Bound, Passed, Ends, OthersGo, Quiet, CopyKept, Running, At
<1>11. ASSUME Closed PROVE CopyKept'
  BY <1>11, <1>a, <1>b DEF Closed, CopyKept, Running, At
<1> QED
  BY <1>1, <1>2, <1>3, <1>4, <1>5, <1>6, <1>7, <1>8, <1>9, <1>10, <1>11, StepKinds DEF
     IInv

\* Who joined has a user.
LEMMA KnownMemberStep == ASSUME IInv, [Next]_vars PROVE KnownMember'
<1>a. TypeOK /\ Holds /\ KnownMember
  BY DEF IInv
<1>b. /\ Visits \cap Saves = {} /\ Processes = Visits \cup Saves /\ joined \subseteq Visits
      /\ \A u \in User : u # None
      /\ NewUser \in User /\ NewUser # None
      /\ \A x \in Processes : person[x] \in Persons
      /\ \A x \in Processes : proc[x].mine # None => proc[x].mine \in User
      /\ \A q \in Persons : user[q] # None => user[q] \in User
      /\ person' = person /\ \A q \in Persons : user[q] # None => user'[q] # None
  BY <1>a, Basics, UserKept
<1>1. ASSUME NEW v \in Visits, Began(v) PROVE KnownMember'
  BY <1>1, <1>a, <1>b DEF Began, Ends, OthersGo, KnownMember
<1>2. ASSUME NEW v \in Visits, SignedUp(v) PROVE KnownMember'
  BY <1>2, <1>a, <1>b DEF SignedUp, OthersGo, KnownMember
<1>3. ASSUME NEW v \in Visits, Turned(v) PROVE KnownMember'
  BY <1>3, <1>a, <1>b DEF Turned, Passed, Ends, OthersGo, Quiet, KnownMember
<1>4. ASSUME NEW v \in Visits, LastBind(v) PROVE KnownMember'
  BY <1>4, <1>a, <1>b DEF LastBind, Passed, Ends, OthersGo, Quiet, KnownMember
<1>5. ASSUME NEW v \in Visits, NEW new \in User, SyncedTo(v, new) PROVE KnownMember'
  BY <1>5, <1>a, <1>b DEF SyncedTo, Wrote, Saved1, Ends, OthersGo, KnownMember
<1>6. ASSUME NEW v \in Visits, NEW new \in User, AppliedTo(v, new) PROVE KnownMember'
  BY <1>6, <1>a, <1>b DEF AppliedTo, Wrote, Saved1, Ends, OthersGo, KnownMember
<1>7. ASSUME NEW v \in Visits, NEW new \in User, Normalised(v, new) PROVE KnownMember'
  BY <1>7, <1>a, <1>b DEF Normalised, Saved1, Ends, OthersGo, KnownMember
<1>8. ASSUME NEW o \in Saves, Opened(o) PROVE KnownMember'
  BY <1>8, <1>a, <1>b DEF Opened, OthersGo, Quiet, KnownMember
<1>9. ASSUME NEW o \in Saves, NEW new \in User, WrittenTo(o, new) PROVE KnownMember'
  BY <1>9, <1>a, <1>b DEF WrittenTo, Wrote, Saved1, Ends, OthersGo, KnownMember
<1>10. ASSUME NEW x \in Processes, Bound(x) PROVE KnownMember'
  BY <1>10, <1>a, <1>b DEF Bound, Passed, Ends, OthersGo, Quiet, KnownMember
<1>11. ASSUME Closed PROVE KnownMember'
  BY <1>11, <1>a, <1>b DEF Closed, KnownMember
<1> QED
  BY <1>1, <1>2, <1>3, <1>4, <1>5, <1>6, <1>7, <1>8, <1>9, <1>10, <1>11, StepKinds DEF
     IInv

\* What is written of a member keeps her one.
LEMMA MembersKeptStep == ASSUME IInv, [Next]_vars PROVE MembersKept'
<1>a. TypeOK /\ Holds /\ SavesPromote /\ LoneVisit /\ CopyFresh /\ CopyKept /\ KnownMember /\ MembersKept
  BY DEF IInv
<1>b. /\ Visits \cap Saves = {} /\ Processes = Visits \cup Saves /\ joined \subseteq Visits
      /\ \A u \in User : u # None
      /\ NewUser \in User /\ NewUser # None
      /\ \A x \in Processes : person[x] \in Persons
      /\ \A x \in Processes : proc[x].mine # None => proc[x].mine \in User
      /\ \A q \in Persons : user[q] # None => user[q] \in User
      /\ person' = person /\ \A q \in Persons : user[q] # None => user'[q] # None
  BY <1>a, Basics, UserKept
<1>1. ASSUME NEW v \in Visits, Began(v) PROVE MembersKept'
  <2>1. \A q \in Persons : user[q] # None /\ Member(user[q]) => Member(user'[q])
    BY <1>1 DEF Began, Member
  <2>2. mixed \subseteq mixed' /\ joined' = joined
    BY <1>1 DEF Began
  <2> QED
    BY <1>a, <1>b, <2>1, <2>2 DEF MembersKept, KnownMember
<1>2. ASSUME NEW v \in Visits, SignedUp(v) PROVE MembersKept'
  <2>1. \A w \in joined : person[w] # person[v]
    BY <1>2, <1>a DEF SignedUp, KnownMember
  <2> QED
    BY <1>2, <1>a, <1>b, <2>1 DEF SignedUp, MembersKept
<1>3. ASSUME NEW v \in Visits, Turned(v) PROVE MembersKept'
  BY <1>3, <1>a, <1>b DEF Turned, Passed, Ends, OthersGo, Quiet, MembersKept
<1>4. ASSUME NEW v \in Visits, LastBind(v) PROVE MembersKept'
  BY <1>4, <1>a, <1>b DEF LastBind, Passed, Ends, OthersGo, Quiet, MembersKept
<1>5. ASSUME NEW v \in Visits, NEW new \in User, SyncedTo(v, new) PROVE MembersKept'
  <2>1. proc[v].mine \in User /\ proc[v].hint \in RoleNames /\ Running(v)
    BY <1>5, <1>a, <1>b, ProcFields DEF SyncedTo, Wrote, Holds, Running, At
  <2>2. Member(proc[v].mine) => Member(new)
    BY <1>5, <2>1, SyncedMember DEF SyncedTo
  <2>3. \A w \in joined : person[w] = person[v] /\ person[v] \notin mixed => Member(proc[v].mine)
    BY <1>a, <2>1 DEF CopyKept
  <2>4. Member(user[person[v]]) /\ Member(new) => Member(user'[person[v]])
    BY <1>5, <2>1, SavedMember DEF SyncedTo, Wrote
  <2>5. UNCHANGED <<joined, mixed>> /\ \A q \in Persons \ {person[v]} : user'[q] = user[q]
    BY <1>5 DEF SyncedTo, Wrote, Saved1
  <2> QED
    BY <1>a, <1>b, <2>2, <2>3, <2>4, <2>5 DEF MembersKept
<1>6. ASSUME NEW v \in Visits, NEW new \in User, AppliedTo(v, new) PROVE MembersKept'
  <2>1. Member(new) /\ proc[v].mine \in User /\ proc[v].mine # None /\ Running(v)
    BY <1>6, <1>b DEF AppliedTo, Wrote, Member, Staff, Running, At
  <2>2. person[v] \in mixed \/ Member(user'[person[v]])
    BY <1>6, <1>a, <2>1, FreshMember DEF AppliedTo, Wrote, CopyFresh
  <2>3. /\ joined' = joined \cup {v} /\ mixed' = mixed
        /\ \A q \in Persons \ {person[v]} : user'[q] = user[q]
    BY <1>6 DEF AppliedTo, Wrote, Saved1
  <2> QED
    BY <1>a, <1>b, <2>2, <2>3 DEF MembersKept
<1>7. ASSUME NEW v \in Visits, NEW new \in User, Normalised(v, new) PROVE MembersKept'
  <2>1. Running(v)
    BY <1>7 DEF Normalised, Running, At
  <2>2. \A w \in joined : person[w] = person[v] /\ person[v] \notin mixed => Member(proc[v].mine)
    BY <1>a, <2>1 DEF CopyKept
  <2>3. Member(proc[v].mine) /\ Member(user[person[v]]) => Member(user'[person[v]])
    BY <1>7, NormalMember
  <2>4. UNCHANGED <<joined, mixed>> /\ \A q \in Persons \ {person[v]} : user'[q] = user[q]
    BY <1>7 DEF Normalised, Saved1
  <2> QED
    BY <1>a, <1>b, <2>2, <2>3, <2>4 DEF MembersKept
<1>8. ASSUME NEW o \in Saves, Opened(o) PROVE MembersKept'
  BY <1>8, <1>a, <1>b DEF Opened, OthersGo, Quiet, MembersKept
<1>9. ASSUME NEW o \in Saves, NEW new \in User, WrittenTo(o, new) PROVE MembersKept'
  <2>1. Member(user[person[o]]) => Member(user'[person[o]])
    <3>1. proc[o].hint \in Staff \cup {proc[o].mine.role} /\ proc[o].mine \in User
      BY <1>9, <1>a, <1>b DEF WrittenTo, Wrote, SavesPromote
    <3> QED
      BY <1>9, <3>1, OwnerMember DEF WrittenTo, Wrote
  <2>2. UNCHANGED <<joined, mixed>> /\ \A q \in Persons \ {person[o]} : user'[q] = user[q]
    BY <1>9, <1>b DEF WrittenTo, Wrote, Saved1
  <2> QED
    BY <1>a, <1>b, <2>1, <2>2 DEF MembersKept
<1>10. ASSUME NEW x \in Processes, Bound(x) PROVE MembersKept'
  BY <1>10, <1>a, <1>b DEF Bound, Passed, Ends, OthersGo, Quiet, MembersKept
<1>11. ASSUME Closed PROVE MembersKept'
  BY <1>11, <1>a, <1>b DEF Closed, MembersKept
<1> QED
  BY <1>1, <1>2, <1>3, <1>4, <1>5, <1>6, <1>7, <1>8, <1>9, <1>10, <1>11, StepKinds DEF
     IInv

---------------------------------------------------------------------------
(* What the steps do to the schedule *)

KeepsAim(x) == proc'[x].create = proc[x].create /\ proc'[x].mine = proc[x].mine

\* A step of a request that does not bind; binding may be next.
Elsewhere(x) ==
  /\ UNCHANGED <<schedule, person>> /\ OthersGo(x)
  /\ proc[x].pc \notin Binding \cup {"done", "failed"}
  /\ proc'[x].pc \notin {"link", "gather", "move"}
  /\ \/ joined' = joined
     \/ /\ joined' = joined \cup {x} /\ proc'[x].pc = "find" /\ proc'[x].create = TRUE
        /\ proc'[x].mine.role \in Staff /\ proc'[x].mine.tenant = "shop"

\* Binding finds no row: it ends, unless the caller wants a new one.
Skips(x) ==
  /\ At(x, "find") /\ UNCHANGED schedule /\ proc'[x].pc \notin {"link", "gather", "move"}
  /\ (proc[x].create = TRUE /\ proc[x].mine.role \in Staff /\ Shop(x) # None) =>
       proc'[x].pc = "create" /\ KeepsAim(x)
Finds(x, r) ==
  /\ At(x, "find") /\ link[r] = person[x] /\ UNCHANGED <<link, at>>
  /\ \A q \in Rows \ {r} : home'[q] = home[q]
  /\ proc'[x].pc = "gather" /\ proc'[x].row = r /\ KeepsAim(x)
Picks(x, r) ==
  /\ At(x, "find") /\ r \in OldRows /\ Claims(person[x], r) /\ UNCHANGED schedule
  /\ proc'[x].pc = "link" /\ proc'[x].row = r /\ KeepsAim(x)
Fails(x) ==
  /\ proc[x].pc \in {"link", "create"} /\ UNCHANGED schedule /\ proc'[x].pc = "failed"
LinksTo(x, r) ==
  /\ \/ At(x, "link") /\ r = proc[x].row /\ r \in OldRows /\ home' = home
     \/ At(x, "create") /\ r = x /\ \A q \in OldRows : home'[q] = home[q]
  /\ Linked(person[x]) \subseteq {r} /\ link' = [link EXCEPT ![r] = person[x]] /\ at' = at
  /\ proc'[x].pc = "gather" /\ proc'[x].row = r /\ KeepsAim(x)
MigratesTo(x, sources) ==
  \/ sources = {} /\ proc'[x].pc \notin Binding
  \/ /\ sources # {} /\ proc'[x].pc = "move" /\ proc'[x].sources = sources
     /\ proc'[x].row = proc[x].row /\ KeepsAim(x)
Gathers(x, sources) ==
  /\ At(x, "gather") /\ UNCHANGED schedule /\ MigratesTo(x, sources)
  /\ sources \subseteq Rows \ {proc[x].row}
  /\ \A r \in sources : link[r] = person[x] \/ (r \in OldRows /\ person[x] \in {KeyOf[r], MailOf[r]})
  /\ \A r \in OldRows \ {proc[x].row} : home[r] = Shop(x) /\ KeyOf[r] = person[x] => r \in sources
Moves(x, r) ==
  /\ At(x, "move") /\ r \in proc[x].sources /\ home' = home
  /\ \A s \in Shifts : at'[s] = IF at[s] = r THEN proc[x].row ELSE at[s]
  /\ \A q \in Rows \ {r} : link'[q] = link[q]
  /\ link'[r] = IF link[r] = person[x] THEN None ELSE link[r]
  /\ MigratesTo(x, proc[x].sources \ {r})

Binds(x) ==
  /\ UNCHANGED <<joined, person>> /\ OthersGo(x)
  /\ \/ Skips(x) \/ Fails(x)
     \/ \E r \in Rows : Finds(x, r) \/ Picks(x, r) \/ LinksTo(x, r) \/ Moves(x, r)
     \/ \E sources \in SUBSET Rows : Gathers(x, sources)

LEMMA GoesOn ==
  ASSUME TypeOK, NEW x \in Processes, NEW p \in Proc, Becomes(x, p)
  PROVE  /\ OthersGo(x)
         /\ p.pc \notin {"done", "failed"} => proc'[x] = p
         /\ proc'[x].pc = p.pc
<1>1. Procs
  BY ProcFields
<1>2. Goes(x, p)
  BY <1>1, BecomesEffect
<1>3. p.pc \in {"done", "failed"} => proc'[x].pc = p.pc
  BY <1>1 DEF Becomes, Idle, Procs
<1> QED
  BY <1>2, <1>3 DEF Goes, Ends

LEMMA ProcRest ==
  ASSUME TypeOK, NEW x \in Processes
  PROVE  /\ proc[x] \in Proc /\ proc[x].row \in Rows \cup {None} /\ proc[x].sources \in SUBSET Rows
         /\ proc[x].create \in BOOLEAN /\ person[x] \in Persons /\ x \in Rows
<1>1. proc[x] \in Proc
  BY ProcFields
<1> QED
  BY <1>1, ProcFields DEF Proc, Rows

LEMMA FindEffect ==
  ASSUME TypeOK, Holds, NEW x \in Processes, FindRow(x)
  PROVE  Binds(x)
<1>a. /\ proc[x] \in Proc /\ proc[x].mine \in User \cup {None} /\ proc[x].pc \in Pcs
      /\ proc[x].then \in {"apply", "final", "write", "done"} /\ person[x] \in Persons
      /\ home \in [Rows -> Shops \cup {None}]
  BY ProcFields DEF TypeOK
<1>b. At(x, "find") /\ UNCHANGED <<link, at, joined, person>>
  BY DEF FindRow
<1>g. ASSUME NEW pc \in Pcs, NEW row \in Rows \cup {None},
             Becomes(x, [proc[x] EXCEPT !.pc = pc, !.row = row])
      PROVE  /\ OthersGo(x) /\ proc'[x].pc = pc
             /\ pc \notin {"done", "failed"} => proc'[x].row = row /\ KeepsAim(x)
  <2> DEFINE p == [proc[x] EXCEPT !.pc = pc, !.row = row]
  <2>1. /\ p \in Proc /\ p.pc = pc /\ p.mine = proc[x].mine /\ p.create = proc[x].create
        /\ p.row = row
    BY <1>a DEF Proc
  <2> HIDE DEF p
  <2>2. OthersGo(x) /\ (pc \notin {"done", "failed"} => proc'[x] = p) /\ proc'[x].pc = pc
    BY <1>g, <2>1, GoesOn DEF p
  <2> QED
    BY <2>1, <2>2 DEF KeepsAim
<1>p. {"gather", "link", "create"} \subseteq Pcs /\ proc[x].then \in Pcs
  BY <1>a DEF Pcs
<1>q. None \in Rows \cup {None} /\ \A r \in Rows : r \in Rows \cup {None}
  OBVIOUS
<1>t. proc[x].then \notin {"link", "gather", "move"}
  BY <1>a
<1>1. CASE proc[x].mine.role \notin Staff \/ Shop(x) = None
  <2>1. To(x, proc[x].then) /\ home' = home
    BY <1>1 DEF FindRow
  <2> DEFINE p == [proc[x] EXCEPT !.pc = proc[x].then]
  <2>2. p \in Proc /\ p.pc = proc[x].then
    BY <1>a, <1>p DEF Proc
  <2>3. Becomes(x, p)
    BY <2>1 DEF To
  <2> HIDE DEF p
  <2>4. OthersGo(x) /\ proc'[x].pc = proc[x].then
    BY <2>2, <2>3, GoesOn
  <2> QED
    BY <1>1, <1>b, <1>t, <2>1, <2>4 DEF Binds, Skips, schedule
<1>2. CASE ~(proc[x].mine.role \notin Staff \/ Shop(x) = None)
  <2>1. \/ \E r \in Linked(person[x]) :
             /\ Becomes(x, [proc[x] EXCEPT !.pc = "gather", !.row = r])
             /\ home' = [home EXCEPT ![r] = Shop(x)]
        \/ \E r \in Reusable(x, KeyOf) \cup Reusable(x, MailOf) :
             /\ Becomes(x, [proc[x] EXCEPT !.pc = "link", !.row = r])
             /\ home' = home
        \/ /\ Becomes(x, [proc[x] EXCEPT !.pc = IF proc[x].create THEN "create" ELSE proc[x].then, !.row = None])
           /\ home' = home
    BY <1>2 DEF FindRow
  <2>2. ASSUME NEW r \in Linked(person[x]), home' = [home EXCEPT ![r] = Shop(x)],
               Becomes(x, [proc[x] EXCEPT !.pc = "gather", !.row = r])
        PROVE  Binds(x)
    <3>1. r \in Rows /\ link[r] = person[x] /\ \A q \in Rows \ {r} : home'[q] = home[q]
      BY <2>2, <1>a DEF Linked
    <3>2. OthersGo(x) /\ proc'[x].pc = "gather" /\ proc'[x].row = r /\ KeepsAim(x)
      BY <2>2, <3>1, <1>g, <1>p
    <3>3. Finds(x, r)
      BY <1>b, <3>1, <3>2 DEF Finds
    <3> QED
      BY <1>b, <3>1, <3>2, <3>3 DEF Binds
  <2>3. ASSUME NEW r \in Reusable(x, KeyOf) \cup Reusable(x, MailOf), home' = home,
               Becomes(x, [proc[x] EXCEPT !.pc = "link", !.row = r])
        PROVE  Binds(x)
    <3>1. r \in OldRows /\ r \in Rows /\ Claims(person[x], r)
      BY <2>3 DEF Reusable, Claims, Rows
    <3>2. OthersGo(x) /\ proc'[x].pc = "link" /\ proc'[x].row = r /\ KeepsAim(x)
      BY <2>3, <3>1, <1>g, <1>p
    <3>3. Picks(x, r)
      BY <1>b, <2>3, <3>1, <3>2 DEF Picks, schedule
    <3> QED
      BY <1>b, <3>1, <3>2, <3>3 DEF Binds
  <2>4. ASSUME Becomes(x, [proc[x] EXCEPT !.pc = IF proc[x].create THEN "create" ELSE proc[x].then, !.row = None]),
               home' = home
        PROVE  Binds(x)
    <3>1. PICK pc \in {"create", proc[x].then} :
             /\ pc = IF proc[x].create THEN "create" ELSE proc[x].then
             /\ Becomes(x, [proc[x] EXCEPT !.pc = pc, !.row = None])
      BY <2>4
    <3>2. pc \in Pcs /\ pc \notin {"link", "gather", "move"}
      BY <1>p, <1>t, <3>1
    <3>3. OthersGo(x) /\ proc'[x].pc = pc /\ (pc \notin {"done", "failed"} => KeepsAim(x))
      BY <3>1, <3>2, <1>g
    <3>4. proc[x].create = TRUE => pc = "create" /\ KeepsAim(x)
      BY <3>1, <3>3
    <3>5. Skips(x)
      BY <1>b, <2>4, <3>2, <3>3, <3>4 DEF Skips, schedule
    <3> QED
      BY <1>b, <3>3, <3>5 DEF Binds
  <2> QED
    BY <2>1, <2>2, <2>3, <2>4
<1> QED
  BY <1>1, <1>2

LEMMA LinkEffect ==
  ASSUME TypeOK, Holds, BindsOwn, NEW x \in Processes, LinkRow(x) \/ CreateRow(x)
  PROVE  Binds(x)
<1>a. /\ proc[x] \in Proc /\ person[x] \in Persons /\ x \in Rows
      /\ home \in [Rows -> Shops \cup {None}]
  BY ProcRest DEF TypeOK
<1>b. UNCHANGED <<at, joined, person>>
  BY DEF LinkRow, CreateRow
<1>1. ASSUME To(x, "failed"), UNCHANGED <<link, home>>, proc[x].pc \in {"link", "create"}
      PROVE  Binds(x)
  <2> DEFINE p == [proc[x] EXCEPT !.pc = "failed"]
  <2>1. p \in Proc /\ p.pc = "failed"
    BY <1>a DEF Proc, Pcs
  <2>2. Becomes(x, p)
    BY <1>1 DEF To
  <2> HIDE DEF p
  <2>3. OthersGo(x) /\ proc'[x].pc = "failed"
    BY <2>1, <2>2, GoesOn
  <2> QED
    BY <1>1, <1>b, <2>3 DEF Binds, Fails, schedule
<1>2. CASE LinkRow(x)
  <2>1. At(x, "link") /\ home' = home /\ proc[x].row \in OldRows
    BY <1>2 DEF LinkRow, BindsOwn
  <2>2. CASE Linked(person[x]) \ {proc[x].row} # {}
    BY <1>1, <1>2, <2>1, <2>2 DEF LinkRow, At
  <2>3. CASE Linked(person[x]) \ {proc[x].row} = {}
    <3>1. To(x, "gather") /\ link' = [link EXCEPT ![proc[x].row] = person[x]]
      BY <1>2, <2>3 DEF LinkRow
    <3> DEFINE p == [proc[x] EXCEPT !.pc = "gather"]
    <3>2. /\ p \in Proc /\ p.pc = "gather" /\ p.mine = proc[x].mine /\ p.create = proc[x].create
          /\ p.row = proc[x].row
      BY <1>a DEF Proc, Pcs
    <3>3. Becomes(x, p)
      BY <3>1 DEF To
    <3> HIDE DEF p
    <3>4. OthersGo(x) /\ proc'[x] = p
      BY <3>2, <3>3, GoesOn
    <3>5. LinksTo(x, proc[x].row)
      BY <1>b, <2>1, <2>3, <3>1, <3>2, <3>4 DEF LinksTo, KeepsAim
    <3> QED
      BY <1>b, <2>1, <3>4, <3>5 DEF Binds, Rows
  <2> QED
    BY <2>2, <2>3
<1>3. CASE CreateRow(x)
  <2>1. At(x, "create")
    BY <1>3 DEF CreateRow
  <2>2. CASE Linked(person[x]) # {}
    BY <1>1, <1>3, <2>1, <2>2 DEF CreateRow, At
  <2>3. CASE Linked(person[x]) = {}
    <3>1. /\ Becomes(x, [proc[x] EXCEPT !.pc = "gather", !.row = x])
          /\ link' = [link EXCEPT ![x] = person[x]]
          /\ home' = [home EXCEPT ![x] = Shop(x)]
      BY <1>3, <2>3 DEF CreateRow
    <3> DEFINE p == [proc[x] EXCEPT !.pc = "gather", !.row = x]
    <3>2. /\ p \in Proc /\ p.pc = "gather" /\ p.mine = proc[x].mine /\ p.create = proc[x].create
          /\ p.row = x
      BY <1>a DEF Proc, Pcs
    <3> HIDE DEF p
    <3>3. OthersGo(x) /\ proc'[x] = p
      BY <3>1, <3>2, GoesOn DEF p
    <3>4. \A q \in OldRows : home'[q] = home[q]
      <4>1. \A q \in OldRows : q # x /\ q \in Rows
        BY StaffAssumption DEF Rows
      <4> QED
        BY <1>a, <3>1, <4>1
    <3>5. LinksTo(x, x)
      BY <1>b, <2>1, <2>3, <3>1, <3>2, <3>3, <3>4 DEF LinksTo, KeepsAim
    <3> QED
      BY <1>a, <1>b, <3>3, <3>5 DEF Binds
  <2> QED
    BY <2>2, <2>3
<1> QED
  BY <1>2, <1>3

LEMMA MigrateEffect ==
  ASSUME TypeOK, NEW x \in Processes, NEW sources \in SUBSET Rows, Migrate(x, proc[x].row, sources)
  PROVE  OthersGo(x) /\ MigratesTo(x, sources)
<1> DEFINE p == [proc[x] EXCEPT !.row = IF sources = {} THEN None ELSE proc[x].row,
                                !.sources = sources,
                                !.pc = IF sources = {} THEN proc[x].then ELSE "move"]
<1>a. /\ proc[x] \in Proc /\ proc[x].row \in Rows \cup {None}
      /\ proc[x].then \in {"apply", "final", "write", "done"}
  BY ProcFields, ProcRest
<1>1. /\ p \in Proc /\ p.pc = (IF sources = {} THEN proc[x].then ELSE "move")
      /\ p.mine = proc[x].mine /\ p.create = proc[x].create /\ p.sources = sources
      /\ p.row = IF sources = {} THEN None ELSE proc[x].row
  BY ZenonT(60), <1>a DEF Proc, Pcs
<1>2. Becomes(x, p)
  BY DEF Migrate
<1> HIDE DEF p
<1>3. /\ OthersGo(x) /\ proc'[x].pc = p.pc
      /\ p.pc \notin {"done", "failed"} => proc'[x] = p
  BY <1>1, <1>2, GoesOn
<1> QED
  BY <1>a, <1>1, <1>3 DEF MigratesTo, KeepsAim, Binding

LEMMA GatherEffect ==
  ASSUME TypeOK, NEW x \in Processes, Gather(x)
  PROVE  Binds(x)
<1> DEFINE p == person[x]
           hers(r) == \/ link[r] = p
                      \/ Carries(r, p)
                      \/ r \in OldRows /\ link[r] = None /\ MailOf[r] = p
           sources == {r \in Rows \ {proc[x].row} : home[r] = Shop(x) /\ hers(r)}
<1>1. /\ At(x, "gather") /\ UNCHANGED <<schedule, joined, person>>
      /\ Migrate(x, proc[x].row, sources)
  BY DEF Gather
<1>2. sources \in SUBSET Rows
  OBVIOUS
<1>3. OthersGo(x) /\ MigratesTo(x, sources)
  <2> HIDE DEF sources
  <2> QED
    BY <1>1, <1>2, MigrateEffect
<1>4. /\ sources \subseteq Rows \ {proc[x].row}
      /\ \A r \in sources : link[r] = p \/ (r \in OldRows /\ p \in {KeyOf[r], MailOf[r]})
      /\ \A r \in OldRows \ {proc[x].row} : home[r] = Shop(x) /\ KeyOf[r] = p => r \in sources
  BY DEF Carries, Rows
<1>5. Gathers(x, sources)
  <2> HIDE DEF sources
  <2> QED
    BY <1>1, <1>3, <1>4 DEF Gathers
<1> HIDE DEF sources
<1> QED
  BY <1>1, <1>2, <1>3, <1>5 DEF Binds

LEMMA MoveEffect ==
  ASSUME TypeOK, NEW x \in Processes, Move(x)
  PROVE  Binds(x)
<1>a. /\ proc[x].sources \in SUBSET Rows /\ link \in [Rows -> Persons \cup {None}]
  BY ProcRest DEF TypeOK
<1>1. At(x, "move") /\ UNCHANGED <<home, joined, person>>
  BY DEF Move
<1>2. PICK r \in proc[x].sources :
         /\ at' = [s \in Shifts |-> IF at[s] = r THEN proc[x].row ELSE at[s]]
         /\ link' = [link EXCEPT ![r] = IF @ = person[x] THEN None ELSE @]
         /\ Migrate(x, proc[x].row, proc[x].sources \ {r})
  BY DEF Move
<1>3. r \in Rows /\ proc[x].sources \ {r} \in SUBSET Rows
  BY <1>a
<1>4. OthersGo(x) /\ MigratesTo(x, proc[x].sources \ {r})
  BY <1>2, <1>3, MigrateEffect
<1>5. /\ \A q \in Rows \ {r} : link'[q] = link[q]
      /\ link'[r] = IF link[r] = person[x] THEN None ELSE link[r]
      /\ \A s \in Shifts : at'[s] = IF at[s] = r THEN proc[x].row ELSE at[s]
  BY <1>2, <1>3, <1>a
<1>6. Moves(x, r)
  BY <1>1, <1>4, <1>5 DEF Moves
<1> QED
  BY <1>1, <1>3, <1>4, <1>6 DEF Binds

\* A step that does not bind leaves the schedule alone.
LEMMA AppliedAim ==
  ASSUME TypeOK, Holds, NEW v \in Visits, Apply(v)
  PROVE  Elsewhere(v)
<1> DEFINE new == [role |-> "STAFF", staff |-> TRUE, tenant |-> "shop", active |-> TRUE]
           r == [proc[v] EXCEPT !.mine = new, !.create = TRUE, !.pc = "find",
                                !.then = IF proc[v].fresh THEN "final" ELSE "done"]
<1>a. v \in Processes /\ proc[v] \in Proc
  BY ProcFields DEF Processes
<1>1. /\ At(v, "apply") /\ UNCHANGED <<schedule, person>> /\ joined' = joined \cup {v}
      /\ Becomes(v, r)
  BY DEF Apply
<1>2. new \in User /\ new.role = "STAFF" /\ new.tenant = "shop"
  BY DEF User, RoleNames, Shops
<1> HIDE DEF new
<1>3. r \in Proc /\ r.pc = "find" /\ r.mine = new /\ r.create = TRUE
  BY <1>a, <1>2 DEF Proc, Pcs
<1> HIDE DEF r
<1>4. OthersGo(v) /\ proc'[v] = r
  BY <1>a, <1>1, <1>3, GoesOn
<1> QED
  BY <1>1, <1>2, <1>3, <1>4 DEF Elsewhere, At, Binding, Staff

LEMMA ScheduleKinds ==
  ASSUME TypeOK, Holds, SavesPromote, BindsOwn, [Next]_vars
  PROVE  \/ \E x \in Processes : Elsewhere(x) \/ Binds(x)
         \/ UNCHANGED <<schedule, person, proc, joined>>
<1>a. Visits \subseteq Processes /\ Saves \subseteq Processes
  BY DEF Processes
<1>e. Pcs \ {"link", "gather", "move"} =
        {"idle", "apply", "sync", "signup", "final", "normalise", "find", "create", "write", "done", "failed"}
  BY DEF Pcs
<1>1. ASSUME NEW v \in Visits, Began(v), UNCHANGED schedule PROVE Elsewhere(v)
  BY <1>1 DEF Began, Elsewhere, Ends, OthersGo, At, Binding
<1>2. ASSUME NEW v \in Visits, SignedUp(v) \/ Turned(v) \/ LastBind(v), UNCHANGED schedule
      PROVE  Elsewhere(v)
  BY <1>2 DEF SignedUp, Turned, LastBind, Passed, Quiet, Elsewhere, Ends, OthersGo, At, Binding
<1>3. ASSUME NEW v \in Visits, NEW new \in User, SyncedTo(v, new) \/ Normalised(v, new),
             UNCHANGED schedule
      PROVE  Elsewhere(v)
  BY <1>3 DEF SyncedTo, Normalised, Wrote, Elsewhere, Ends, OthersGo, At, Binding
<1>4. ASSUME NEW o \in Saves, Opened(o), UNCHANGED schedule PROVE Elsewhere(o)
  BY <1>4 DEF Opened, Quiet, Elsewhere, Ends, OthersGo, At, Binding
<1>5. ASSUME NEW o \in Saves, NEW new \in User, WrittenTo(o, new), UNCHANGED schedule
      PROVE  Elsewhere(o)
  BY <1>5 DEF WrittenTo, Wrote, Elsewhere, Ends, OthersGo, At, Binding
<1>11. ASSUME NEW v \in Visits, NEW token \in BOOLEAN, NEW public \in BOOLEAN, NEW hint \in Hints,
              Arrive(v, token, public, hint)
       PROVE  Elsewhere(v)
  <2>1. UNCHANGED schedule
    BY <1>11 DEF Arrive
  <2> QED
    BY <1>1, <1>11, <2>1, ArriveEffect
<1>12. ASSUME NEW v \in Visits, NEW hint \in Hints, Authorize(v, hint) PROVE Elsewhere(v)
  <2>1. UNCHANGED schedule
    BY <1>12 DEF Authorize
  <2> QED
    BY <1>1, <1>12, <2>1, AuthorizeEffect
<1>13. ASSUME NEW v \in Visits, SignUp(v) \/ TurnAway(v) \/ PassInvite(v) \/ Final(v)
       PROVE  Elsewhere(v)
  <2>1. UNCHANGED schedule
    BY <1>13 DEF SignUp, TurnAway, PassInvite, Final
  <2> QED
    BY <1>2, <1>13, <2>1, SignUpEffect, TurnEffect, FinalEffect
<1>14. ASSUME NEW v \in Visits, Sync(v) \/ Normalise(v) PROVE Elsewhere(v)
  <2>1. UNCHANGED schedule
    BY <1>14 DEF Sync, Normalise
  <2> QED
    BY <1>3, <1>14, <2>1, SyncEffect, NormaliseEffect
<1>15. ASSUME NEW o \in Saves, NEW role \in Staff \cup {None}, SaveStaff(o, role) PROVE Elsewhere(o)
  <2>1. UNCHANGED schedule
    BY <1>15 DEF SaveStaff
  <2> QED
    BY <1>4, <1>15, <2>1, SaveStaffEffect
<1>16. ASSUME NEW o \in Saves, WriteStaff(o) PROVE Elsewhere(o)
  <2>1. UNCHANGED schedule
    BY <1>16 DEF WriteStaff
  <2> QED
    BY <1>5, <1>16, <2>1, WriteStaffEffect
<1>17. ASSUME NEW x \in Processes, Bind(x) PROVE Binds(x)
  BY <1>17, FindEffect, LinkEffect, GatherEffect, MoveEffect DEF Bind
<1>18. ASSUME Deactivate \/ UNCHANGED vars PROVE UNCHANGED <<schedule, person, proc, joined>>
  BY <1>18 DEF Deactivate, vars
<1> QED
  BY <1>a, <1>11, <1>12, <1>13, <1>14, <1>15, <1>16, <1>17, <1>18, AppliedAim DEF Next

---------------------------------------------------------------------------
(* What binding and migrating keep *)

\* What the lemmas below need of the types.
LEMMA Rowed ==
  ASSUME TypeOK
  PROVE  /\ Rows = OldRows \cup Processes /\ OldRows \cap Processes = {} /\ None \notin Persons
         /\ None \notin Rows
         /\ \A r \in Rows : link[r] \in Persons \cup {None}
         /\ \A s \in Shifts : at[s] \in Rows /\ RowOf[s] \in OldRows
         /\ \A x \in Processes : person[x] \in Persons /\ x \in Rows /\ proc[x].row \in Rows \cup {None}
                                 /\ proc[x].sources \subseteq Rows
         /\ link \in [Rows -> Persons \cup {None}]
<1>1. \A x \in Processes : /\ person[x] \in Persons /\ x \in Rows
                           /\ proc[x].row \in Rows \cup {None} /\ proc[x].sources \subseteq Rows
  BY ProcRest
<1> QED
  BY <1>1, StaffAssumption DEF TypeOK, Rows

\* Two persons who may both have a resource are one, if one of them is undisputed.
LEMMA SameClaim ==
  ASSUME NEW p \in Persons, NEW q \in Persons, NEW r \in Rows, Undisputed(p), Claims(p, r), Claims(q, r)
  PROVE  p = q
<1>1. OldRows \cap Processes = {} /\ None \notin Persons
  BY StaffAssumption
<1>2. CASE r \in OldRows
  <2>1. p \in {KeyOf[r], MailOf[r]} /\ q \in {KeyOf[r], MailOf[r]}
    BY <1>1, <1>2 DEF Claims
  <2>2. {KeyOf[r], MailOf[r]} \subseteq {p, None}
    BY <1>2, <2>1 DEF Undisputed
  <2> QED
    BY <1>1, <2>1, <2>2
<1> QED
  BY <1>1, <1>2 DEF Claims, Rows

\* Sources of a migration may be the person's, and what is linked to her is.
LEMMA MoverIs ==
  ASSUME TypeOK, Holds, LinkedOnce, BindsOwn, NEW x \in Processes, NEW r \in Rows, Moves(x, r),
         NEW p \in Persons, Undisputed(p), Claims(p, r)
  PROVE  /\ person[x] = p /\ proc[x].row \in Rows /\ link[proc[x].row] = p
         /\ link'[proc[x].row] = p /\ proc[x].row # r
<1>1. /\ Claims(person[x], r) /\ person[x] \in Persons /\ proc[x].row # r /\ At(x, "move")
      /\ proc[x].row \in Rows \cup {None}
  BY Rowed DEF Moves, BindsOwn
<1>2. person[x] = p
  BY <1>1, SameClaim
<1>3. link[proc[x].row] = p
  BY <1>1, <1>2 DEF BindsOwn
<1>4. proc[x].row \in Rows
  BY <1>1 DEF Holds, At
<1> QED
  BY <1>1, <1>2, <1>3, <1>4 DEF Moves

\* A resource of an undisputed person is never taken from her.
LEMMA LinkPermanent ==
  ASSUME TypeOK, Holds, LinkedOnce, BindsOwn, NEW x \in Processes, Binds(x),
         NEW p \in Persons, Undisputed(p), NEW r \in Rows, link[r] = p
  PROVE  link'[r] = p
<1>1. Claims(p, r) /\ p # None
  BY Rowed DEF LinkedOnce
<1>2. CASE link' = link
  BY <1>2
<1>3. ASSUME NEW q \in Rows, LinksTo(x, q) PROVE link'[r] = p
  <2>1. Claims(person[x], q) /\ person[x] \in Persons
    <3>1. CASE At(x, "link") /\ q = proc[x].row
      BY <3>1, Rowed DEF BindsOwn
    <3>2. CASE q = x
      BY <3>2, Rowed DEF Claims
    <3> QED
      BY <1>3, <3>1, <3>2 DEF LinksTo
  <2>2. q = r => person[x] = p
    BY <1>1, <2>1, SameClaim
  <2> QED
    BY <1>3, <2>2, Rowed DEF LinksTo
<1>4. ASSUME NEW q \in Rows, Moves(x, q) PROVE link'[r] = p
  <2>1. CASE q # r
    BY <1>4, <2>1 DEF Moves
  <2>2. CASE q = r
    <3>1. proc[x].row \in Rows /\ link[proc[x].row] = p /\ proc[x].row # r
      BY <1>1, <1>4, <2>2, MoverIs
    <3> QED
      BY <1>1, <3>1 DEF LinkedOnce
  <2> QED
    BY <2>1, <2>2
<1> QED
  BY <1>2, <1>3, <1>4 DEF Binds, Skips, Fails, Finds, Picks, Gathers, schedule

\* The shifts of an undisputed person go to her resource only.
LEMMA ShiftGoes ==
  ASSUME TypeOK, Holds, Kept, NEW x \in Processes, Binds(x),
         NEW p \in Persons, Undisputed(p), NEW s \in Shifts, KeyOf[RowOf[s]] = p, at'[s] # at[s]
  PROVE  /\ Moves(x, at[s]) /\ person[x] = p /\ at'[s] = proc[x].row /\ proc[x].row \in Rows
         /\ link[proc[x].row] = p /\ link'[proc[x].row] = p
<1>1. PICK r \in Rows : Moves(x, r) /\ at[s] = r /\ at'[s] = proc[x].row
  BY DEF Binds, Skips, Fails, Finds, Picks, LinksTo, Gathers, Moves, schedule
<1>2. Claims(p, at[s])
  <2>1. CASE at[s] = RowOf[s]
    BY <2>1, Rowed DEF Claims
  <2>2. CASE link[at[s]] = p
    BY <1>1, <2>2, Rowed DEF Kept, LinkedOnce
  <2> QED
    BY <2>1, <2>2 DEF Kept, ShiftsKept
<1> QED
  BY <1>1, <1>2, MoverIs DEF Kept

\* The resource of a person is settled once and for all.
LEMMA SettledStays ==
  ASSUME TypeOK, Holds, Kept, NEW x \in Processes, Binds(x),
         NEW p \in Persons, Undisputed(p), Settled(p)
  PROVE  Settled(p)'
<1>1. PICK r \in Rows : link[r] = p /\ \A s \in Shifts : KeyOf[RowOf[s]] = p => at[s] = r
  BY DEF Settled
<1>2. link'[r] = p
  BY <1>1, LinkPermanent DEF Kept
<1>3. ASSUME NEW s \in Shifts, KeyOf[RowOf[s]] = p PROVE at'[s] = r
  <2>1. SUFFICES ASSUME at'[s] # at[s] PROVE FALSE
    BY <1>1, <1>3
  <2>2. /\ Moves(x, r) /\ person[x] = p /\ proc[x].row \in Rows /\ link[proc[x].row] = p
        /\ at'[s] = proc[x].row
    BY <1>1, <1>3, <2>1, ShiftGoes
  <2>3. proc[x].row = r
    BY <1>1, <2>2, Rowed DEF Kept, LinkedOnce
  <2> QED
    BY <1>1, <1>3, <2>1, <2>2, <2>3
<1> QED
  BY <1>1, <1>2, <1>3 DEF Settled

\* A person is not linked twice, and only to what she may have.
LEMMA LinkedOnceStep ==
  ASSUME TypeOK, Holds, SavesPromote, Kept, [Next]_vars
  PROVE  LinkedOnce'
<1>a. LinkedOnce /\ BindsOwn
  BY DEF Kept
<1>1. ASSUME UNCHANGED <<link, person>> PROVE LinkedOnce'
  BY <1>1, <1>a DEF LinkedOnce, Claims
<1>2. ASSUME NEW x \in Processes, NEW r \in Rows, LinksTo(x, r), person' = person PROVE LinkedOnce'
  <2>1. Claims(person[x], r)
    <3>1. CASE At(x, "link") /\ r = proc[x].row
      BY <3>1, <1>a, Rowed DEF BindsOwn
    <3>2. CASE r = x
      BY <3>2, Rowed DEF Claims
    <3> QED
      BY <1>2, <3>1, <3>2 DEF LinksTo
  <2>2. \A q \in Rows : link'[q] = IF q = r THEN person[x] ELSE link[q]
    BY <1>2, Rowed DEF LinksTo
  <2>3. \A q \in Rows : link[q] = person[x] => q = r
    BY <1>2 DEF LinksTo, Linked
  <2> QED
    BY <1>2, <1>a, <2>1, <2>2, <2>3 DEF LinkedOnce, Claims
<1>3. ASSUME NEW x \in Processes, NEW r \in Rows, Moves(x, r), person' = person PROVE LinkedOnce'
  <2>1. \A q \in Rows : link'[q] \in {link[q], None}
    BY <1>3 DEF Moves
  <2> QED
    BY <1>3, <1>a, <2>1 DEF LinkedOnce, Claims
<1>4. ASSUME NEW x \in Processes, Binds(x) PROVE LinkedOnce'
  BY <1>1, <1>2, <1>3, <1>4 DEF Binds, Skips, Fails, Finds, Picks, Gathers, schedule
<1> QED
  BY <1>1, <1>4, <1>a, ScheduleKinds DEF Elsewhere, schedule

\* A request binds what it has found.
LEMMA BindsOwnStep ==
  ASSUME TypeOK, Holds, SavesPromote, Kept, [Next]_vars
  PROVE  BindsOwn'
<1>a. LinkedOnce /\ BindsOwn
  BY DEF Kept
<1>1. ASSUME UNCHANGED <<schedule, person, proc>> PROVE BindsOwn'
  BY <1>1, <1>a DEF BindsOwn, Claims, At, schedule
<1>2. ASSUME NEW x \in Processes, Elsewhere(x) PROVE BindsOwn'
  BY <1>2, <1>a DEF BindsOwn, Claims, At, schedule, Elsewhere, OthersGo
<1>3. ASSUME NEW x \in Processes, Binds(x) PROVE BindsOwn'
  <2>a. /\ person' = person /\ \A y \in Processes \ {x} : proc'[y] = proc[y]
        /\ person[x] \in Persons
    BY <1>3, Rowed DEF Binds, OthersGo
  <2> DEFINE Own(y) ==
        /\ At(y, "link") => proc[y].row \in OldRows /\ Claims(person[y], proc[y].row)
        /\ At(y, "move") => /\ proc[y].row \notin proc[y].sources
                            /\ \A r \in proc[y].sources : Claims(person[y], r)
        /\ (At(y, "gather") \/ At(y, "move")) /\ Undisputed(person[y]) => link[proc[y].row] = person[y]
  <2>b. \A y \in Processes : Own(y)
    BY <1>a DEF BindsOwn
  <2>p. \A y \in Processes : (At(y, "gather") \/ At(y, "move")) /\ Undisputed(person[y]) =>
          link'[proc[y].row] = person[y]
    <3>1. \A y \in Processes : (At(y, "gather") \/ At(y, "move")) => proc[y].row \in Rows
      BY Rowed DEF Holds, At
    <3> QED
      BY <1>3, <1>a, <2>b, <3>1, LinkPermanent, Rowed
  <2>1. ASSUME NEW y \in Processes \ {x} PROVE Own(y)'
    BY <2>a, <2>b, <2>p, <2>1 DEF At, Claims
  <2>2. Own(x)'
    <3>1. CASE Skips(x) \/ Fails(x)
      BY <3>1 DEF Skips, Fails, At
    <3>2. ASSUME NEW r \in Rows, Finds(x, r) PROVE Own(x)'
      BY <3>2, <2>a DEF Finds, At
    <3>3. ASSUME NEW r \in Rows, Picks(x, r) PROVE Own(x)'
      BY <3>3, <2>a DEF Picks, At, Claims
    <3>4. ASSUME NEW r \in Rows, LinksTo(x, r) PROVE Own(x)'
      <4>1. link'[r] = person[x]
        BY <3>4, Rowed DEF LinksTo
      <4> QED
        BY <3>4, <4>1, <2>a DEF LinksTo, At
    <3>5. ASSUME NEW sources \in SUBSET Rows, MigratesTo(x, sources), proc[x].row \notin sources,
                 \A r \in sources : Claims(person[x], r), At(x, "gather") \/ At(x, "move")
          PROVE  Own(x)'
      BY <3>5, <2>a, <2>p DEF MigratesTo, At, Claims, Binding
    <3>6. ASSUME NEW sources \in SUBSET Rows, Gathers(x, sources) PROVE Own(x)'
      <4>1. \A r \in sources : Claims(person[x], r)
        BY <1>a, <2>a, <3>6, Rowed DEF Gathers, LinkedOnce, Claims
      <4> QED
        BY <3>5, <3>6, <4>1 DEF Gathers
    <3>7. ASSUME NEW r \in Rows, Moves(x, r) PROVE Own(x)'
      <4> DEFINE S == proc[x].sources \ {r}
      <4>1. S \in SUBSET Rows /\ MigratesTo(x, S) /\ At(x, "move")
        BY <3>7, Rowed DEF Moves
      <4>2. proc[x].row \notin S /\ \A q \in S : Claims(person[x], q)
        BY <2>b, <4>1
      <4> HIDE DEF S
      <4> QED
        BY <3>5, <4>1, <4>2
    <3> QED
      BY <1>3, <3>1, <3>2, <3>3, <3>4, <3>6, <3>7 DEF Binds
  <2>3. \A y \in Processes : Own(y)'
    BY <2>1, <2>2
  <2> QED
    BY <2>3 DEF BindsOwn
<1> QED
  BY <1>1, <1>2, <1>3, <1>a, ScheduleKinds

\* A resource of an undisputed person leaves the shop only with her.
LEMMA HomeKeptStep ==
  ASSUME TypeOK, Holds, SavesPromote, Kept, [Next]_vars
  PROVE  HomeKept'
<1>a. LinkedOnce /\ BindsOwn /\ HomeKept
  BY DEF Kept
<1>1. ASSUME UNCHANGED <<schedule, person>> PROVE HomeKept'
  BY <1>1, <1>a DEF HomeKept, Claims, schedule
<1>2. ASSUME NEW x \in Processes, Binds(x) PROVE HomeKept'
  <2>1. SUFFICES ASSUME NEW p \in Persons, Undisputed(p), NEW r \in OldRows, Claims(p, r)', link'[r] = None
                 PROVE  home'[r] = "shop"
    BY DEF HomeKept
  <2>2. r \in Rows /\ Claims(p, r) /\ link[r] \in Persons \cup {None} /\ r # x
    BY <2>1, <1>2, Rowed DEF Claims, Binds
  <2>3. link[r] = None
    <3>1. SUFFICES ASSUME link[r] \in Persons PROVE FALSE
      BY <2>2
    <3>2. Claims(link[r], r)
      BY <1>a, <2>2, <3>1, Rowed DEF LinkedOnce
    <3>3. link[r] = p
      BY <2>1, <2>2, <3>1, <3>2, SameClaim
    <3> QED
      BY <1>2, <1>a, <2>1, <2>2, <3>3, LinkPermanent, Rowed
  <2>4. home[r] = "shop"
    BY <1>a, <2>1, <2>2, <2>3 DEF HomeKept
  <2>5. home'[r] = home[r]
    BY <1>2, <2>2, <2>3, Rowed DEF Binds, Skips, Fails, Finds, Picks, LinksTo, Gathers, Moves, schedule
  <2> QED
    BY <2>4, <2>5
<1> QED
  BY <1>1, <1>2, <1>a, ScheduleKinds DEF Elsewhere

\* Shifts of an undisputed person stay where they were or come to her resource.
LEMMA ShiftsKeptStep ==
  ASSUME TypeOK, Holds, SavesPromote, Kept, [Next]_vars
  PROVE  ShiftsKept'
<1>a. LinkedOnce /\ BindsOwn /\ ShiftsKept
  BY DEF Kept
<1>1. ASSUME UNCHANGED schedule PROVE ShiftsKept'
  BY <1>1, <1>a DEF ShiftsKept, schedule
<1>2. ASSUME NEW x \in Processes, Binds(x) PROVE ShiftsKept'
  <2>1. SUFFICES ASSUME NEW p \in Persons, Undisputed(p), NEW s \in Shifts, KeyOf[RowOf[s]] = p
                 PROVE  at'[s] = RowOf[s] \/ link'[at'[s]] = p
    BY DEF ShiftsKept
  <2>2. at[s] = RowOf[s] \/ link[at[s]] = p
    BY <1>a, <2>1 DEF ShiftsKept
  <2>3. CASE at'[s] = at[s]
    BY <1>2, <1>a, <2>1, <2>2, <2>3, LinkPermanent, Rowed
  <2>4. CASE at'[s] # at[s]
    BY <1>2, <2>1, <2>4, ShiftGoes
  <2> QED
    BY <2>3, <2>4
<1> QED
  BY <1>1, <1>2, <1>a, ScheduleKinds DEF Elsewhere

\* Once nothing is left to migrate, every shift of the person is on her resource.
LEMMA MigratedSettles ==
  ASSUME TypeOK, NEW v \in Visits, NEW sources \in SUBSET Rows, MigratesTo(v, sources),
         proc[v].row \in Rows, link'[proc[v].row] = person[v], person' = person, proc[v].create = TRUE,
         proc[v].mine.role \in Staff, proc[v].mine.tenant = "shop",
         \A s \in Shifts : KeyOf[RowOf[s]] = person[v] => at'[s] = proc[v].row \/ at'[s] \in sources
  PROVE  Settled(person[v])' \/ Settling(v)'
<1>1. CASE sources = {}
  BY <1>1 DEF Settled
<1>2. CASE sources # {}
  BY <1>2 DEF MigratesTo, KeepsAim, Settling, At, Binding
<1> QED
  BY <1>1, <1>2

\* A visit that gathers finds every resource that still has shifts of its person.
LEMMA GatheredAll ==
  ASSUME TypeOK, Holds, Kept, NEW v \in Visits, NEW sources \in SUBSET Rows, Gathers(v, sources),
         Undisputed(person[v]), proc[v].mine.tenant = "shop",
         NEW s \in Shifts, KeyOf[RowOf[s]] = person[v]
  PROVE  at[s] = proc[v].row \/ at[s] \in sources
<1>a. /\ v \in Processes /\ person[v] \in Persons /\ Shop(v) = "shop" /\ At(v, "gather")
      /\ at[s] \in Rows /\ RowOf[s] \in OldRows
  BY Rowed, StaffAssumption DEF Processes, Shop, Gathers
<1>b. proc[v].row \in Rows /\ link[proc[v].row] = person[v] /\ person[v] # None
  BY <1>a, Rowed DEF Kept, BindsOwn, Holds, At
<1>1. CASE link[at[s]] = person[v]
  BY <1>a, <1>b, <1>1 DEF Kept, LinkedOnce
<1>2. CASE link[at[s]] # person[v]
  <2>1. at[s] = RowOf[s] /\ Claims(person[v], at[s])
    BY <1>a, <1>2 DEF Kept, ShiftsKept, Claims
  <2>2. link[at[s]] = None
    <3>1. SUFFICES ASSUME link[at[s]] \in Persons PROVE FALSE
      BY <1>a, Rowed
    <3>2. Claims(link[at[s]], at[s])
      BY <1>a, <3>1, Rowed DEF Kept, LinkedOnce
    <3> QED
      BY <1>2, <1>a, <2>1, <3>1, <3>2, SameClaim
  <2>3. home[at[s]] = "shop"
    BY <1>a, <2>1, <2>2 DEF Kept, HomeKept
  <2> QED
    BY <1>a, <2>1, <2>3 DEF Gathers
<1> QED
  BY <1>1, <1>2

\* A visit that has used the invite settles its person, or fails.
LEMMA JoinedSettleStep ==
  ASSUME TypeOK, Holds, SavesPromote, Kept, [Next]_vars
  PROVE  JoinedSettle'
<1>a. LinkedOnce /\ BindsOwn /\ JoinedSettle /\ joined \subseteq Visits /\ Visits \subseteq Processes
  BY DEF Kept, TypeOK, Processes
<1>1. ASSUME UNCHANGED <<schedule, person, proc, joined>> PROVE JoinedSettle'
  BY <1>1, <1>a DEF JoinedSettle, Settled, Settling, At, schedule
<1>2. ASSUME NEW x \in Processes, Elsewhere(x) PROVE JoinedSettle'
  <2>1. SUFFICES ASSUME NEW v \in joined', Undisputed(person[v]')
                 PROVE  (Settled(person[v]) \/ At(v, "failed") \/ Settling(v))'
    BY DEF JoinedSettle
  <2>2. /\ UNCHANGED <<link, at>> /\ person' = person /\ \A y \in Processes \ {x} : proc'[y] = proc[y]
    BY <1>2 DEF Elsewhere, OthersGo, schedule
  <2>3. CASE Settled(person[v])
    BY <2>2, <2>3 DEF Settled
  <2>4. CASE v \notin joined
    BY <1>2, <2>1, <2>4 DEF Elsewhere, Settling, At, Binding
  <2>5. CASE v \in joined /\ ~Settled(person[v])
    <3>1. At(v, "failed") \/ Settling(v)
      BY <1>a, <2>1, <2>2, <2>5 DEF JoinedSettle
    <3>2. v # x
      BY <1>2, <3>1 DEF Elsewhere, Settling, At
    <3>3. proc'[v] = proc[v]
      BY <1>a, <2>2, <2>5, <3>2
    <3> QED
      BY <2>2, <3>1, <3>3 DEF At, Settling
  <2> QED
    BY <2>3, <2>4, <2>5
<1>3. ASSUME NEW x \in Processes, Binds(x) PROVE JoinedSettle'
  <2>a. /\ joined' = joined /\ person' = person /\ \A y \in Processes \ {x} : proc'[y] = proc[y]
    BY <1>3 DEF Binds, OthersGo
  <2>1. SUFFICES ASSUME NEW v \in joined, Undisputed(person[v]), ~Settled(person[v])
                 PROVE  (Settled(person[v]) \/ At(v, "failed") \/ Settling(v))'
    <3>1. ASSUME NEW v \in joined, Undisputed(person[v]), Settled(person[v]) PROVE Settled(person[v])'
      <4>1. person[v] \in Persons
        BY <1>a, Rowed
      <4>2. ASSUME NEW p \in Persons, Undisputed(p), Settled(p) PROVE Settled(p)'
        BY <1>3, <4>2, SettledStays
      <4> QED
        BY <2>a, <3>1, <4>1, <4>2 DEF Settled
    <3> QED
      BY <2>a, <3>1 DEF JoinedSettle
  <2>b. v \in Visits /\ v \in Processes /\ person[v] \in Persons /\ (At(v, "failed") \/ Settling(v))
    BY <1>a, <2>1, Rowed DEF JoinedSettle
  \* Shifts of the person that another request moves come to her resource.
  <2>2. CASE v # x
    <3>1. proc'[v] = proc[v]
      BY <2>a, <2>b, <2>2
    <3>2. CASE At(v, "failed")
      BY <3>1, <3>2 DEF At
    <3>3. ASSUME Settling(v), At(v, "move"), NEW s \in Shifts, KeyOf[RowOf[s]] = person[v]
          PROVE  at'[s] = proc[v].row \/ at'[s] \in proc[v].sources
      <4>1. CASE at'[s] = at[s]
        BY <3>3, <4>1 DEF Settling
      <4>2. CASE at'[s] # at[s]
        <5>1. proc[x].row \in Rows /\ link[proc[x].row] = person[v] /\ at'[s] = proc[x].row
          BY <1>3, <2>1, <2>b, <3>3, <4>2, ShiftGoes
        <5>2. proc[v].row \in Rows /\ link[proc[v].row] = person[v]
          BY <1>a, <2>1, <2>b, <3>3, Rowed DEF BindsOwn, Holds, At
        <5> QED
          BY <1>a, <2>b, <5>1, <5>2, Rowed DEF LinkedOnce
      <4> QED
        BY <4>1, <4>2
    <3>4. CASE Settling(v)
      BY <2>a, <3>1, <3>3, <3>4 DEF Settling, At
    <3> QED
      BY <2>b, <3>2, <3>4
  <2>3. CASE v = x
    <3>a. /\ Settling(v) /\ proc[v].pc \in Binding /\ proc[v].create = TRUE
          /\ proc[v].mine.role \in Staff /\ proc[v].mine.tenant = "shop"
      <4>1. ~At(v, "failed")
        BY <1>3, <2>3 DEF Binds, Skips, Fails, Finds, Picks, LinksTo, Gathers, Moves, At
      <4> QED
        BY <2>b, <4>1 DEF Settling
    <3>b. Shop(v) = "shop" /\ Shop(v) # None
      BY <2>b, <3>a, StaffAssumption DEF Shop, Shops
    <3>c. (At(v, "gather") \/ At(v, "move")) =>
            proc[v].row \in Rows /\ link[proc[v].row] = person[v] /\ link'[proc[v].row] = person[v]
      <4>1. ASSUME At(v, "gather") \/ At(v, "move")
            PROVE  proc[v].row \in Rows /\ link[proc[v].row] = person[v]
        BY <1>a, <2>1, <2>b, <4>1, Rowed DEF BindsOwn, Holds, At
      <4>2. ASSUME NEW p \in Persons, Undisputed(p), NEW r \in Rows, link[r] = p PROVE link'[r] = p
        BY <1>3, <1>a, <4>2, LinkPermanent
      <4> QED
        BY <2>1, <2>b, <4>1, <4>2
    <3>1. CASE Skips(v)
      BY <3>1, <3>a, <3>b DEF Skips, KeepsAim, Settling, At, Binding
    <3>2. CASE Fails(v)
      BY <3>2 DEF Fails, At
    <3>3. CASE \E r \in Rows : Finds(v, r) \/ Picks(v, r) \/ LinksTo(v, r)
      BY <3>3, <3>a DEF Finds, Picks, LinksTo, KeepsAim, Settling, At, Binding
    <3>4. ASSUME NEW sources \in SUBSET Rows, Gathers(v, sources)
          PROVE  (Settled(person[v]) \/ Settling(v))'
      <4>1. at' = at /\ MigratesTo(v, sources) /\ At(v, "gather")
        BY <3>4 DEF Gathers, schedule
      <4>2. \A s \in Shifts : KeyOf[RowOf[s]] = person[v] => at'[s] = proc[v].row \/ at'[s] \in sources
        BY <2>1, <2>b, <3>4, <3>a, <4>1, GatheredAll
      <4> QED
        BY <2>a, <2>b, <3>a, <3>c, <4>1, <4>2, MigratedSettles
    <3>5. ASSUME NEW r \in Rows, Moves(v, r) PROVE (Settled(person[v]) \/ Settling(v))'
      <4> DEFINE S == proc[v].sources \ {r}
      <4>1. S \in SUBSET Rows /\ MigratesTo(v, S) /\ At(v, "move")
        BY <2>b, <3>5, Rowed DEF Moves
      <4>2. \A s \in Shifts : KeyOf[RowOf[s]] = person[v] => at'[s] = proc[v].row \/ at'[s] \in S
        BY <3>5, <3>a, <4>1 DEF Moves, Settling
      <4> HIDE DEF S
      <4> QED
        BY <2>a, <2>b, <3>a, <3>c, <4>1, <4>2, MigratedSettles
    <3> QED
      BY <1>3, <2>3, <3>1, <3>2, <3>3, <3>4, <3>5 DEF Binds
  <2> QED
    BY <2>2, <2>3
<1> QED
  BY <1>1, <1>2, <1>3, <1>a, ScheduleKinds

---------------------------------------------------------------------------
(* The theorems *)

LEMMA InitIInv == ASSUME Init PROVE IInv
<1> USE StaffAssumption DEF Init
<1>1. TypeOK
  <2>1. Idle \in Proc
    BY DEF Idle, Proc, Pcs, RoleNames
  <2>2. /\ user \in [Persons -> User \cup {None}] /\ person \in [Processes -> Persons]
        /\ proc \in [Processes -> Proc] /\ joined \subseteq Visits /\ mixed \subseteq Persons
    <3>1. [role |-> "CONSUMER", staff |-> FALSE, tenant |-> None, active |-> FALSE] \in User
      BY DEF User, RoleNames
    <3>2. {None, [role |-> "CONSUMER", staff |-> FALSE, tenant |-> None, active |-> FALSE]}
            \subseteq User \cup {None}
      BY <3>1
    <3>3. user \in [Persons -> User \cup {None}]
      BY <3>2
    <3> QED
      BY <2>1, <3>3
  <2>3. /\ link \in [Rows -> Persons \cup {None}] /\ home \in [Rows -> Shops \cup {None}]
        /\ at \in [Shifts -> Rows]
    BY DEF Rows, Shops
  <2>4. invite \in [used : 0 .. MaxUses, active : BOOLEAN]
    OBVIOUS
  <2> QED
    BY <2>2, <2>3, <2>4 DEF TypeOK
<1>2. Holds /\ SavesPromote /\ LoneVisit /\ CopyFresh
  BY DEF Holds, SavesPromote, LoneVisit, CopyFresh, Idle, Running, At, Binding, Processes
<1>3. UsesCounted
  BY FS_EmptySet DEF UsesCounted
<1>4. JoinedBinds /\ CopyKept /\ KnownMember /\ MembersKept
  BY DEF JoinedBinds, CopyKept, KnownMember, MembersKept
<1>5. Kept
  <2>1. None \notin Persons /\ \A r \in Rows : link[r] = None
    OBVIOUS
  <2>2. /\ \A x \in Processes : proc[x].pc = "idle"
        /\ \A r \in OldRows : home[r] = "shop"
        /\ \A s \in Shifts : at[s] = RowOf[s]
    BY DEF Rows, Idle
  <2>3. LinkedOnce /\ BindsOwn
    BY <2>1, <2>2 DEF LinkedOnce, BindsOwn, At
  <2>4. HomeKept /\ ShiftsKept /\ JoinedSettle
    BY <2>2 DEF HomeKept, ShiftsKept, JoinedSettle
  <2> QED
    BY <2>3, <2>4 DEF Kept
<1> QED
  BY <1>1, <1>2, <1>3, <1>4, <1>5 DEF IInv

\* The invariant that carries the theorems below.
THEOREM Invariance == Spec => []IInv
<1>1. IInv /\ [Next]_vars => IInv'
  BY TypeOKStep, HoldsStep, SavesPromoteStep, UsesCountedStep, JoinedBindsStep, LoneVisitStep,
     CopyFreshStep, CopyKeptStep, KnownMemberStep, MembersKeptStep,
     LinkedOnceStep, BindsOwnStep, HomeKeptStep, ShiftsKeptStep, JoinedSettleStep DEF IInv, Kept
<1> QED
  BY InitIInv, <1>1, PTL DEF Spec

\* Who joined by an invite stays staff of the shop, unless requests of hers ran at
\* once (tenants/adapters.py, tenants/views.py), for any number of sign-ins and saves.
THEOREM MembershipStaysHolds == Spec => []MembershipStays
  BY Invariance, MembersStay, PTL DEF IInv

\* An invite admits only while it is available, and every use is counted once
\* (adapters.py:260-297), for any number of sign-ins that race for it.
THEOREM InviteHonouredHolds == Spec => InviteHonoured
<1>1. ASSUME IInv, [Next]_vars, joined' # joined
      PROVE  Available /\ Cardinality(joined') = invite'.used /\ invite'.used <= MaxUses
  <2>1. TypeOK /\ Holds /\ SavesPromote
    BY <1>1 DEF IInv
  <2>2. PICK v \in Visits, new \in User : AppliedTo(v, new)
    BY <1>1, <2>1, StepKinds DEF Began, SignedUp, Turned, LastBind, SyncedTo, Normalised, Opened,
       WrittenTo, Bound, Closed, Passed, Quiet
  <2>3. UsesCounted'
    BY <1>1, UsesCountedStep
  <2>4. invite'.used = invite.used + 1 /\ Available /\ invite.used \in Nat
    BY <2>1, <2>2 DEF AppliedTo, TypeOK
  <2> QED
    BY <2>3, <2>4, StaffAssumption DEF UsesCounted, Available
<1>2. IInv /\ [Next]_vars =>
        [joined' # joined =>
           /\ Available
           /\ Cardinality(joined') = invite'.used /\ invite'.used <= MaxUses]_vars
  BY <1>1
<1> QED
  BY Invariance, <1>2, PTL DEF Spec, InviteHonoured

\* A sign-in by invite that ends well leaves its person one resource, with every
\* shift that was kept for her (binding_service.py:74-223), for any number of
\* sign-ins, saves, resources and shifts.
THEOREM OwnScheduleHolds == Spec => []OwnSchedule
<1>1. ASSUME IInv PROVE OwnSchedule
  <2>1. SUFFICES ASSUME NEW v \in joined, At(v, "done"), Undisputed(person[v])
                 PROVE  \E r \in Rows :
                          /\ Linked(person[v]) = {r}
                          /\ \A s \in Shifts : KeyOf[RowOf[s]] = person[v] => at[s] = r
    BY DEF OwnSchedule
  <2>2. /\ TypeOK /\ LinkedOnce /\ JoinedSettle /\ v \in Processes
    BY <1>1, <2>1 DEF IInv, Kept, TypeOK, Processes
  <2>3. Settled(person[v])
    BY <2>1, <2>2 DEF JoinedSettle, Settling, At, Binding
  <2>4. PICK r \in Rows : /\ link[r] = person[v]
                         /\ \A s \in Shifts : KeyOf[RowOf[s]] = person[v] => at[s] = r
    BY <2>3 DEF Settled
  <2>5. Linked(person[v]) = {r}
    BY <2>2, <2>4, Rowed DEF LinkedOnce, Linked
  <2> QED
    BY <2>4, <2>5
<1> QED
  BY Invariance, <1>1, PTL

=============================================================================
