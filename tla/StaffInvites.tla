---------------------------- MODULE StaffInvites ----------------------------
(***************************************************************************)
(* How a person becomes staff of a shop at System B: through an invite     *)
(* link during a Discord sign-in (tenants/adapters.py), beside the role    *)
(* System A hints at (tenants/views.py, adapters.py), and the resource     *)
(* that is bound to her, with the schedule older resources hold for her    *)
(* (resources/services/binding_service.py). Sign-ins and the owner's staff *)
(* page run at once; only the use of an invite is one transaction. Every   *)
(* other action is one statement, or statements nobody can come between.   *)
(***************************************************************************)
EXTENDS FiniteSets, Integers

CONSTANTS
  Persons,
  Visits,    \* sign-ins
  Saves,     \* submissions of the owner's staff page
  Saved,     \* whom the owner's page is about
  OldRows,   \* resources that exist already
  KeyOf,     \* the person whose Discord identity such a row carries, or None
  MailOf,    \* the person whose email or name it carries, or None
  Shifts,
  RowOf,     \* the row a shift belongs to at first
  Hints,     \* roles System A may hint at
  MaxUses,   \* people an invite admits
  None

Processes == Visits \cup Saves
RoleNames == {"ADMIN", "STAFF", "CONSUMER"}
Rows   == OldRows \cup Processes
Staff  == {"ADMIN", "STAFF"}
Shops  == {"shop", "public"}
User   == [role : RoleNames, staff : BOOLEAN, tenant : Shops \cup {None}, active : BOOLEAN]

ASSUME StaffAssumption ==
  /\ Saved \subseteq Persons /\ Visits \cap Saves = {} /\ OldRows \cap Processes = {}
  /\ {KeyOf, MailOf} \subseteq [OldRows -> Persons \cup {None}]
  /\ RowOf \in [Shifts -> OldRows]
  /\ Hints \subseteq RoleNames
  /\ MaxUses \in Nat \ {0}
  /\ None \notin Persons \cup OldRows \cup Processes \cup RoleNames \cup Shops \cup User

VARIABLES
  invite,  \* used_count of the shop's invite, and whether it is open
  user,    \* row of each person at System B, or None
  link,    \* linked_user of each resource; a process names the row it creates
  home,    \* its shop; a resource that does not exist has none
  at,      \* the resource of each shift
  person,  \* whom each sign-in or save is about
  proc,    \* what each sign-in or save is doing
  joined,  \* visits that used the invite
  mixed    \* persons two of whose requests ran at once

schedule == <<link, home, at>>
vars == <<invite, user, schedule, person, proc, joined, mixed>>

\* SaaSUser's defaults.
NewUser == [role |-> "STAFF", staff |-> FALSE, tenant |-> None, active |-> TRUE]

Idle == [pc |-> "idle", mine |-> None, token |-> FALSE, public |-> FALSE, hint |-> None,
         fresh |-> FALSE, create |-> FALSE, row |-> None, sources |-> {}, then |-> "done"]

At(x, pc) == proc[x].pc = pc
Running(x) == ~At(x, "idle") /\ ~At(x, "done") /\ ~At(x, "failed")
\* What a request that has ended knew is forgotten.
Becomes(x, p) ==
  proc' = [proc EXCEPT ![x] = IF p.pc \in {"done", "failed"} THEN [Idle EXCEPT !.pc = p.pc] ELSE p]
To(x, pc) == Becomes(x, [proc[x] EXCEPT !.pc = pc])

\* save(update_fields=..): the columns in which new differs from the copy in memory.
SaveChanged(p, old, new) ==
  user' = [user EXCEPT ![p] = [f \in DOMAIN old |-> IF new[f] # old[f] THEN new[f] ELSE @[f]]]

Available == invite.active /\ invite.used < MaxUses

\* A request begins; overlapping requests of one person are remembered.
Starts(x, record) ==
  /\ Becomes(x, record)
  /\ mixed' = IF \E y \in Visits \ {x} : person[y] = person[x] /\ Running(y)
              THEN mixed \cup {person[x]} ELSE mixed

---------------------------------------------------------------------------
(* Discord has answered. The session may hold an invite token, the mark of *)
(* a sign-in for System A with its role hint, or both.                     *)

\* pre_social_login: an invite that is not available any more is forgotten, and
\* the other marks with it, which only a new account misses.
Arrive(v, token, public, hint) ==
  LET p == person[v]
      known   == user[p] # None
      invited == token /\ Available
      marked  == public /\ (known \/ (token => invited))
  IN /\ At(v, "idle") /\ (public \/ hint = "CONSUMER")
     /\ user' = IF known THEN [user EXCEPT ![p].active = TRUE] ELSE user
     /\ Starts(v, [Idle EXCEPT
          !.mine = user'[p], !.token = invited, !.public = marked,
          !.hint = IF marked THEN hint ELSE "CONSUMER", !.fresh = ~known,
          !.pc = CASE known /\ invited -> "apply"
                   [] known /\ ~invited /\ marked -> "sync"
                   [] ~known /\ (invited \/ marked) -> "signup"
                   [] OTHER -> "done"])
     /\ UNCHANGED <<invite, schedule, joined, person>>

\* save_user creates the account; a Discord account belongs to one user.
SignUp(v) ==
  LET p == person[v]
  IN /\ At(v, "signup")
     /\ IF user[p] # None
          THEN To(v, "failed") /\ UNCHANGED user
          ELSE /\ user' = [user EXCEPT ![p] = NewUser]
               /\ Becomes(v, [proc[v] EXCEPT
                    !.mine = NewUser, !.pc = IF proc[v].public THEN "sync" ELSE "apply"])
     /\ UNCHANGED <<invite, schedule, joined, mixed, person>>

\* is_open_for_signup: without the mark, an invite that closed meanwhile is no way in.
TurnAway(v) ==
  /\ At(v, "signup") /\ ~proc[v].public /\ ~Available
  /\ To(v, "failed")
  /\ UNCHANGED <<invite, user, schedule, joined, mixed, person>>

\* The evidence that keeps a role: _should_preserve_staff_or_admin.
Privileged(u) == u.role \in Staff /\ (u.staff \/ u.tenant # None)

\* Wrong on purpose: the hint is taken as it comes.
TakeHint(mine, hint) ==
  [mine EXCEPT !.role = hint, !.staff = hint \in Staff,
               !.tenant = IF hint = "CONSUMER" THEN None ELSE IF @ = None THEN "public" ELSE @]

\* The role a sign-in for System A leaves: the hint, unless it is CONSUMER and
\* there is evidence of a privilege.
Synced(mine, hint) ==
  LET role == IF hint = "CONSUMER" /\ Privileged(mine) THEN mine.role ELSE hint
  IN [mine EXCEPT !.role = role, !.staff = role \in Staff,
                  !.tenant = IF role = "CONSUMER" THEN None ELSE IF @ = None THEN "public" ELSE @]

\* _sync_public_sso_role; staff are bound to a resource that exists.
Sync(v) ==
  LET old  == proc[v].mine
      new  == Synced(old, proc[v].hint)
      next == IF proc[v].fresh THEN "apply" ELSE "done"
  IN /\ At(v, "sync")
     /\ SaveChanged(person[v], old, new)
     /\ Becomes(v, [proc[v] EXCEPT !.mine = new, !.then = next, !.create = FALSE,
                                   !.pc = IF new.role \in Staff THEN "find" ELSE next])
     /\ UNCHANGED <<invite, schedule, joined, mixed, person>>

\* Wrong on purpose: the invite is not looked at again under the lock.
ApplyUnchecked(v) ==
  LET new == [role |-> "STAFF", staff |-> TRUE, tenant |-> "shop", active |-> TRUE]
  IN /\ At(v, "apply") /\ proc[v].token
     /\ SaveChanged(person[v], proc[v].mine, new)
     /\ invite' = [used |-> invite.used + 1, active |-> invite.used + 1 < MaxUses]
     /\ joined' = joined \cup {v}
     /\ Becomes(v, [proc[v] EXCEPT !.mine = new, !.create = TRUE, !.pc = "find",
                                   !.then = IF proc[v].fresh THEN "final" ELSE "done"])
     /\ UNCHANGED <<schedule, mixed, person>>

\* _apply_staff_invite, under the lock of the invite's row.
Apply(v) ==
  LET old == proc[v].mine
      new == [role |-> "STAFF", staff |-> TRUE, tenant |-> "shop", active |-> TRUE]
  IN /\ At(v, "apply") /\ proc[v].token /\ Available
     /\ ~(old.tenant \notin {None, "shop"} /\ old.role \in Staff)
     /\ SaveChanged(person[v], old, new)
     /\ invite' = [used |-> invite.used + 1, active |-> invite.used + 1 < MaxUses]
     /\ joined' = joined \cup {v}
     /\ Becomes(v, [proc[v] EXCEPT !.mine = new, !.create = TRUE, !.pc = "find",
                                   !.then = IF proc[v].fresh THEN "final" ELSE "done"])
     /\ UNCHANGED <<schedule, mixed, person>>

\* No invite, or used up, closed or expired since: the session's marks are dropped
\* and the sign-in goes on. Staff of another shop are turned away.
PassInvite(v) ==
  LET mine == proc[v].mine
      none == ~proc[v].token \/ ~Available
      elsewhere == mine.tenant \notin {None, "shop"} /\ mine.role \in Staff
  IN /\ At(v, "apply") /\ (none \/ elsewhere)
     /\ To(v, CASE ~none -> "failed"
                 [] none /\ proc[v].fresh -> "final"
                 [] none /\ ~proc[v].fresh /\ proc[v].public -> "sync"
                 [] OTHER -> "done")
     /\ UNCHANGED <<invite, user, schedule, joined, mixed, person>>

\* The end of save_user binds once more.
Final(v) ==
  /\ At(v, "final")
  /\ Becomes(v, [proc[v] EXCEPT !.pc = "find", !.create = ~proc[v].public, !.then = "done"])
  /\ UNCHANGED <<invite, user, schedule, joined, mixed, person>>

---------------------------------------------------------------------------
(* sso_authorize with somebody signed in: request.user is loaded ...       *)

Authorize(v, hint) ==
  LET p == person[v]
  IN /\ At(v, "idle") /\ user[p] # None
     /\ Starts(v, [Idle EXCEPT !.pc = "normalise", !.mine = user[p], !.hint = hint])
     /\ UNCHANGED <<invite, user, schedule, joined, person>>

\* ... and normalised if the hint is CONSUMER; a privilege without a shop gets one.
Normalise(v) ==
  LET old  == proc[v].mine
      new  == IF Privileged(old) THEN [old EXCEPT !.tenant = IF @ = None THEN "public" ELSE @]
              ELSE [old EXCEPT !.role = "CONSUMER", !.staff = FALSE, !.tenant = None]
  IN /\ At(v, "normalise")
     /\ IF proc[v].hint = "CONSUMER" THEN SaveChanged(person[v], old, new) ELSE UNCHANGED user
     /\ To(v, "done")
     /\ UNCHANGED <<invite, schedule, joined, mixed, person>>

---------------------------------------------------------------------------
(* ensure_staff_resource_binding and migrate_staff_schedule_data *)

Shop(x) == IF x \in Saves THEN "shop" ELSE proc[x].mine.tenant

Linked(p)       == {r \in Rows : link[r] = p}
\* A resource carries the person's Discord identity: _identity_keys, _discord_uid.
Carries(r, p)   == r \in OldRows /\ KeyOf[r] = p
Reusable(x, of) == {r \in OldRows : home[r] = Shop(x) /\ link[r] = None /\ of[r] = person[x]}

\* The row linked to the person, else an unlinked one that carries her Discord
\* identity, else her email or name, else a new one if the caller wants that.
FindRow(x) ==
  LET keyed  == Reusable(x, KeyOf)
      others == IF keyed # {} THEN keyed ELSE Reusable(x, MailOf)
      linked == Linked(person[x])
      go(pc, row) == Becomes(x, [proc[x] EXCEPT !.pc = pc, !.row = row])
  IN /\ At(x, "find")
     /\ IF proc[x].mine.role \notin Staff \/ Shop(x) = None
          THEN To(x, proc[x].then) /\ UNCHANGED home
          ELSE \/ \E r \in linked : go("gather", r) /\ home' = [home EXCEPT ![r] = Shop(x)]
               \/ linked = {} /\ (\E r \in others : go("link", r)) /\ UNCHANGED home
               \/ /\ linked \cup others = {}
                  /\ go(IF proc[x].create THEN "create" ELSE proc[x].then, None)
                  /\ UNCHANGED home
     /\ UNCHANGED <<invite, user, link, at, joined, mixed, person>>

\* A person is linked to one resource: the database refuses another.
LinkRow(x) ==
  LET p == person[x]
      r == proc[x].row
  IN /\ At(x, "link")
     /\ IF Linked(p) \ {r} # {}
          THEN To(x, "failed") /\ UNCHANGED link
          ELSE To(x, "gather") /\ link' = [link EXCEPT ![r] = p]
     /\ UNCHANGED <<invite, user, home, at, joined, mixed, person>>

CreateRow(x) ==
  LET p == person[x]
  IN /\ At(x, "create")
     /\ IF Linked(p) # {}
          THEN To(x, "failed") /\ UNCHANGED <<link, home>>
          ELSE /\ Becomes(x, [proc[x] EXCEPT !.pc = "gather", !.row = x])
               /\ link' = [link EXCEPT ![x] = p]
               /\ home' = [home EXCEPT ![x] = Shop(x)]
     /\ UNCHANGED <<invite, user, at, joined, mixed, person>>

\* What is left to migrate; nothing is the end of the binding.
Migrate(x, row, sources) ==
  Becomes(x, [proc[x] EXCEPT
    !.row = IF sources = {} THEN None ELSE row, !.sources = sources,
    !.pc = IF sources = {} THEN proc[x].then ELSE "move"])

\* Wrong on purpose: only resources linked to her are migrated.
GatherLinked(x) ==
  /\ At(x, "gather")
  /\ Migrate(x, proc[x].row, {r \in Rows \ {proc[x].row} : home[r] = Shop(x) /\ link[r] = person[x]})
  /\ UNCHANGED <<invite, user, schedule, joined, mixed, person>>

\* The other resources of the shop that are hers, or carry her Discord identity,
\* or her email or name and no link.
Gather(x) ==
  LET p == person[x]
      hers(r) == \/ link[r] = p
                 \/ Carries(r, p)
                 \/ r \in OldRows /\ link[r] = None /\ MailOf[r] = p
  IN /\ At(x, "gather")
     /\ Migrate(x, proc[x].row, {r \in Rows \ {proc[x].row} : home[r] = Shop(x) /\ hers(r)})
     /\ UNCHANGED <<invite, user, schedule, joined, mixed, person>>

\* The shifts of one source after the other, and at last its link.
Move(x) ==
  /\ At(x, "move")
  /\ \E r \in proc[x].sources :
       /\ at' = [s \in Shifts |-> IF at[s] = r THEN proc[x].row ELSE at[s]]
       /\ link' = [link EXCEPT ![r] = IF @ = person[x] THEN None ELSE @]
       /\ Migrate(x, proc[x].row, proc[x].sources \ {r})
  /\ UNCHANGED <<invite, user, home, joined, mixed, person>>

---------------------------------------------------------------------------
(* The owner *)

\* _save_staff_profiles_batch, one row: people of the shop and of none. An
\* empty role leaves the role as it is.
SaveStaff(o, role) ==
  LET mine == user[person[o]]
  IN /\ At(o, "idle") /\ mine # None /\ mine.tenant \in {None, "shop"}
     /\ Becomes(o, [Idle EXCEPT
          !.mine = mine, !.hint = IF role = None THEN mine.role ELSE role, !.create = TRUE,
          !.then = "write", !.pc = IF mine.role \in Staff \/ role \in Staff THEN "find" ELSE "write"])
     /\ UNCHANGED <<invite, user, schedule, joined, mixed, person>>

WriteStaff(o) ==
  LET old == proc[o].mine
      new == [old EXCEPT !.tenant = "shop", !.role = proc[o].hint]
  IN /\ At(o, "write")
     /\ SaveChanged(person[o], old, new)
     /\ Becomes(o, [proc[o] EXCEPT !.mine = new, !.then = "done", !.pc = "find"])
     /\ UNCHANGED <<invite, schedule, joined, mixed, person>>

\* The owner closes the invite, or its expires_at passes.
Deactivate ==
  /\ invite.active
  /\ invite' = [invite EXCEPT !.active = FALSE]
  /\ UNCHANGED <<user, schedule, proc, joined, mixed, person>>

Init ==
  /\ invite = [used |-> 0, active |-> TRUE]
  /\ user \in [Persons -> {None,
       [role |-> "CONSUMER", staff |-> FALSE, tenant |-> None, active |-> FALSE]}]
  /\ link = [r \in Rows |-> None]
  /\ home = [r \in Rows |-> IF r \in OldRows THEN "shop" ELSE None]
  /\ at = RowOf
  /\ person \in [Processes -> Persons] /\ \A o \in Saves : person[o] \in Saved
  /\ proc = [x \in Processes |-> Idle]
  /\ joined = {} /\ mixed = {}

Bind(x) == FindRow(x) \/ LinkRow(x) \/ CreateRow(x) \/ Gather(x) \/ Move(x)

Next ==
  \/ \E v \in Visits :
       \/ \E token, public \in BOOLEAN, hint \in Hints : Arrive(v, token, public, hint)
       \/ SignUp(v) \/ TurnAway(v) \/ Sync(v) \/ Apply(v) \/ PassInvite(v) \/ Final(v)
       \/ \E hint \in Hints : Authorize(v, hint)
       \/ Normalise(v)
  \/ \E o \in Saves : (\E role \in Staff \cup {None} : SaveStaff(o, role)) \/ WriteStaff(o)
  \/ \E x \in Processes : Bind(x)
  \/ Deactivate

Spec == Init /\ [][Next]_vars
---------------------------------------------------------------------------
Pcs == {"idle", "apply", "sync", "signup", "final", "normalise", "find", "link", "create",
        "gather", "move", "write", "done", "failed"}
Proc == [pc : Pcs, mine : User \cup {None}, token : BOOLEAN, public : BOOLEAN,
         hint : RoleNames \cup {None}, fresh : BOOLEAN, create : BOOLEAN, row : Rows \cup {None},
         sources : SUBSET Rows, then : {"apply", "final", "write", "done"}]

TypeOK ==
  /\ invite \in [used : 0 .. MaxUses, active : BOOLEAN]
  /\ user \in [Persons -> User \cup {None}]
  /\ link \in [Rows -> Persons \cup {None}]
  /\ home \in [Rows -> Shops \cup {None}]
  /\ at \in [Shifts -> Rows]
  /\ person \in [Processes -> Persons]
  /\ proc \in [Processes -> Proc]
  /\ joined \subseteq Visits /\ mixed \subseteq Persons

\* Nobody joins by an invite that is used up, closed by the owner or expired at
\* that moment, and every use is counted once, however many sign-ins race for it
\* (adapters.py:260-297 checks once before the lock and once under it).
InviteHonoured ==
  [][joined' # joined =>
       /\ Available
       /\ Cardinality(joined') = invite'.used /\ invite'.used <= MaxUses]_vars

\* Who joined by an invite stays staff of the shop through later sign-ins and visits
\* from System A that think she is a customer, and through the owner's saves; only
\* requests of hers that ran at once may undo it, with copies of the user read before.
MembershipStays ==
  \A v \in joined :
    LET u == user[person[v]]
    IN person[v] \in mixed \/ (u.tenant = "shop" /\ u.role \in Staff /\ u.staff)

\* No resource that carries the person's identity, email or name carries another's:
\* otherwise two bindings at once may take it from each other, as the link is
\* written whatever it has become since it was read (binding_service.py:153-190).
Undisputed(p) ==
  \A r \in OldRows : p \in {KeyOf[r], MailOf[r]} => {KeyOf[r], MailOf[r]} \subseteq {p, None}

\* When a sign-in by invite has ended well, the person has one resource, and every
\* shift that was kept for her elsewhere is on it, although the owner's saves and
\* her other sign-ins bind and migrate at the same time (binding_service.py:74-223).
OwnSchedule ==
  \A v \in joined : At(v, "done") /\ Undisputed(person[v]) =>
    \E r \in Rows :
      /\ Linked(person[v]) = {r}
      /\ \A s \in Shifts : KeyOf[RowOf[s]] = person[v] => at[s] = r

=============================================================================
