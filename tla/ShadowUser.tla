----------------------------- MODULE ShadowUser -----------------------------
(***************************************************************************)
(* One user of System B and the shadow System A keeps of it, a row of its  *)
(* own (accounts/views.py). System B decides the role, though a sign-in    *)
(* may tell it the one System A has; either side may set the email.        *)
(* Threads of System A's one process read, call and write in statements of *)
(* their own and share a cache of what System B last said.                 *)
(***************************************************************************)
EXTENDS Integers

CONSTANTS
  Threads,   \* requests System A serves at once
  Readers,   \* those of them in which the user may look at a page
  Emails,    \* addresses
  NoEmail,   \* the empty address
  Roles,     \* roles this instance gives, a subset of RoleNames
  CacheLife, \* ticks an identity stays cached (20 seconds)
  MaxChanges, \* bound on sign-ins, edits and role changes; page views have none
  MaxFailures, \* bound on failed calls
  None

RoleNames == {"ADMIN", "STAFF", "CONSUMER"}

ASSUME ShadowAssumption ==
  /\ Readers \subseteq Threads /\ Roles \subseteq RoleNames /\ Roles # {}
  /\ CacheLife \in Nat \ {0} /\ {MaxChanges, MaxFailures} \subseteq Nat
  /\ NoEmail \notin Emails

VARIABLES
  remote,  \* System B's row: role and email
  row,     \* System A's row
  cache,   \* the cached identity, or None
  life,    \* ticks the cache has left
  late,    \* PATCH requests nobody waits for any more
  thread,  \* what each request is doing
  changes, \* sign-ins, edits and role changes so far
  failures \* calls of System B that failed so far

vars == <<remote, row, cache, life, late, thread, changes, failures>>

Address  == Emails \cup {NoEmail}
Identity == [role : RoleNames, email : Address]
Row      == [role : RoleNames, staff : BOOLEAN, cast : BOOLEAN, super : BOOLEAN, email : Address]
Patch    == [field : {"role", "email"}, to : RoleNames \cup Address]

\* The flags a role stands for at System A; only an administrator stays superuser.
Ranked(r, role) ==
  [r EXCEPT !.role = role, !.staff = role = "ADMIN", !.cast = role \in {"ADMIN", "STAFF"},
            !.super = @ /\ role = "ADMIN"]

\* What IntegrationIdentityView.patch makes of the row.
Patched(id, p) == IF p.field = "role" THEN [id EXCEPT !.role = p.to] ELSE [id EXCEPT !.email = p.to]

\* save(update_fields=..): only the columns in which new differs from old.
SaveChanged(old, new) == row' = [f \in DOMAIN row |-> IF new[f] # old[f] THEN new[f] ELSE row[f]]

Idle == [pc |-> "idle", mine |-> None, got |-> None, patch |-> None, then |-> "idle",
         found |-> None]

At(t, pc)  == thread[t].pc = pc
To(t, pc)  == thread' = [thread EXCEPT ![t].pc = pc]
Finish(t)  == thread' = [thread EXCEPT ![t] = Idle]

Fail  == failures < MaxFailures /\ failures' = failures + 1
Spend == changes < MaxChanges /\ changes' = changes + 1

---------------------------------------------------------------------------
(* Requests arrive: request.user, or the row to change, is loaded. *)

Arrive(t, pc, patch) ==
  /\ At(t, "idle")
  /\ thread' = [thread EXCEPT ![t] = [Idle EXCEPT !.pc = pc, !.mine = row, !.patch = patch]]
  /\ UNCHANGED <<remote, row, cache, life, late, failures>>

\* A page behind _is_local_cast_user or _is_local_admin_user.
VisitPage(t) == t \in Readers /\ Arrive(t, "refresh", None) /\ UNCHANGED changes

SubmitProfile(t, e) == Arrive(t, "saveForm", [field |-> "email", to |-> e]) /\ Spend

UpdateRole(t, r) == Arrive(t, "patch", [field |-> "role", to |-> r]) /\ Spend

---------------------------------------------------------------------------
(* A sign-in through System B (module SsoLogin), which takes its user's hint *)

\* _derive_sso_role_hint
Hint(r) ==
  IF r.role = "ADMIN" \/ (r.super /\ ~r.cast) THEN "ADMIN"
  ELSE IF r.cast THEN "STAFF" ELSE r.role

\* sso_login signs out who is signed in, after taking the hint.
StartSignIn(t, signedIn) ==
  /\ At(t, "idle") /\ Spend
  /\ thread' = [thread EXCEPT ![t] =
       [Idle EXCEPT !.pc = "discord",
                    !.patch = [field |-> "role",
                               to |-> IF signedIn THEN Hint(row) ELSE "CONSUMER"]]]
  /\ UNCHANGED <<remote, row, cache, life, late, failures>>

\* The user signs in at Discord, or gives up.  System B takes the hint, unless
\* it would make a customer of who is more (and so has a shop there).
SignInAtB(t) ==
  LET hint == thread[t].patch.to
      keep == hint = "CONSUMER" /\ remote.role # "CONSUMER"
  IN /\ At(t, "discord")
     /\ \/ Finish(t) /\ UNCHANGED remote
        \/ /\ remote' = [remote EXCEPT !.role = IF keep THEN @ ELSE hint]
           /\ To(t, "code")
     /\ UNCHANGED <<row, cache, life, late, changes, failures>>

\* The exchange answers with the identity.
Exchange(t) ==
  /\ At(t, "code")
  /\ thread' = [thread EXCEPT ![t] = [Idle EXCEPT !.pc = "find", !.got = remote]]
  /\ UNCHANGED <<remote, row, cache, life, late, changes, failures>>

---------------------------------------------------------------------------
(* PATCH /identity *)

PatchArrives(t) ==
  /\ At(t, "patch")
  /\ remote' = Patched(remote, thread[t].patch)
  /\ thread' = [thread EXCEPT ![t].pc = "patched",
                              ![t].got = IF thread[t].patch.field = "role" THEN remote' ELSE @]
  /\ UNCHANGED <<row, cache, life, late, changes, failures>>

\* An error or a timeout: the request is lost, done already, or done later.
PatchFails(t) ==
  /\ At(t, "patch") \/ At(t, "patched")
  /\ Fail
  /\ \/ UNCHANGED late
     \/ At(t, "patch") /\ late' = late \cup {thread[t].patch}
  /\ IF thread[t].patch.field = "role" THEN Finish(t) ELSE To(t, thread[t].then)
  /\ UNCHANGED <<remote, row, cache, life, changes>>

PatchArrivesLate ==
  \E p \in late :
    /\ remote' = Patched(remote, p)
    /\ late' = late \ {p}
    /\ UNCHANGED <<row, cache, life, thread, changes, failures>>

\* _push_email_to_system_b forgets what was cached.
PushAnswered(t) ==
  /\ At(t, "patched") /\ thread[t].patch.field = "email"
  /\ cache' = None /\ life' = 0
  /\ To(t, thread[t].then)
  /\ UNCHANGED <<remote, row, late, changes, failures>>

\* admin_dashboard goes on with the identity System B answered.
RoleAnswered(t) ==
  /\ At(t, "patched") /\ thread[t].patch.field = "role"
  /\ To(t, "find")
  /\ UNCHANGED <<remote, row, cache, life, late, changes, failures>>

---------------------------------------------------------------------------
(* ProfileView.form_valid *)

\* The form saves every column of the row as it was loaded.
SaveForm(t) ==
  LET new == [thread[t].mine EXCEPT !.email = thread[t].patch.to]
  IN /\ At(t, "saveForm")
     /\ row' = new
     /\ thread' = [thread EXCEPT ![t].pc = "patch", ![t].mine = new, ![t].then = "refresh"]
     /\ UNCHANGED <<remote, cache, life, late, changes, failures>>

---------------------------------------------------------------------------
(* _refresh_shadow_role_from_system_b *)

\* Wrong on purpose: using the cache prolongs its life.
UseCacheAgain(t) ==
  /\ At(t, "refresh") /\ cache # None
  /\ thread' = [thread EXCEPT ![t].pc = "compare", ![t].got = cache]
  /\ life' = CacheLife
  /\ UNCHANGED <<remote, row, cache, late, changes, failures>>

UseCache(t) ==
  /\ At(t, "refresh") /\ cache # None
  /\ thread' = [thread EXCEPT ![t].pc = "compare", ![t].got = cache]
  /\ UNCHANGED <<remote, row, cache, life, late, changes, failures>>

Ask(t) ==
  /\ At(t, "refresh") /\ cache = None
  /\ thread' = [thread EXCEPT ![t].pc = "asked", ![t].got = remote]
  /\ UNCHANGED <<remote, row, cache, life, late, changes, failures>>

AskFails(t) ==
  /\ At(t, "asked")
  /\ Fail
  /\ To(t, "gate")
  /\ UNCHANGED <<remote, row, cache, life, late, changes>>

Remember(id) == cache' = id /\ life' = CacheLife

Answered(t) ==
  /\ At(t, "asked")
  /\ Remember(thread[t].got)
  /\ To(t, "compare")
  /\ UNCHANGED <<remote, row, late, changes, failures>>

\* An empty email at System B is first filled from System A's.
Compare(t) ==
  LET fill == thread[t].got.email = NoEmail /\ thread[t].mine.email # NoEmail
  IN /\ At(t, "compare")
     /\ thread' = [thread EXCEPT
          ![t].pc = IF fill THEN "patch" ELSE "write",
          ![t].then = "write",
          ![t].patch = IF fill THEN [field |-> "email", to |-> thread[t].mine.email] ELSE None]
     /\ UNCHANGED <<remote, row, cache, life, late, changes, failures>>

\* The columns in which the copy in memory differs are saved, and the identity
\* used is cached once more.
WriteChanges(t) ==
  LET mine == thread[t].mine
      got  == thread[t].got
      new  == [Ranked(mine, got.role) EXCEPT
                 !.email = IF got.email = NoEmail THEN @ ELSE got.email]
  IN /\ At(t, "write")
     /\ SaveChanged(mine, new)
     /\ IF new = mine THEN UNCHANGED <<cache, life>> ELSE Remember(got)
     /\ thread' = [thread EXCEPT ![t].pc = "gate", ![t].mine = new]
     /\ UNCHANGED <<remote, late, changes, failures>>

\* _is_local_cast_user repairs its flag, also when nothing could be asked.
Gate(t) ==
  /\ At(t, "gate")
  /\ LET mine == thread[t].mine
     IN SaveChanged(mine, [mine EXCEPT !.cast = mine.role \in {"ADMIN", "STAFF"}])
  /\ Finish(t)
  /\ UNCHANGED <<remote, cache, life, late, changes, failures>>

---------------------------------------------------------------------------
(* _upsert_shadow_user, for a sign-in and for a role update *)

Find(t) ==
  /\ At(t, "find")
  /\ thread' = [thread EXCEPT ![t].pc = "upsert", ![t].found = row]
  /\ UNCHANGED <<remote, row, cache, life, late, changes, failures>>

\* The whole row is saved.
Upsert(t) ==
  LET found == thread[t].found
      got   == thread[t].got
      new   == [Ranked(found, got.role) EXCEPT
                  !.email = IF got.email = NoEmail THEN @ ELSE got.email]
      next  == IF thread[t].mine = None THEN "end" ELSE "forget"
  IN /\ At(t, "upsert")
     /\ row' = new
     /\ thread' = [thread EXCEPT
          ![t].pc = IF got.email = NoEmail /\ new.email # NoEmail THEN "patch" ELSE next,
          ![t].then = next,
          ![t].patch = [field |-> "email", to |-> new.email]]
     /\ UNCHANGED <<remote, cache, life, late, changes, failures>>

SignedIn(t) ==
  /\ At(t, "end")
  /\ Finish(t)
  /\ UNCHANGED <<remote, row, cache, life, late, changes, failures>>

Forget(t) ==
  /\ At(t, "forget")
  /\ cache' = None /\ life' = 0
  /\ To(t, "align")
  /\ UNCHANGED <<remote, row, late, changes, failures>>

\* The copy loaded at the start is compared with the role asked for.
Align(t) ==
  /\ At(t, "align")
  /\ LET mine == thread[t].mine
         role == thread[t].got.role
     IN SaveChanged(mine, [mine EXCEPT !.role = role, !.staff = role = "ADMIN",
                                       !.cast = role \in {"ADMIN", "STAFF"}])
  /\ Finish(t)
  /\ UNCHANGED <<remote, cache, life, late, changes, failures>>

---------------------------------------------------------------------------
\* System B's own pages and sign-ins change the user.
ChangeRemote ==
  /\ Spend
  /\ \/ \E r \in Roles : remote' = [remote EXCEPT !.role = r]
     \/ \E e \in Address : remote' = [remote EXCEPT !.email = e]
  /\ UNCHANGED <<row, cache, life, late, thread, failures>>

Tick ==
  /\ cache # None
  /\ life' = life - 1
  /\ cache' = IF life' = 0 THEN None ELSE cache
  /\ UNCHANGED <<remote, row, late, thread, changes, failures>>

\* The first sign-in leaves no email on either side.
Init ==
  /\ remote \in [role : Roles, email : {NoEmail}]
  /\ row = Ranked([role |-> remote.role, staff |-> FALSE, cast |-> FALSE, super |-> TRUE,
                   email |-> remote.email], remote.role)
  /\ cache = None /\ life = 0
  /\ late = {}
  /\ thread = [t \in Threads |-> Idle]
  /\ changes = 0 /\ failures = 0

Refresh(t) == UseCache(t) \/ Ask(t) \/ AskFails(t) \/ Answered(t) \/ Compare(t) \/ WriteChanges(t) \/ Gate(t)
Work(t) ==
  \/ PatchArrives(t) \/ PatchFails(t) \/ PushAnswered(t) \/ RoleAnswered(t)
  \/ SaveForm(t) \/ Refresh(t)
  \/ SignInAtB(t) \/ Exchange(t) \/ Find(t) \/ Upsert(t) \/ SignedIn(t) \/ Forget(t) \/ Align(t)

Next ==
  \/ \E t \in Threads :
       \/ VisitPage(t) \/ Work(t)
       \/ \E signedIn \in BOOLEAN : StartSignIn(t, signedIn)
       \/ \E e \in Address : SubmitProfile(t, e)
       \/ \E r \in Roles : UpdateRole(t, r)
  \/ PatchArrivesLate \/ ChangeRemote \/ Tick

\* Requests end, the user keeps visiting pages, and the clock runs.
Fairness ==
  /\ WF_vars(Tick)
  /\ \A t \in Threads : WF_vars(VisitPage(t) \/ Work(t))

Spec == Init /\ [][Next]_vars
FairSpec == Spec /\ Fairness
---------------------------------------------------------------------------
Agrees ==
  /\ row.role = remote.role /\ row.email = remote.email
  /\ row = Ranked(row, row.role)

\* System B is the source of truth: once nobody changes the user any more, System A's
\* row ends up with System B's role, the flags of that role, and one email on both
\* sides, whatever calls failed, arrived late or were answered from the cache
\* (accounts/views.py:223-344).
Settles == <>[]Agrees

=============================================================================
