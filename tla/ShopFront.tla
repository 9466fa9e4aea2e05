------------------------------ MODULE ShopFront ------------------------------
(***************************************************************************)
(* From signing up a shop to the booking made at its page.                 *)
(*   - An owner signs up through a form that one session may have open in  *)
(*     several tabs; cancelling deletes the account the sign-up has made.  *)
(*   - A shop is addressed by its slug, which its owner may change and     *)
(*     another shop may then take, while customers have the page open.     *)
(*   - A public booking reads the shop, the resource and the service one   *)
(*     after the other before the transaction that BookingCreate models.   *)
(* A resource follows its user into the user's next shop; one that System  *)
(* A has pushed has no user until a binding finds it.  Times of the        *)
(* bookings are left out; a creation may be refused for its time.          *)
(***************************************************************************)
EXTENDS Integers, FiniteSets

CONSTANTS
  People,          \* who may own a shop or work at one
  Admin,           \* the super administrator among them
  Tabs,            \* requests about signing up that run at once
  Shops, Slugs, Resources, Services, Customers,
  Durations,       \* lengths of services
  DefaultMinutes,  \* 60
  None, Gone

\* What the rows, the page and the requests hold.
Tab      == [person : People, made : BOOLEAN, slug : Slugs \cup {None}, shop : Shops \cup {None},
             step : {"slug", "cancel", "create", "answer", "tenant", "move", "bind"}]
ShopRow  == [slug : Slugs, founder : People]
Resource == [shop : Shops, user : People \cup {None}, active : BOOLEAN, agreed : BOOLEAN]
Service  == [shop : Shops, minutes : Durations, active : BOOLEAN]
Page     == [slug : Slugs, resource : Resources, service : Services \cup {None}, minutes : Durations]
Call     == [step : {"resource", "service", "book"}, shop : Shops,
             service : Services \cup {None}, minutes : Durations]

ASSUME ShopFrontAssumption ==
  /\ Admin \in People
  /\ Durations \subseteq Nat /\ DefaultMinutes \in Durations
  /\ {None, Gone} \cap (People \cup Shops \cup Slugs \cup Services) = {}
  /\ "absent" \notin Shops \cup {None}
  /\ None \notin Tab \cup ShopRow \cup Resource \cup Service \cup Page \cup Call
  /\ Gone # None /\ Gone \notin Service

VARIABLES
  account,   \* shop of each person's SaaSUser row, None, or "absent"
  session,   \* [allow, made]: allow_shop_signup, the user is provisional
  tab,       \* requests of a sign-up: [person, made, step, slug, shop]
  shop,      \* Tenant rows: [slug, founder]
  resource,  \* Resource rows and their profiles: [shop, user, active, agreed]
  service,   \* ServicePreset rows: [shop, minutes, active]; an id is used once
  page,      \* what each customer was shown: [slug, resource, service, minutes]
  call,      \* the customer's request: [step, shop, service, minutes]
  resaved,   \* customers whose service was saved since they opened the page
  crossed    \* people who had two requests of a sign-up running at once

vars == <<account, session, tab, shop, resource, service, page, call,
          resaved, crossed>>

owners    == <<account, session, tab, crossed>>
customers == <<page, call, resaved>>

Taken      == {shop[s].slug : s \in {x \in Shops : shop[x] # None}}
Runs(s)    == {p \in People : account[p] = s}
Cleared    == [allow |-> FALSE, made |-> FALSE]
---------------------------------------------------------------------------
(* Signing up *)

\* DashboardRegisterShopRedirectView and the Discord sign-in it leads to, which
\* makes an account for a newcomer and notes in the session that it did.
StartSignup(p) ==
  /\ session' = [session EXCEPT ![p] = [allow |-> TRUE, made |-> account[p] = "absent"]]
  /\ account' = [account EXCEPT ![p] = IF @ = "absent" THEN None ELSE @]
  /\ UNCHANGED <<tab, crossed, shop, resource, service, customers>>

Begin(t, p, step) ==
  /\ tab[t] = None
  /\ tab' = [tab EXCEPT ![t] = [person |-> p, made |-> step = "cancel" /\ session[p].made,
                                step |-> step, slug |-> None, shop |-> None]]
  /\ crossed' = IF \E u \in Tabs : tab[u] # None /\ tab[u].person = p
                  THEN crossed \cup {p} ELSE crossed

\* Wrong on purpose: the form does not ask whether there is a shop already.
OpenFormAgain(t, p) ==
  /\ session[p].allow
  /\ \E step \in {"slug", "cancel"} : Begin(t, p, step)
  /\ UNCHANGED <<account, session, shop, resource, service, customers>>

\* dispatch of DashboardShopSignupFormView, then one of its two buttons.
OpenForm(t, p) ==
  /\ session[p].allow
  /\ IF account[p] \in Shops
       THEN /\ session' = [session EXCEPT ![p] = Cleared]
            /\ UNCHANGED <<tab, crossed>>
       ELSE /\ \E step \in {"slug", "cancel"} : Begin(t, p, step)
            /\ UNCHANGED session
  /\ UNCHANGED <<account, shop, resource, service, customers>>

AtTab(t, step) == tab[t] # None /\ tab[t].step = step
EndTab(t)      == tab' = [tab EXCEPT ![t] = None]
Continue(t, step) == tab' = [tab EXCEPT ![t].step = step]

\* _build_unique_tenant_slug looks for one that is free.
PickSlug(t) ==
  /\ AtTab(t, "slug")
  /\ \E g \in Slugs \ Taken :
       tab' = [tab EXCEPT ![t].slug = g,
                          ![t].step = IF tab[t].person = Admin THEN "tenant" ELSE "create"]
  /\ UNCHANGED <<account, session, crossed, shop, resource, service, customers>>

Of(r, s) == resource[r] # None /\ resource[r].shop = s

\* ensure_staff_resource_binding: the person's resource moves to the shop; or one
\* of the shop's without a user becomes the person's, as it is (whether one carries
\* the person's id, mail or name is left open); or a new one is made.
Bound(p, s) ==
  LET theirs == {r \in Resources : resource[r] # None /\ resource[r].user = p}
  IN  IF theirs # {}
        THEN {[resource EXCEPT ![r].shop = s] : r \in theirs}
        ELSE {[resource EXCEPT ![r].user = p] :
                r \in {x \in Resources : Of(x, s) /\ resource[x].user = None}}
             \cup
             {[resource EXCEPT ![r] = [shop |-> s, user |-> p, active |-> TRUE, agreed |-> FALSE]] :
                r \in {x \in Resources : resource[x] = None}}

NewShop(s, g, p) ==
  /\ shop[s] = None
  /\ shop' = [shop EXCEPT ![s] = [slug |-> g, founder |-> p]]

\* One transaction: the shop, its owner, the owner's resource, its services.
\* It fails when the slug is taken by now, or the account has been deleted.
CreateShop(t) ==
  LET p == tab[t].person
      g == tab[t].slug
  IN  /\ AtTab(t, "create")
      /\ IF g \in Taken \/ account[p] = "absent"
           THEN EndTab(t) /\ UNCHANGED <<account, shop, resource, service>>
           ELSE \E s \in Shops :
                  /\ NewShop(s, g, p)
                  /\ account' = [account EXCEPT ![p] = s]
                  /\ resource' \in Bound(p, s)
                  /\ \/ UNCHANGED service
                     \/ \E v \in Services, m \in Durations :
                          /\ service[v] = None
                          /\ service' = [service EXCEPT ![v] =
                                           [shop |-> s, minutes |-> m, active |-> TRUE]]
                  /\ tab' = [tab EXCEPT ![t].step = "answer", ![t].slug = None]
      /\ UNCHANGED <<session, crossed, customers>>

\* The session is saved with the response.
AnswerSignup(t) ==
  /\ AtTab(t, "answer")
  /\ EndTab(t)
  /\ session' = [session EXCEPT ![tab[t].person] = Cleared]
  /\ UNCHANGED <<account, crossed, shop, resource, service, customers>>

\* Only an account that this sign-up made, and that had no shop when the
\* request began, is deleted; its resource stays (on_delete=SET_NULL).
CancelSignup(t) ==
  LET p == tab[t].person IN
    /\ AtTab(t, "cancel")
    /\ IF tab[t].made
         THEN /\ account' = [account EXCEPT ![p] = "absent"]
              /\ resource' = [r \in Resources |->
                   IF resource[r] # None /\ resource[r].user = p
                     THEN [resource[r] EXCEPT !.user = None] ELSE resource[r]]
         ELSE UNCHANGED <<account, resource>>
    /\ session' = [session EXCEPT ![p] = Cleared]
    /\ EndTab(t)
    /\ UNCHANGED <<crossed, shop, service, customers>>

---------------------------------------------------------------------------
(* create_debug_tenant: three statements, no transaction *)

\* Bound of the model: one such request at a time.
BeginDebugShop(t) ==
  /\ \A u \in Tabs : tab[u] # None => tab[u].person # Admin
  /\ Begin(t, Admin, "slug")
  /\ UNCHANGED <<account, session, shop, resource, service, customers>>

CreateDebugShop(t) ==
  /\ AtTab(t, "tenant")
  /\ IF tab[t].slug \in Taken
       THEN EndTab(t) /\ UNCHANGED shop
       ELSE \E s \in Shops :
              /\ NewShop(s, tab[t].slug, Admin)
              /\ tab' = [tab EXCEPT ![t].step = "move", ![t].slug = None, ![t].shop = s]
  /\ UNCHANGED <<account, session, crossed, resource, service, customers>>

MoveAdmin(t) ==
  /\ AtTab(t, "move")
  /\ account' = [account EXCEPT ![Admin] = tab[t].shop]
  /\ Continue(t, "bind")
  /\ UNCHANGED <<session, crossed, shop, resource, service, customers>>

BindAdmin(t) ==
  /\ AtTab(t, "bind")
  /\ resource' \in Bound(Admin, tab[t].shop)
  /\ EndTab(t)
  /\ UNCHANGED <<account, session, crossed, shop, service, customers>>

---------------------------------------------------------------------------
(* The owner's dashboard *)

\* _save_tenant_settings: the slug is looked up, and unique in the database.
SaveSettings(s) ==
  /\ shop[s] # None /\ Runs(s) # {}
  /\ \E g \in Slugs \ Taken : shop' = [shop EXCEPT ![s].slug = g]
  /\ UNCHANGED <<owners, resource, service, customers>>

There(v) == service[v] \notin {None, Gone}
Shown(v) == {c \in Customers : page[c] # None /\ page[c].service = v}

SaveService(v) ==
  /\ \E s \in Shops, m \in Durations, on \in BOOLEAN :
       /\ Runs(s) # {}
       /\ service[v] # None => There(v) /\ service[v].shop = s
       /\ service' = [service EXCEPT ![v] = [shop |-> s, minutes |-> m, active |-> on]]
  /\ resaved' = resaved \cup Shown(v)
  /\ UNCHANGED <<owners, shop, resource, page, call>>

DeleteService(v) ==
  /\ There(v) /\ Runs(service[v].shop) # {}
  /\ service' = [service EXCEPT ![v] = Gone]
  /\ UNCHANGED <<owners, shop, resource, customers>>

---------------------------------------------------------------------------
(* The shop's people and resources *)

\* Every sign-in, and every look at the dashboard or at the schedule, binds.
BindStaff(p) ==
  /\ account[p] \in Shops
  /\ resource' \in Bound(p, account[p])
  /\ UNCHANGED <<owners, shop, service, customers>>

\* _save_staff_profiles_batch, for one of the shop's people or somebody without a
\* shop, who joins it: bookable only with the mark of the terms.  Who is given the
\* role by the same request is bound after the switch.
SwitchResource(p, s) ==
  /\ Runs(s) # {} /\ account[p] \in {s, None}
  /\ account' = [account EXCEPT ![p] = s]
  /\ \E after \in Bound(p, s) : \E r \in {x \in Resources : after[x] # None /\ after[x].user = p} :
       \E on \in {after[r].active, after[r].agreed, FALSE} :
         resource' = [after EXCEPT ![r].active = on]
  /\ UNCHANGED <<session, tab, crossed, shop, service, customers>>

\* SharedProfileView.post refuses a profile whose box is not ticked.
SaveProfile(r) ==
  /\ resource[r] # None /\ resource[r].user # None
  /\ resource' = [resource EXCEPT ![r].agreed = TRUE]
  /\ UNCHANGED <<owners, shop, service, customers>>

\* The integration's post and patch make a resource without a user or save one of
\* the shop's, with or without the mark; System A always sends the mark.
PutResource(r, s) ==
  /\ shop[s] # None
  /\ \E on, mark \in BOOLEAN :
       \/ /\ resource[r] = None
          /\ resource' = [resource EXCEPT ![r] =
                            [shop |-> s, user |-> None, active |-> on, agreed |-> mark]]
       \/ /\ Of(r, s)
          /\ resource' = [resource EXCEPT ![r].active = on, ![r].agreed = mark]
  /\ UNCHANGED <<owners, shop, service, customers>>

---------------------------------------------------------------------------
(* The public page *)

Bookable(r, s) ==
  /\ Of(r, s) /\ resource[r].active
  /\ resource[r].user # None => resource[r].agreed

Offered(v, s) == There(v) /\ service[v].shop = s /\ service[v].active

\* What the customer sees and chooses; a request without service_id is one of
\* the default length.
OpenPage(c) ==
  /\ call[c] = None
  /\ \E s \in Shops, r \in Resources, v \in Services \cup {None} :
       /\ shop[s] # None
       /\ Bookable(r, s)
       /\ v # None => Offered(v, s)
       /\ page' = [page EXCEPT ![c] =
            [slug |-> shop[s].slug, resource |-> r, service |-> v,
             minutes |-> IF v = None THEN DefaultMinutes ELSE service[v].minutes]]
  /\ resaved' = resaved \ {c}
  /\ UNCHANGED <<owners, shop, resource, service, call>>

---------------------------------------------------------------------------
(* PublicBookingCreateApi.post *)

AtCall(c, step) == call[c] # None /\ call[c].step = step
Refuse(c) == call' = [call EXCEPT ![c] = None]

\* The shop is the one that has the slug now; a missing field or too many
\* requests from one address refuse the request as well.
Post(c) ==
  /\ page[c] # None /\ call[c] = None
  /\ \E s \in Shops :
       /\ shop[s] # None /\ shop[s].slug = page[c].slug
       /\ call' = [call EXCEPT ![c] =
            [step |-> "resource", shop |-> s, service |-> None, minutes |-> DefaultMinutes]]
  /\ UNCHANGED <<owners, shop, resource, service, page, resaved>>

FindResource(c) ==
  /\ AtCall(c, "resource")
  /\ IF Bookable(page[c].resource, call[c].shop)
       THEN call' = [call EXCEPT ![c].step = "service"]
       ELSE Refuse(c)
  /\ UNCHANGED <<owners, shop, resource, service, page, resaved>>

\* resolve_service_by_duration
OfLength(s, m) == {v \in Services : Offered(v, s) /\ service[v].minutes = m}

FindService(c) ==
  LET v == page[c].service
      alike == OfLength(call[c].shop, DefaultMinutes)
      found(w, m) == call' = [call EXCEPT ![c].step = "book", ![c].service = w, ![c].minutes = m]
  IN  /\ AtCall(c, "service")
      /\ CASE v # None /\ Offered(v, call[c].shop)  -> found(v, service[v].minutes)
           [] v # None /\ ~Offered(v, call[c].shop) -> Refuse(c)
           [] v = None /\ alike = {}                -> found(None, DefaultMinutes)
           [] v = None /\ alike # {}                -> \E w \in alike : found(w, DefaultMinutes)
      /\ UNCHANGED <<owners, shop, resource, service, page, resaved>>

\* The booking goes its own way (BookingLifecycle), the customer leaves.
Booked(c) ==
  /\ call' = [call EXCEPT ![c] = None]
  /\ page' = [page EXCEPT ![c] = None]
  /\ resaved' = resaved \ {c}

\* Wrong on purpose: the resource is locked by its id alone.
BookById(c) ==
  /\ AtCall(c, "book")
  /\ \/ Refuse(c) /\ UNCHANGED <<page, resaved>>
     \/ (call[c].service # None => There(call[c].service)) /\ Booked(c)
  /\ UNCHANGED <<owners, shop, resource, service>>

\* create_confirmed_booking_with_lock: get(id=.., tenant=..) under the lock
\* fails for a resource that has moved, the commit for a deleted service.
Book(c) ==
  /\ AtCall(c, "book")
  /\ \/ Refuse(c) /\ UNCHANGED <<page, resaved>>
     \/ /\ Of(page[c].resource, call[c].shop)
        /\ call[c].service # None => There(call[c].service)
        /\ Booked(c)
  /\ UNCHANGED <<owners, shop, resource, service>>

---------------------------------------------------------------------------
Init ==
  /\ account = [p \in People |-> IF p = Admin THEN None ELSE "absent"]
  /\ session = [p \in People |-> Cleared]
  /\ tab = [t \in Tabs |-> None]
  /\ shop = [s \in Shops |-> None]
  /\ resource = [r \in Resources |-> None]
  /\ service = [v \in Services |-> None]
  /\ page = [c \in Customers |-> None]
  /\ call = [c \in Customers |-> None]
  /\ resaved = {} /\ crossed = {}

Next ==
  \/ \E p \in People \ {Admin} :
       StartSignup(p) \/ \E t \in Tabs : OpenForm(t, p)
  \/ \E t \in Tabs :
       \/ PickSlug(t) \/ CreateShop(t) \/ AnswerSignup(t) \/ CancelSignup(t)
       \/ BeginDebugShop(t) \/ CreateDebugShop(t) \/ MoveAdmin(t) \/ BindAdmin(t)
  \/ \E s \in Shops : SaveSettings(s)
  \/ \E v \in Services : SaveService(v) \/ DeleteService(v)
  \/ \E p \in People : BindStaff(p) \/ \E s \in Shops : SwitchResource(p, s)
  \/ \E r \in Resources : SaveProfile(r) \/ \E s \in Shops : PutResource(r, s)
  \/ \E c \in Customers : OpenPage(c) \/ Post(c) \/ FindResource(c) \/ FindService(c) \/ Book(c)

Spec == Init /\ [][Next]_vars

---------------------------------------------------------------------------
(* Properties *)

\* A shop that was signed up keeps the owner who signed it up, however often
\* the form is sent or cancelled, unless two requests of that owner ran at
\* once (dashboard/views.py:254-280, 309-345).
ShopKeepsOwner ==
  \A s \in Shops :
    (shop[s] # None /\ shop[s].founder \notin crossed \cup {Admin}) =>
      account[shop[s].founder] = s

Books(c) == AtCall(c, "book") /\ page'[c] = None

\* What is booked is what the page showed, although its slug may by now lead
\* to another shop: with the resource shown, at the shop that has it at the
\* commit, for the length shown unless the owner saved that service since
\* (bookings/public_views.py:249, 310-327, bookings/services.py:36-40).
BookedAsShown ==
  [][\A c \in Customers :
       Books(c) =>
         /\ call[c].shop = resource[page[c].resource].shop
         /\ call[c].service = None \/ service[call[c].service].shop = call[c].shop
         /\ c \in resaved \/ call[c].minutes = page[c].minutes]_vars

=============================================================================
