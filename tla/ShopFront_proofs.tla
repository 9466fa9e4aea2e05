------------------------------ MODULE ShopFront_proofs ------------------------------
(***************************************************************************)
(* Proofs about signing up shops and booking at their pages, for any       *)
(* number of people, shops, slugs, services, customers and requests.  A    *)
(* lemma <name>Step says that every step keeps a conjunct of the inductive *)
(* invariant IInv.                                                         *)
(***************************************************************************)
EXTENDS ShopFront, TLAPS

TypeOK ==
  /\ account \in [People -> Shops \cup {None, "absent"}]
  /\ session \in [People -> [allow : BOOLEAN, made : BOOLEAN]]
  /\ tab \in [Tabs -> Tab \cup {None}]
  /\ shop \in [Shops -> ShopRow \cup {None}]
  /\ resource \in [Resources -> Resource \cup {None}]
  /\ service \in [Services -> Service \cup {None, Gone}]
  /\ page \in [Customers -> Page \cup {None}]
  /\ call \in [Customers -> Call \cup {None}]
  /\ resaved \subseteq Customers /\ crossed \subseteq People

\* The administrator makes debug shops, and everybody else signs up or cancels;
\* a shop is made under a slug.
OwnSteps ==
  \A t \in Tabs :
    /\ AtTab(t, "cancel") \/ AtTab(t, "create") \/ AtTab(t, "answer") => tab[t].person # Admin
    /\ AtTab(t, "create") \/ AtTab(t, "tenant") => tab[t].slug \in Slugs
    /\ AtTab(t, "tenant") \/ AtTab(t, "move") \/ AtTab(t, "bind") => tab[t].person = Admin
    /\ AtTab(t, "move") \/ AtTab(t, "bind") => tab[t].shop \in Shops

\* Who is not crossed has one request of a sign-up at a time.
OneTab ==
  \A t, u \in Tabs :
    (tab[t] # None /\ tab[u] # None /\ tab[t].person = tab[u].person
     /\ tab[t].person \notin crossed) => t = u

\* ... which makes or deletes an account only while there is no shop of that person's.
NoShopYet ==
  \A t \in Tabs, s \in Shops :
    (/\ AtTab(t, "slug") \/ AtTab(t, "create") \/ AtTab(t, "cancel")
     /\ tab[t].person \notin crossed \cup {Admin}
     /\ shop[s] # None)
      => shop[s].founder # tab[t].person

\* A request comes from a page.
CallHasPage ==
  \A c \in Customers : call[c] # None => page[c] # None

\* A service on a page is the one that was shown, unless it was deleted or saved since.
ServiceShown ==
  \A c \in Customers : (page[c] # None /\ c \notin resaved) =>
    IF page[c].service = None THEN page[c].minutes = DefaultMinutes
    ELSE LET v == page[c].service
         IN service[v] # None /\ (There(v) => service[v].minutes = page[c].minutes)

\* A service found is one of the shop that has the page's slug, of the length shown.
ServiceFound ==
  \A c \in Customers : AtCall(c, "book") =>
    /\ c \in resaved \/ call[c].minutes = page[c].minutes
    /\ call[c].service # None =>
         LET v == call[c].service
         IN service[v] # None /\ (There(v) => service[v].shop = call[c].shop)

IInv ==
  /\ TypeOK /\ OwnSteps /\ OneTab /\ NoShopYet /\ ShopKeepsOwner
  /\ CallHasPage /\ ServiceShown /\ ServiceFound

---------------------------------------------------------------------------
(* What the actions do to the requests, the shops, the resources and the calls. *)

Stepped(t, step) ==
  /\ tab' \in [Tabs -> Tab \cup {None}] /\ tab'[t] # None
  /\ tab'[t].person = tab[t].person /\ tab'[t].shop = tab[t].shop /\ tab'[t].step = step
  /\ \A u \in Tabs \ {t} : tab'[u] = tab[u]

Founded(s, p) ==
  /\ shop[s] = None /\ shop' \in [Shops -> ShopRow \cup {None}] /\ shop'[s].founder = p
  /\ \A r \in Shops \ {s} : shop'[r] = shop[r]

Called(c, x) ==
  /\ call' \in [Customers -> Call \cup {None}] /\ call'[c] = x
  /\ \A d \in Customers \ {c} : call'[d] = call[d]

Dropped(t) ==
  tab' = [tab EXCEPT ![t] = None] /\ UNCHANGED <<account, shop, resource, service>>

Signed(t, s) ==
  /\ account[tab[t].person] # "absent" /\ account' = [account EXCEPT ![tab[t].person] = s]
  /\ Stepped(t, "answer") /\ Founded(s, tab[t].person)
  /\ resource' \in [Resources -> Resource \cup {None}]
  /\ service' \in [Services -> Service \cup {None, Gone}]
  /\ \A v \in Services : service[v] # None => service'[v] = service[v]

Debugged(t, s) ==
  /\ Founded(s, Admin) /\ UNCHANGED <<account, resource, service>>
  /\ tab' \in [Tabs -> Tab \cup {None}] /\ tab'[t] # None
  /\ tab'[t].person = tab[t].person /\ tab'[t].shop = s /\ tab'[t].step = "move"
  /\ \A u \in Tabs \ {t} : tab'[u] = tab[u]

Found(c, x) ==
  /\ Called(c, x) /\ x.step = "book" /\ x.shop = call[c].shop
  /\ x.service # None => x.service \in Services /\ Offered(x.service, call[c].shop)
  /\ IF page[c].service = None THEN x.minutes = DefaultMinutes
     ELSE x.service = page[c].service /\ x.minutes = service[x.service].minutes

LEMMA StepEffect ==
  ASSUME TypeOK, NEW t \in Tabs, tab[t] # None, NEW step \in {"answer", "bind"}, Continue(t, step)
  PROVE  Stepped(t, step)
<1>1. tab[t] \in Tab
  BY DEF TypeOK
<1>2. [tab[t] EXCEPT !.step = step] \in Tab
  BY <1>1 DEF Tab
<1>3. tab' = [tab EXCEPT ![t] = [tab[t] EXCEPT !.step = step]]
  BY DEF Continue
<1>4. tab'[t] = [tab[t] EXCEPT !.step = step]
  BY <1>3 DEF TypeOK
<1>5. tab'[t].person = tab[t].person /\ tab'[t].shop = tab[t].shop /\ tab'[t].step = step
  BY <1>1, <1>4 DEF Tab
<1>6. QED
  BY <1>2, <1>3, <1>4, <1>5, ShopFrontAssumption DEF TypeOK, Stepped

LEMMA BoundEffect ==
  ASSUME TypeOK, NEW p \in People, NEW s \in Shops
  PROVE  Bound(p, s) \subseteq [Resources -> Resource \cup {None}]
<1> DEFINE moved(r)  == [resource EXCEPT ![r].shop = s]
           linked(r) == [resource EXCEPT ![r].user = p]
           new       == [shop |-> s, user |-> p, active |-> TRUE, agreed |-> FALSE]
           made(r)   == [resource EXCEPT ![r] = new]
<1>1. ASSUME NEW r \in Resources, resource[r] # None
      PROVE  moved(r) \in [Resources -> Resource \cup {None}]
  <2>1. [resource[r] EXCEPT !.shop = s] \in Resource
    BY <1>1 DEF TypeOK, Resource
  <2>2. moved(r) = [resource EXCEPT ![r] = [resource[r] EXCEPT !.shop = s]]
    OBVIOUS
  <2>3. QED
    BY <2>1, <2>2 DEF TypeOK
<1>2. ASSUME NEW r \in Resources, resource[r] # None
      PROVE  linked(r) \in [Resources -> Resource \cup {None}]
  <2>1. [resource[r] EXCEPT !.user = p] \in Resource
    BY <1>2 DEF TypeOK, Resource
  <2>2. linked(r) = [resource EXCEPT ![r] = [resource[r] EXCEPT !.user = p]]
    OBVIOUS
  <2>3. QED
    BY <2>1, <2>2 DEF TypeOK
<1>3. ASSUME NEW r \in Resources PROVE made(r) \in [Resources -> Resource \cup {None}]
  <2>1. new \in Resource
    BY DEF Resource
  <2>2. QED
    BY <2>1 DEF TypeOK
<1> DEFINE theirs == {r \in Resources : resource[r] # None /\ resource[r].user = p}
           loose  == {r \in Resources : Of(r, s) /\ resource[r].user = None}
           free   == {r \in Resources : resource[r] = None}
<1>4. Bound(p, s) = IF theirs # {} THEN {moved(r) : r \in theirs}
                    ELSE {linked(r) : r \in loose} \cup {made(r) : r \in free}
  BY DEF Bound
<1> HIDE DEF moved, linked, made
<1>5. QED
  BY <1>1, <1>2, <1>3, <1>4 DEF Of

LEMMA NewShopEffect ==
  ASSUME TypeOK, NEW s \in Shops, NEW g \in Slugs, NEW p \in People, NewShop(s, g, p)
  PROVE  Founded(s, p)
<1>1. [slug |-> g, founder |-> p] \in ShopRow
  BY DEF ShopRow
<1>2. QED
  BY <1>1 DEF NewShop, Founded, TypeOK

LEMMA CreateShopEffect ==
  ASSUME TypeOK, OwnSteps, NEW t \in Tabs, CreateShop(t)
  PROVE  /\ AtTab(t, "create") /\ tab[t].person \in People \ {Admin}
         /\ Dropped(t) \/ \E s \in Shops : Signed(t, s)
         /\ UNCHANGED <<session, crossed, page, call, resaved>>
<1> DEFINE p == tab[t].person
           g == tab[t].slug
<1>1. AtTab(t, "create") /\ p \in People \ {Admin} /\ g \in Slugs \cup {None}
  BY DEF CreateShop, AtTab, OwnSteps, TypeOK, Tab
<1>2. UNCHANGED <<session, crossed, page, call, resaved>>
  BY DEF CreateShop, customers
<1>3. CASE g \in Taken \/ account[p] = "absent"
  BY <1>1, <1>2, <1>3 DEF CreateShop, EndTab, Dropped
<1>4. CASE ~(g \in Taken \/ account[p] = "absent")
  <2>1. PICK s \in Shops :
          /\ NewShop(s, g, p) /\ account' = [account EXCEPT ![p] = s] /\ resource' \in Bound(p, s)
          /\ \/ UNCHANGED service
             \/ \E v \in Services, m \in Durations :
                  /\ service[v] = None
                  /\ service' = [service EXCEPT ![v] = [shop |-> s, minutes |-> m, active |-> TRUE]]
          /\ tab' = [tab EXCEPT ![t].step = "answer", ![t].slug = None]
    BY <1>4 DEF CreateShop
  <2>2. g \in Slugs
    BY <1>1 DEF OwnSteps
  <2>3. /\ Stepped(t, "answer") /\ Founded(s, p)
        /\ resource' \in [Resources -> Resource \cup {None}]
    <3>1. tab[t] # None /\ tab[t] \in Tab
      BY <1>1 DEF AtTab, TypeOK
    <3>2. [tab[t] EXCEPT !.step = "answer", !.slug = None] \in Tab
      BY <3>1 DEF Tab
    <3>3. tab'[t] = [tab[t] EXCEPT !.step = "answer", !.slug = None] /\ tab' \in [Tabs -> Tab \cup {None}]
      BY <2>1, <3>2 DEF TypeOK
    <3>4. Stepped(t, "answer")
      <4>1. /\ tab'[t].person = tab[t].person /\ tab'[t].shop = tab[t].shop
            /\ tab'[t].step = "answer"
        BY <3>1, <3>3 DEF Tab
      <4>2. tab'[t] # None
        BY <3>2, <3>3, ShopFrontAssumption
      <4>3. \A u \in Tabs \ {t} : tab'[u] = tab[u]
        BY <2>1 DEF TypeOK
      <4>4. QED
        BY <3>3, <4>1, <4>2, <4>3 DEF Stepped
    <3>5. QED
      BY <1>1, <2>1, <2>2, <3>4, BoundEffect, NewShopEffect DEF AtTab
  <2>4. /\ service' \in [Services -> Service \cup {None, Gone}]
        /\ \A v \in Services : service[v] # None => service'[v] = service[v]
    <3>1. CASE UNCHANGED service
      BY <3>1 DEF TypeOK
    <3>2. CASE \E v \in Services, m \in Durations :
                 /\ service[v] = None
                 /\ service' = [service EXCEPT ![v] = [shop |-> s, minutes |-> m, active |-> TRUE]]
      <4>1. PICK v \in Services, m \in Durations :
              /\ service[v] = None
              /\ service' = [service EXCEPT ![v] = [shop |-> s, minutes |-> m, active |-> TRUE]]
        BY <3>2
      <4>2. [shop |-> s, minutes |-> m, active |-> TRUE] \in Service
        BY DEF Service
      <4>3. QED
        BY <4>1, <4>2 DEF TypeOK
    <3>3. QED
      BY <2>1, <3>1, <3>2
  <2>5. QED
    BY <1>1, <1>2, <1>4, <2>1, <2>3, <2>4 DEF Signed
<1>5. QED
  BY <1>3, <1>4

LEMMA DebugShopEffect ==
  ASSUME TypeOK, OwnSteps, NEW t \in Tabs, CreateDebugShop(t)
  PROVE  /\ AtTab(t, "tenant")
         /\ Dropped(t) \/ \E s \in Shops : Debugged(t, s)
         /\ UNCHANGED <<session, crossed, page, call, resaved>>
<1>1. AtTab(t, "tenant") /\ tab[t] \in Tab /\ tab[t].slug \in Slugs
  BY DEF CreateDebugShop, AtTab, OwnSteps, TypeOK
<1>2. CASE tab[t].slug \in Taken
  BY <1>1, <1>2 DEF CreateDebugShop, EndTab, Dropped, customers
<1>3. CASE tab[t].slug \notin Taken
  <2>1. PICK s \in Shops :
          NewShop(s, tab[t].slug, Admin) /\ tab' = [tab EXCEPT ![t].step = "move", ![t].shop = s]
    BY <1>3 DEF CreateDebugShop
  <2>2. Founded(s, Admin)
    BY <1>1, <2>1, NewShopEffect, ShopFrontAssumption
  <2> DEFINE new == [tab[t] EXCEPT !.step = "move", !.shop = s]
  <2>3. new \in Tab /\ new.person = tab[t].person /\ new.shop = s /\ new.step = "move"
    BY <1>1 DEF Tab
  <2>4. tab' = [tab EXCEPT ![t] = new]
    BY <2>1 DEF TypeOK
  <2> HIDE DEF new
  <2>5. tab' \in [Tabs -> Tab \cup {None}] /\ tab'[t] = new /\ \A u \in Tabs \ {t} : tab'[u] = tab[u]
    BY <2>3, <2>4 DEF TypeOK
  <2>6. QED
    BY <1>1, <2>2, <2>3, <2>5, ShopFrontAssumption DEF CreateDebugShop, Debugged, customers
<1>4. QED
  BY <1>2, <1>3

\* What a step about the shop's people and resources leaves: typed resources and
\* every account, but for that of somebody without a shop who joins one.
Staffed ==
  /\ resource' \in [Resources -> Resource \cup {None}]
  /\ \/ UNCHANGED account
     \/ \E p \in People, s \in Shops :
          account[p] \in {s, None} /\ account' = [account EXCEPT ![p] = s]
  /\ UNCHANGED <<session, tab, crossed, shop, service, page, call, resaved>>

LEMMA StaffEffect ==
  ASSUME TypeOK, NEW p \in People, BindStaff(p) \/ \E s \in Shops : SwitchResource(p, s)
  PROVE  Staffed
<1>1. CASE BindStaff(p)
  BY <1>1, BoundEffect DEF BindStaff, Staffed, owners, customers
<1>2. ASSUME NEW s \in Shops, SwitchResource(p, s) PROVE Staffed
  <2> DEFINE theirs(after) == {x \in Resources : after[x] # None /\ after[x].user = p}
             flags(after, r) == {after[r].active, after[r].agreed, FALSE}
  <2>a. PICK after \in Bound(p, s) : \E r \in theirs(after) : \E on \in flags(after, r) :
               resource' = [after EXCEPT ![r].active = on]
    BY <1>2 DEF SwitchResource
  <2>b. PICK r \in theirs(after) : \E on \in flags(after, r) :
               resource' = [after EXCEPT ![r].active = on]
    BY <2>a
  <2>c. PICK on \in flags(after, r) : resource' = [after EXCEPT ![r].active = on]
    BY <2>b
  <2>1. /\ r \in Resources /\ after[r] # None /\ on \in {after[r].active, after[r].agreed, FALSE}
        /\ resource' = [after EXCEPT ![r].active = on]
    BY <2>b, <2>c
  <2> HIDE DEF theirs, flags
  <2>2. after \in [Resources -> Resource \cup {None}]
    BY BoundEffect
  <2>3. [after[r] EXCEPT !.active = on] \in Resource
    BY <2>1, <2>2 DEF Resource
  <2>4. resource' = [after EXCEPT ![r] = [after[r] EXCEPT !.active = on]]
    BY <2>1
  <2>5. resource' \in [Resources -> Resource \cup {None}]
    BY <2>2, <2>3, <2>4
  <2>6. QED
    BY <1>2, <2>5 DEF SwitchResource, Staffed, customers
<1>3. QED
  BY <1>1, <1>2

LEMMA ResourceEffect ==
  ASSUME TypeOK, NEW r \in Resources, SaveProfile(r) \/ \E s \in Shops : PutResource(r, s)
  PROVE  Staffed
<1>1. PICK new \in Resource : resource' = [resource EXCEPT ![r] = new]
  <2>1. CASE SaveProfile(r)
    <3>1. [resource[r] EXCEPT !.agreed = TRUE] \in Resource
      BY <2>1 DEF SaveProfile, TypeOK, Resource
    <3>2. resource' = [resource EXCEPT ![r] = [resource[r] EXCEPT !.agreed = TRUE]]
      BY <2>1 DEF SaveProfile
    <3>3. QED
      BY <3>1, <3>2
  <2>2. ASSUME NEW s \in Shops, PutResource(r, s)
        PROVE  \E new \in Resource : resource' = [resource EXCEPT ![r] = new]
    <3>1. PICK on \in BOOLEAN, mark \in BOOLEAN :
            \/ resource' = [resource EXCEPT ![r] =
                              [shop |-> s, user |-> None, active |-> on, agreed |-> mark]]
            \/ /\ resource[r] # None
               /\ resource' = [resource EXCEPT ![r].active = on, ![r].agreed = mark]
      BY <2>2 DEF PutResource, Of
    <3>2. [shop |-> s, user |-> None, active |-> on, agreed |-> mark] \in Resource
      BY DEF Resource
    <3>3. resource[r] # None => [resource[r] EXCEPT !.active = on, !.agreed = mark] \in Resource
      BY DEF TypeOK, Resource
    <3>4. [resource EXCEPT ![r].active = on, ![r].agreed = mark]
            = [resource EXCEPT ![r] = [resource[r] EXCEPT !.active = on, !.agreed = mark]]
      BY DEF TypeOK
    <3>5. QED
      BY <3>1, <3>2, <3>3, <3>4
  <2>3. QED
    BY <2>1, <2>2
<1>2. resource' \in [Resources -> Resource \cup {None}]
  BY <1>1 DEF TypeOK
<1>3. QED
  BY <1>2 DEF SaveProfile, PutResource, Staffed, owners, customers

LEMMA CancelEffect ==
  ASSUME TypeOK, NEW t \in Tabs, CancelSignup(t)
  PROVE  LET p == tab[t].person IN
         /\ AtTab(t, "cancel") /\ p \in People /\ tab' = [tab EXCEPT ![t] = None]
         /\ session' \in [People -> [allow : BOOLEAN, made : BOOLEAN]]
         /\ resource' \in [Resources -> Resource \cup {None}]
         /\ UNCHANGED account \/ account' = [account EXCEPT ![p] = "absent"]
         /\ UNCHANGED <<crossed, shop, service, page, call, resaved>>
<1> DEFINE p == tab[t].person
<1>1. AtTab(t, "cancel") /\ p \in People /\ tab' = [tab EXCEPT ![t] = None]
  BY DEF CancelSignup, AtTab, EndTab, TypeOK, Tab
<1>2. UNCHANGED <<crossed, shop, service, page, call, resaved>>
  BY DEF CancelSignup, customers
<1>3. session' \in [People -> [allow : BOOLEAN, made : BOOLEAN]]
  BY <1>1 DEF CancelSignup, Cleared, TypeOK
<1>4. CASE ~tab[t].made
  BY <1>1, <1>2, <1>3, <1>4 DEF CancelSignup, TypeOK
<1>5. CASE tab[t].made
  <2> DEFINE cut(r) == [resource[r] EXCEPT !.user = None]
             gone(r) == resource[r] # None /\ resource[r].user = p
  <2>1. /\ account' = [account EXCEPT ![p] = "absent"]
        /\ resource' = [r \in Resources |-> IF gone(r) THEN cut(r) ELSE resource[r]]
    BY <1>5 DEF CancelSignup
  <2>2. \A r \in Resources : gone(r) => cut(r) \in Resource
    BY DEF TypeOK, Resource
  <2> HIDE DEF cut, gone
  <2>3. resource' \in [Resources -> Resource \cup {None}]
    BY <2>1, <2>2 DEF TypeOK
  <2>4. QED
    BY <1>1, <1>2, <1>3, <2>1, <2>3
<1>6. QED
  BY <1>4, <1>5

LEMMA FindResourceEffect ==
  ASSUME TypeOK, NEW c \in Customers, FindResource(c)
  PROVE  /\ AtCall(c, "resource")
         /\ \/ Called(c, None)
            \/ /\ Bookable(page[c].resource, call[c].shop)
               /\ \E x \in Call : x.step = "service" /\ x.service = call[c].service
                                 /\ x.shop = call[c].shop /\ Called(c, x)
         /\ UNCHANGED <<account, session, tab, crossed, shop, resource, service, page, resaved>>
<1>1. AtCall(c, "resource") /\ call[c] \in Call
  BY DEF FindResource, AtCall, TypeOK
<1> DEFINE x == [call[c] EXCEPT !.step = "service"]
<1>2. x \in Call /\ x.step = "service" /\ x.service = call[c].service /\ x.shop = call[c].shop
  BY <1>1 DEF Call
<1>3. \/ Bookable(page[c].resource, call[c].shop) /\ call' = [call EXCEPT ![c] = x]
      \/ call' = [call EXCEPT ![c] = None]
  BY DEF FindResource, Refuse
<1> HIDE DEF x
<1>4. call' = [call EXCEPT ![c] = x] => Called(c, x)
  BY <1>2 DEF Called, TypeOK
<1>5. call' = [call EXCEPT ![c] = None] => Called(c, None)
  BY DEF Called, TypeOK
<1>6. QED
  BY <1>1, <1>2, <1>3, <1>4, <1>5 DEF FindResource, owners

LEMMA FindServiceEffect ==
  ASSUME TypeOK, CallHasPage, NEW c \in Customers, FindService(c)
  PROVE  /\ AtCall(c, "service") /\ page[c] \in Page
         /\ Called(c, None) \/ \E x \in Call : Found(c, x)
         /\ UNCHANGED <<account, session, tab, crossed, shop, resource, service, page, resaved>>
<1> DEFINE v == page[c].service
           alike == OfLength(call[c].shop, DefaultMinutes)
           new(w, m) == [call[c] EXCEPT !.step = "book", !.service = w, !.minutes = m]
<1>1. AtCall(c, "service") /\ call[c] \in Call /\ page[c] \in Page
  BY DEF FindService, AtCall, TypeOK, CallHasPage
<1>2. UNCHANGED <<account, session, tab, crossed, shop, resource, service, page, resaved>>
  BY DEF FindService, owners
<1>3. \A w \in Services \cup {None}, m \in Durations :
        /\ new(w, m) \in Call /\ new(w, m).step = "book" /\ new(w, m).shop = call[c].shop
        /\ new(w, m).service = w /\ new(w, m).minutes = m
  BY <1>1 DEF Call
<1>4. v \in Services \cup {None} /\ DefaultMinutes \in Durations
  BY <1>1, ShopFrontAssumption DEF Page
<1>5. \/ call' = [call EXCEPT ![c] = None]
      \/ /\ v # None /\ Offered(v, call[c].shop)
         /\ call' = [call EXCEPT ![c] = new(v, service[v].minutes)]
      \/ v = None /\ call' = [call EXCEPT ![c] = new(None, DefaultMinutes)]
      \/ /\ v = None
         /\ \E w \in alike : call' = [call EXCEPT ![c] = new(w, DefaultMinutes)]
  <2>1. CASE v # None
    BY <2>1 DEF FindService, Refuse
  <2>2. CASE v = None
    BY ZenonT(60), <2>2 DEF FindService, Refuse
  <2>3. QED
    BY <2>1, <2>2
<1>6. ASSUME NEW w \in Services \cup {None}, NEW m \in Durations,
             call' = [call EXCEPT ![c] = new(w, m)],
             w # None => Offered(w, call[c].shop),
             IF v = None THEN m = DefaultMinutes ELSE w = v /\ m = service[w].minutes
      PROVE  \E x \in Call : Found(c, x)
  <2> DEFINE x == new(w, m)
  <2>1. x \in Call /\ x.step = "book" /\ x.shop = call[c].shop /\ x.service = w /\ x.minutes = m
    BY <1>1, <1>6 DEF Call
  <2> HIDE DEF x
  <2>2. Called(c, x)
    BY <1>6, <2>1 DEF Called, TypeOK, x
  <2>3. Found(c, x)
    BY <1>6, <2>1, <2>2 DEF Found
  <2>4. QED
    BY <2>1, <2>3
<1> HIDE DEF new
<1>7. CASE call' = [call EXCEPT ![c] = None]
  BY <1>1, <1>2, <1>7 DEF Called, TypeOK
<1>8. CASE v # None /\ Offered(v, call[c].shop) /\ call' = [call EXCEPT ![c] = new(v, service[v].minutes)]
  <2>1. v \in Services /\ service[v].minutes \in Durations
    BY <1>4, <1>8 DEF Offered, There, TypeOK, Service
  <2>2. QED
    BY <1>1, <1>2, <1>6, <1>8, <2>1
<1>9. CASE v = None /\ call' = [call EXCEPT ![c] = new(None, DefaultMinutes)]
  BY <1>1, <1>2, <1>4, <1>6, <1>9
<1>10. CASE v = None /\ \E w \in alike : call' = [call EXCEPT ![c] = new(w, DefaultMinutes)]
  <2>1. PICK w \in alike : call' = [call EXCEPT ![c] = new(w, DefaultMinutes)]
    BY <1>10
  <2>2. w \in Services /\ Offered(w, call[c].shop)
    BY DEF OfLength
  <2>3. QED
    BY <1>1, <1>2, <1>4, <1>6, <1>10, <2>1, <2>2
<1>11. QED
  BY <1>5, <1>7, <1>8, <1>9, <1>10

---------------------------------------------------------------------------
\* Every variable keeps its type.
LEMMA TypeOKStep == ASSUME IInv, [Next]_vars PROVE TypeOK'
<1> USE ShopFrontAssumption
<1>a. TypeOK /\ OwnSteps /\ CallHasPage
  BY DEF IInv
<1>1. ASSUME NEW p \in People \ {Admin}, StartSignup(p) PROVE TypeOK'
  BY <1>1, <1>a DEF StartSignup, customers, Cleared, TypeOK, Tab, ShopRow, Resource,
       Service, Page, Call
<1>2. ASSUME NEW t \in Tabs, NEW p \in People \ {Admin}, OpenForm(t, p) PROVE TypeOK'
  <2>1. UNCHANGED <<account, shop, resource, service, page, call, resaved>>
    BY <1>2 DEF OpenForm, customers
  <2>2. CASE account[p] \in Shops
    <3>1. session' = [session EXCEPT ![p] = [allow |-> FALSE, made |-> FALSE]] /\ UNCHANGED <<tab, crossed>>
      BY <1>2, <2>2 DEF OpenForm, Cleared
    <3>2. session' \in [People -> [allow : BOOLEAN, made : BOOLEAN]]
      BY <1>a, <3>1 DEF TypeOK
    <3>3. QED
      BY <1>a, <2>1, <3>1, <3>2 DEF TypeOK
  <2>3. CASE account[p] \notin Shops
    <3>1. PICK step \in {"slug", "cancel"} : Begin(t, p, step) /\ UNCHANGED session
      BY <1>2, <2>3 DEF OpenForm
    <3>2. [person |-> p, made |-> step = "cancel" /\ session[p].made, step |-> step,
           slug |-> None, shop |-> None] \in Tab
      <4>1. (step = "cancel" /\ session[p].made) \in BOOLEAN
        OBVIOUS
      <4>2. QED
        BY <4>1 DEF Tab
    <3>3. tab' \in [Tabs -> Tab \cup {None}] /\ crossed' \subseteq People
      BY <1>a, <3>1, <3>2 DEF Begin, TypeOK
    <3>4. QED
      BY <1>a, <2>1, <3>1, <3>3 DEF TypeOK
  <2>4. QED
    BY <2>2, <2>3
<1>3. ASSUME NEW t \in Tabs, PickSlug(t) PROVE TypeOK'
  <2>1. UNCHANGED <<account, session, crossed, shop, resource, service, page, call, resaved>>
    BY <1>3 DEF PickSlug, customers
  <2>2. PICK g \in Slugs, step \in {"tenant", "create"} :
          tab' = [tab EXCEPT ![t].slug = g, ![t].step = step]
    BY <1>3 DEF PickSlug
  <2>3. tab[t] \in Tab
    BY <1>3, <1>a DEF PickSlug, AtTab, TypeOK
  <2> DEFINE new == [tab[t] EXCEPT !.slug = g, !.step = step]
  <2>4. new \in Tab
    BY <2>3 DEF Tab
  <2>5. tab' = [tab EXCEPT ![t] = new]
    BY <1>a, <2>2 DEF TypeOK
  <2> HIDE DEF new
  <2>6. tab' \in [Tabs -> Tab \cup {None}]
    BY <1>a, <2>4, <2>5 DEF TypeOK
  <2>7. QED
    BY <1>a, <2>1, <2>6 DEF TypeOK
<1>4. ASSUME NEW t \in Tabs, CreateShop(t) PROVE TypeOK'
  <2>1. AtTab(t, "create") /\ tab[t].person \in People \ {Admin} /\ (Dropped(t) \/ \E s
       \in Shops : Signed(t, s)) /\ UNCHANGED <<session, crossed, page, call,
       resaved>>
    BY <1>4, <1>a, CreateShopEffect
  <2>2. ASSUME Dropped(t) PROVE TypeOK'
    BY <1>a, <2>1, <2>2 DEF Dropped, TypeOK
  <2>3. ASSUME NEW s \in Shops, Signed(t, s) PROVE TypeOK'
    BY <1>a, <2>1, <2>3 DEF Signed, Stepped, Founded, TypeOK
  <2>4. QED
    BY <2>1, <2>2, <2>3
<1>5. ASSUME NEW t \in Tabs, AnswerSignup(t) PROVE TypeOK'
  BY <1>5, <1>a DEF AnswerSignup, AtTab, EndTab, Cleared, customers, TypeOK, Tab,
       ShopRow, Resource, Service, Page, Call
<1>6. ASSUME NEW t \in Tabs, CancelSignup(t) PROVE TypeOK'
  <2>1. /\ tab[t].person \in People /\ tab' = [tab EXCEPT ![t] = None]
        /\ session' \in [People -> [allow : BOOLEAN, made : BOOLEAN]]
        /\ resource' \in [Resources -> Resource \cup {None}]
        /\ UNCHANGED account \/ account' = [account EXCEPT ![tab[t].person] = "absent"]
        /\ UNCHANGED <<crossed, shop, service, page, call, resaved>>
    BY <1>6, <1>a, CancelEffect
  <2>2. QED
    BY <1>a, <2>1 DEF TypeOK
<1>7. ASSUME NEW t \in Tabs, BeginDebugShop(t) PROVE TypeOK'
  BY <1>7, <1>a DEF BeginDebugShop, Begin, customers, TypeOK, Tab, ShopRow, Resource,
       Service, Page, Call
<1>8. ASSUME NEW t \in Tabs, CreateDebugShop(t) PROVE TypeOK'
  <2>1. AtTab(t, "tenant") /\ (Dropped(t) \/ \E s \in Shops : Debugged(t, s)) /\
       UNCHANGED <<session, crossed, page, call, resaved>>
    BY <1>8, <1>a, DebugShopEffect
  <2>2. ASSUME Dropped(t) PROVE TypeOK'
    BY <1>a, <2>1, <2>2 DEF Dropped, TypeOK
  <2>3. ASSUME NEW s \in Shops, Debugged(t, s) PROVE TypeOK'
    BY <1>a, <2>1, <2>3 DEF Debugged, Founded, TypeOK
  <2>4. QED
    BY <2>1, <2>2, <2>3
<1>9. ASSUME NEW t \in Tabs, MoveAdmin(t) PROVE TypeOK'
  <2>1. Stepped(t, "bind") /\ tab[t].shop \in Shops
    BY <1>9, <1>a, StepEffect DEF MoveAdmin, AtTab, OwnSteps
  <2>2. QED
    BY <1>9, <1>a, <2>1 DEF MoveAdmin, customers, Stepped, TypeOK
<1>10. ASSUME NEW t \in Tabs, BindAdmin(t) PROVE TypeOK'
  <2>1. tab[t].shop \in Shops
    BY <1>10, <1>a DEF BindAdmin, OwnSteps
  <2>2. resource' \in [Resources -> Resource \cup {None}]
    BY <1>10, <1>a, <2>1, BoundEffect DEF BindAdmin
  <2>3. QED
    BY <1>10, <1>a, <2>2 DEF BindAdmin, EndTab, customers, TypeOK
<1>11. ASSUME NEW s \in Shops, SaveSettings(s) PROVE TypeOK'
  BY <1>11, <1>a DEF SaveSettings, owners, customers, Taken, TypeOK, Tab, ShopRow,
       Resource, Service, Page, Call
<1>12. ASSUME NEW v \in Services, SaveService(v) PROVE TypeOK'
  BY <1>12, <1>a DEF SaveService, There, Shown, owners, TypeOK, Tab, ShopRow, Resource,
       Service, Page, Call
<1>13. ASSUME NEW v \in Services, DeleteService(v) PROVE TypeOK'
  BY <1>13, <1>a DEF DeleteService, There, owners, customers, TypeOK, Tab, ShopRow,
       Resource, Service, Page, Call
<1>14. ASSUME Staffed PROVE TypeOK'
  BY <1>14, <1>a DEF Staffed, TypeOK
<1>15. ASSUME NEW c \in Customers, OpenPage(c) PROVE TypeOK'
  BY <1>15, <1>a DEF OpenPage, owners, Bookable, Offered, There, TypeOK, Tab, ShopRow,
       Resource, Service, Page, Call
<1>16. ASSUME NEW c \in Customers, Post(c) PROVE TypeOK'
  BY <1>16, <1>a DEF Post, owners, TypeOK, Tab, ShopRow, Resource, Service, Page, Call
<1>17. ASSUME NEW c \in Customers, FindResource(c) PROVE TypeOK'
  BY <1>17, <1>a, FindResourceEffect DEF Called, Bookable, AtCall, TypeOK, Tab, ShopRow,
       Resource, Service, Page, Call
<1>18. ASSUME NEW c \in Customers, FindService(c) PROVE TypeOK'
  <2>1. AtCall(c, "service") /\ page[c] \in Page /\ (Called(c, None) \/ \E x \in Call :
       Found(c, x)) /\ UNCHANGED <<account, session, tab, crossed, shop, resource,
       service, page, resaved>>
    BY <1>18, <1>a, FindServiceEffect
  <2>2. ASSUME Called(c, None) PROVE TypeOK'
    BY <1>a, <2>1, <2>2 DEF Called, AtCall, TypeOK
  <2>3. ASSUME NEW x \in Call, Found(c, x) PROVE TypeOK'
    BY <1>a, <2>1, <2>3 DEF Found, Called, AtCall, Offered, TypeOK
  <2>4. QED
    BY <2>1, <2>2, <2>3
<1>19. ASSUME NEW c \in Customers, Book(c) PROVE TypeOK'
  BY SMTT(30), <1>19, <1>a DEF Book, owners, AtCall, Refuse, Booked, There, TypeOK, Tab, ShopRow,
       Resource, Service, Page, Call
<1>20. ASSUME UNCHANGED vars PROVE TypeOK'
  BY <1>20, <1>a DEF vars, TypeOK, Tab, ShopRow, Resource, Service, Page, Call
<1> QED
  BY <1>a, StaffEffect, ResourceEffect, <1>1, <1>2, <1>3, <1>4, <1>5, <1>6, <1>7, <1>8, <1>9, <1>10, <1>11, <1>12, <1>13,
       <1>14, <1>15, <1>16, <1>17, <1>18, <1>19, <1>20 DEF Next

\* A request keeps its person from its first step to its last.
LEMMA OwnStepsStep == ASSUME IInv, [Next]_vars PROVE OwnSteps'
<1> USE ShopFrontAssumption
<1>a. TypeOK /\ OwnSteps /\ CallHasPage
  BY DEF IInv
<1>1. ASSUME NEW p \in People \ {Admin}, StartSignup(p) PROVE OwnSteps'
  BY <1>1, <1>a DEF StartSignup, customers, Cleared, OwnSteps, AtTab, TypeOK, Tab
<1>2. ASSUME NEW t \in Tabs, NEW p \in People \ {Admin}, OpenForm(t, p) PROVE OwnSteps'
  <2>1. CASE UNCHANGED tab
    BY <1>a, <2>1 DEF OwnSteps, AtTab
  <2>2. CASE \E step \in {"slug", "cancel"} : Begin(t, p, step)
    <3>1. PICK step \in {"slug", "cancel"} : Begin(t, p, step)
      BY <2>2
    <3>2. /\ tab'[t].person = p /\ tab'[t].step \in {"slug", "cancel"}
          /\ \A u \in Tabs \ {t} : tab'[u] = tab[u]
      BY <1>a, <3>1 DEF Begin, TypeOK
    <3>3. QED
      BY <1>a, <3>2 DEF OwnSteps, AtTab
  <2>3. QED
    BY <1>2, <2>1, <2>2 DEF OpenForm
<1>3. ASSUME NEW t \in Tabs, PickSlug(t) PROVE OwnSteps'
  BY <1>3, <1>a DEF PickSlug, AtTab, Taken, customers, OwnSteps, TypeOK, Tab
<1>4. ASSUME NEW t \in Tabs, CreateShop(t) PROVE OwnSteps'
  <2>1. AtTab(t, "create") /\ tab[t].person \in People \ {Admin} /\ (Dropped(t) \/ \E s
       \in Shops : Signed(t, s)) /\ UNCHANGED <<session, crossed, page, call,
       resaved>>
    BY <1>4, <1>a, CreateShopEffect
  <2>2. ASSUME Dropped(t) PROVE OwnSteps'
    BY <1>a, <2>1, <2>2 DEF Dropped, OwnSteps, AtTab, TypeOK
  <2>3. ASSUME NEW s \in Shops, Signed(t, s) PROVE OwnSteps'
    BY <1>a, <2>1, <2>3 DEF Signed, Stepped, Founded, OwnSteps, AtTab, TypeOK
  <2>4. QED
    BY <2>1, <2>2, <2>3
<1>5. ASSUME NEW t \in Tabs, AnswerSignup(t) PROVE OwnSteps'
  BY <1>5, <1>a DEF AnswerSignup, AtTab, EndTab, Cleared, customers, OwnSteps, TypeOK,
       Tab
<1>6. ASSUME NEW t \in Tabs, CancelSignup(t) PROVE OwnSteps'
  BY <1>6, <1>a, CancelEffect DEF AtTab, OwnSteps, TypeOK, Tab
<1>7. ASSUME NEW t \in Tabs, BeginDebugShop(t) PROVE OwnSteps'
  BY <1>7, <1>a DEF BeginDebugShop, Begin, customers, OwnSteps, AtTab, TypeOK, Tab
<1>8. ASSUME NEW t \in Tabs, CreateDebugShop(t) PROVE OwnSteps'
  <2>1. AtTab(t, "tenant") /\ (Dropped(t) \/ \E s \in Shops : Debugged(t, s)) /\
       UNCHANGED <<session, crossed, page, call, resaved>>
    BY <1>8, <1>a, DebugShopEffect
  <2>2. ASSUME Dropped(t) PROVE OwnSteps'
    BY <1>a, <2>1, <2>2 DEF Dropped, OwnSteps, AtTab, TypeOK
  <2>3. ASSUME NEW s \in Shops, Debugged(t, s) PROVE OwnSteps'
    BY <1>a, <2>1, <2>3 DEF Debugged, Founded, OwnSteps, AtTab, TypeOK
  <2>4. QED
    BY <2>1, <2>2, <2>3
<1>9. ASSUME NEW t \in Tabs, MoveAdmin(t) PROVE OwnSteps'
  BY <1>9, <1>a DEF MoveAdmin, AtTab, Continue, customers, OwnSteps, TypeOK, Tab
<1>10. ASSUME NEW t \in Tabs, BindAdmin(t) PROVE OwnSteps'
  BY <1>10, <1>a DEF BindAdmin, AtTab, Bound, EndTab, customers, OwnSteps, TypeOK, Tab
<1>11. ASSUME NEW s \in Shops, SaveSettings(s) PROVE OwnSteps'
  BY <1>11, <1>a DEF SaveSettings, owners, customers, Taken, OwnSteps, AtTab, TypeOK,
       Tab
<1>12. ASSUME NEW v \in Services, SaveService(v) PROVE OwnSteps'
  BY <1>12, <1>a DEF SaveService, There, Shown, owners, OwnSteps, AtTab, TypeOK, Tab
<1>13. ASSUME NEW v \in Services, DeleteService(v) PROVE OwnSteps'
  BY <1>13, <1>a DEF DeleteService, There, owners, customers, OwnSteps, AtTab, TypeOK,
       Tab
<1>14. ASSUME Staffed PROVE OwnSteps'
  BY <1>14, <1>a DEF Staffed, OwnSteps, AtTab
<1>15. ASSUME NEW c \in Customers, OpenPage(c) PROVE OwnSteps'
  BY <1>15, <1>a DEF OpenPage, owners, Bookable, Offered, There, OwnSteps, AtTab,
       TypeOK, Tab
<1>16. ASSUME NEW c \in Customers, Post(c) PROVE OwnSteps'
  BY <1>16, <1>a DEF Post, owners, OwnSteps, AtTab, TypeOK, Tab
<1>17. ASSUME NEW c \in Customers, FindResource(c) PROVE OwnSteps'
  BY <1>17, <1>a, FindResourceEffect DEF Called, Bookable, AtCall, OwnSteps, AtTab,
       TypeOK, Tab
<1>18. ASSUME NEW c \in Customers, FindService(c) PROVE OwnSteps'
  <2>1. AtCall(c, "service") /\ page[c] \in Page /\ (Called(c, None) \/ \E x \in Call :
       Found(c, x)) /\ UNCHANGED <<account, session, tab, crossed, shop, resource,
       service, page, resaved>>
    BY <1>18, <1>a, FindServiceEffect
  <2>2. ASSUME Called(c, None) PROVE OwnSteps'
    BY <1>a, <2>1, <2>2 DEF Called, AtCall, OwnSteps, AtTab, TypeOK
  <2>3. ASSUME NEW x \in Call, Found(c, x) PROVE OwnSteps'
    BY <1>a, <2>1, <2>3 DEF Found, Called, AtCall, Offered, OwnSteps, AtTab, TypeOK
  <2>4. QED
    BY <2>1, <2>2, <2>3
<1>19. ASSUME NEW c \in Customers, Book(c) PROVE OwnSteps'
  BY <1>19, <1>a DEF Book, owners, AtCall, Refuse, Booked, There, OwnSteps, AtTab,
       TypeOK, Tab
<1>20. ASSUME UNCHANGED vars PROVE OwnSteps'
  BY <1>20, <1>a DEF vars, OwnSteps, AtTab, TypeOK, Tab
<1> QED
  BY <1>a, StaffEffect, ResourceEffect, <1>1, <1>2, <1>3, <1>4, <1>5, <1>6, <1>7, <1>8, <1>9, <1>10, <1>11, <1>12, <1>13,
       <1>14, <1>15, <1>16, <1>17, <1>18, <1>19, <1>20 DEF Next

\* A second request of one person crosses the first.
LEMMA OneTabStep == ASSUME IInv, [Next]_vars PROVE OneTab'
<1> USE ShopFrontAssumption
<1>a. TypeOK /\ OneTab /\ OwnSteps /\ CallHasPage
  BY DEF IInv
<1>1. ASSUME NEW p \in People \ {Admin}, StartSignup(p) PROVE OneTab'
  BY <1>1, <1>a DEF StartSignup, customers, Cleared, OneTab, TypeOK, Tab
<1>2. ASSUME NEW t \in Tabs, NEW p \in People \ {Admin}, OpenForm(t, p) PROVE OneTab'
  BY <1>2, <1>a DEF OpenForm, Begin, customers, Cleared, OneTab, TypeOK, Tab
<1>3. ASSUME NEW t \in Tabs, PickSlug(t) PROVE OneTab'
  BY <1>3, <1>a DEF PickSlug, AtTab, Taken, customers, OneTab, TypeOK, Tab
<1>4. ASSUME NEW t \in Tabs, CreateShop(t) PROVE OneTab'
  <2>1. AtTab(t, "create") /\ (Dropped(t) \/ \E s \in Shops : Signed(t, s)) /\ UNCHANGED crossed
    BY <1>4, <1>a, CreateShopEffect
  <2>2. \A u \in Tabs : tab'[u] # None => tab[u] # None /\ tab'[u].person = tab[u].person
    <3>1. CASE Dropped(t)
      BY <1>a, <3>1 DEF Dropped, TypeOK
    <3>2. ASSUME NEW s \in Shops, Signed(t, s)
          PROVE  \A u \in Tabs : tab'[u] # None => tab[u] # None /\ tab'[u].person = tab[u].person
      BY <2>1, <3>2 DEF Signed, Stepped, AtTab
    <3>3. QED
      BY <2>1, <3>1, <3>2
  <2>3. QED
    BY <1>a, <2>1, <2>2 DEF OneTab
<1>5. ASSUME NEW t \in Tabs, AnswerSignup(t) PROVE OneTab'
  BY <1>5, <1>a DEF AnswerSignup, AtTab, EndTab, Cleared, customers, OneTab, TypeOK, Tab
<1>6. ASSUME NEW t \in Tabs, CancelSignup(t) PROVE OneTab'
  BY <1>6, <1>a, CancelEffect DEF AtTab, OneTab, TypeOK, Tab
<1>7. ASSUME NEW t \in Tabs, BeginDebugShop(t) PROVE OneTab'
  BY <1>7, <1>a DEF BeginDebugShop, Begin, customers, OneTab, TypeOK, Tab
<1>8. ASSUME NEW t \in Tabs, CreateDebugShop(t) PROVE OneTab'
  <2>1. AtTab(t, "tenant") /\ (Dropped(t) \/ \E s \in Shops : Debugged(t, s)) /\ UNCHANGED crossed
    BY <1>8, <1>a, DebugShopEffect
  <2>2. \A u \in Tabs : tab'[u] # None => tab[u] # None /\ tab'[u].person = tab[u].person
    <3>1. CASE Dropped(t)
      BY <1>a, <3>1 DEF Dropped, TypeOK
    <3>2. ASSUME NEW s \in Shops, Debugged(t, s)
          PROVE  \A u \in Tabs : tab'[u] # None => tab[u] # None /\ tab'[u].person = tab[u].person
      BY <2>1, <3>2 DEF Debugged, AtTab
    <3>3. QED
      BY <2>1, <3>1, <3>2
  <2>3. QED
    BY <1>a, <2>1, <2>2 DEF OneTab
<1>9. ASSUME NEW t \in Tabs, MoveAdmin(t) PROVE OneTab'
  BY <1>9, <1>a DEF MoveAdmin, AtTab, Continue, customers, OneTab, TypeOK, Tab
<1>10. ASSUME NEW t \in Tabs, BindAdmin(t) PROVE OneTab'
  BY <1>10, <1>a DEF BindAdmin, AtTab, Bound, EndTab, customers, OneTab, TypeOK, Tab
<1>11. ASSUME NEW s \in Shops, SaveSettings(s) PROVE OneTab'
  BY <1>11, <1>a DEF SaveSettings, owners, customers, Taken, OneTab, TypeOK, Tab
<1>12. ASSUME NEW v \in Services, SaveService(v) PROVE OneTab'
  BY <1>12, <1>a DEF SaveService, There, Shown, owners, OneTab, TypeOK, Tab
<1>13. ASSUME NEW v \in Services, DeleteService(v) PROVE OneTab'
  BY <1>13, <1>a DEF DeleteService, There, owners, customers, OneTab, TypeOK, Tab
<1>14. ASSUME Staffed PROVE OneTab'
  BY <1>14, <1>a DEF Staffed, OneTab
<1>15. ASSUME NEW c \in Customers, OpenPage(c) PROVE OneTab'
  BY <1>15, <1>a DEF OpenPage, owners, Bookable, Offered, There, OneTab, TypeOK, Tab
<1>16. ASSUME NEW c \in Customers, Post(c) PROVE OneTab'
  BY <1>16, <1>a DEF Post, owners, OneTab, TypeOK, Tab
<1>17. ASSUME NEW c \in Customers, FindResource(c) PROVE OneTab'
  BY <1>17, <1>a, FindResourceEffect DEF Called, Bookable, AtCall, OneTab, TypeOK, Tab
<1>18. ASSUME NEW c \in Customers, FindService(c) PROVE OneTab'
  <2>1. AtCall(c, "service") /\ page[c] \in Page /\ (Called(c, None) \/ \E x \in Call :
       Found(c, x)) /\ UNCHANGED <<account, session, tab, crossed, shop, resource,
       service, page, resaved>>
    BY <1>18, <1>a, FindServiceEffect
  <2>2. ASSUME Called(c, None) PROVE OneTab'
    BY <1>a, <2>1, <2>2 DEF Called, AtCall, OneTab, TypeOK
  <2>3. ASSUME NEW x \in Call, Found(c, x) PROVE OneTab'
    BY <1>a, <2>1, <2>3 DEF Found, Called, AtCall, Offered, OneTab, TypeOK
  <2>4. QED
    BY <2>1, <2>2, <2>3
<1>19. ASSUME NEW c \in Customers, Book(c) PROVE OneTab'
  BY <1>19, <1>a DEF Book, owners, AtCall, Refuse, Booked, There, OneTab, TypeOK, Tab
<1>20. ASSUME UNCHANGED vars PROVE OneTab'
  BY <1>20, <1>a DEF vars, OneTab, TypeOK, Tab
<1> QED
  BY <1>a, StaffEffect, ResourceEffect, <1>1, <1>2, <1>3, <1>4, <1>5, <1>6, <1>7, <1>8, <1>9, <1>10, <1>11, <1>12, <1>13,
       <1>14, <1>15, <1>16, <1>17, <1>18, <1>19, <1>20 DEF Next

\* The form opens only for an account without a shop, and the one request there
\* is makes the shop in its last step.
LEMMA NoShopYetStep == ASSUME IInv, [Next]_vars PROVE NoShopYet'
<1> USE ShopFrontAssumption
<1>a. TypeOK /\ OwnSteps /\ OneTab /\ NoShopYet /\ ShopKeepsOwner /\ CallHasPage
  BY DEF IInv
<1>1. ASSUME NEW p \in People \ {Admin}, StartSignup(p) PROVE NoShopYet'
  BY <1>1, <1>a DEF StartSignup, customers, Cleared, NoShopYet, OneTab, ShopKeepsOwner,
       AtTab, TypeOK, Tab, ShopRow
<1>2. ASSUME NEW t \in Tabs, NEW p \in People \ {Admin}, OpenForm(t, p) PROVE NoShopYet'
  BY <1>2, <1>a DEF OpenForm, Begin, customers, Cleared, NoShopYet, OneTab,
       ShopKeepsOwner, AtTab, TypeOK, Tab, ShopRow
<1>3. ASSUME NEW t \in Tabs, PickSlug(t) PROVE NoShopYet'
  BY <1>3, <1>a DEF PickSlug, AtTab, Taken, customers, NoShopYet, OneTab,
       ShopKeepsOwner, TypeOK, Tab, ShopRow
<1>4. ASSUME NEW t \in Tabs, CreateShop(t) PROVE NoShopYet'
  <2>1. AtTab(t, "create") /\ tab[t].person \in People \ {Admin} /\ (Dropped(t) \/ \E s
       \in Shops : Signed(t, s)) /\ UNCHANGED <<session, crossed, page, call,
       resaved>>
    BY <1>4, <1>a, CreateShopEffect
  <2>2. ASSUME Dropped(t) PROVE NoShopYet'
    BY <1>a, <2>1, <2>2 DEF Dropped, NoShopYet, OneTab, ShopKeepsOwner, AtTab, TypeOK
  <2>3. ASSUME NEW s \in Shops, Signed(t, s) PROVE NoShopYet'
    BY SMTT(30), <1>a, <2>1, <2>3 DEF Signed, Stepped, Founded, NoShopYet, OneTab,
         ShopKeepsOwner, AtTab, TypeOK
  <2>4. QED
    BY <2>1, <2>2, <2>3
<1>5. ASSUME NEW t \in Tabs, AnswerSignup(t) PROVE NoShopYet'
  BY <1>5, <1>a DEF AnswerSignup, AtTab, EndTab, Cleared, customers, NoShopYet, OneTab,
       ShopKeepsOwner, TypeOK, Tab, ShopRow
<1>6. ASSUME NEW t \in Tabs, CancelSignup(t) PROVE NoShopYet'
  BY SMTT(30), <1>6, <1>a, CancelEffect DEF AtTab, NoShopYet, OneTab, ShopKeepsOwner, TypeOK, Tab,
       ShopRow
<1>7. ASSUME NEW t \in Tabs, BeginDebugShop(t) PROVE NoShopYet'
  BY <1>7, <1>a DEF BeginDebugShop, Begin, customers, NoShopYet, OneTab, ShopKeepsOwner,
       AtTab, TypeOK, Tab, ShopRow
<1>8. ASSUME NEW t \in Tabs, CreateDebugShop(t) PROVE NoShopYet'
  <2>1. AtTab(t, "tenant") /\ (Dropped(t) \/ \E s \in Shops : Debugged(t, s)) /\
       UNCHANGED <<session, crossed, page, call, resaved>>
    BY <1>8, <1>a, DebugShopEffect
  <2>2. ASSUME Dropped(t) PROVE NoShopYet'
    BY <1>a, <2>1, <2>2 DEF Dropped, NoShopYet, OneTab, ShopKeepsOwner, AtTab, TypeOK
  <2>3. ASSUME NEW s \in Shops, Debugged(t, s) PROVE NoShopYet'
    BY <1>a, <2>1, <2>3 DEF Debugged, Founded, NoShopYet, OneTab, ShopKeepsOwner, AtTab,
         TypeOK
  <2>4. QED
    BY <2>1, <2>2, <2>3
<1>9. ASSUME NEW t \in Tabs, MoveAdmin(t) PROVE NoShopYet'
  BY <1>9, <1>a DEF MoveAdmin, AtTab, Continue, customers, NoShopYet, OneTab,
       ShopKeepsOwner, TypeOK, Tab, ShopRow
<1>10. ASSUME NEW t \in Tabs, BindAdmin(t) PROVE NoShopYet'
  BY <1>10, <1>a DEF BindAdmin, AtTab, Bound, EndTab, customers, NoShopYet, OneTab,
       ShopKeepsOwner, TypeOK, Tab, ShopRow
<1>11. ASSUME NEW s \in Shops, SaveSettings(s) PROVE NoShopYet'
  BY <1>11, <1>a DEF SaveSettings, owners, customers, Taken, NoShopYet, OneTab,
       ShopKeepsOwner, AtTab, TypeOK, Tab, ShopRow
<1>12. ASSUME NEW v \in Services, SaveService(v) PROVE NoShopYet'
  BY <1>12, <1>a DEF SaveService, There, Shown, owners, NoShopYet, OneTab,
       ShopKeepsOwner, AtTab, TypeOK, Tab, ShopRow
<1>13. ASSUME NEW v \in Services, DeleteService(v) PROVE NoShopYet'
  BY <1>13, <1>a DEF DeleteService, There, owners, customers, NoShopYet, OneTab,
       ShopKeepsOwner, AtTab, TypeOK, Tab, ShopRow
<1>14. ASSUME Staffed PROVE NoShopYet'
  BY <1>14, <1>a DEF Staffed, NoShopYet, AtTab
<1>15. ASSUME NEW c \in Customers, OpenPage(c) PROVE NoShopYet'
  BY <1>15, <1>a DEF OpenPage, owners, Bookable, Offered, There, NoShopYet, OneTab,
       ShopKeepsOwner, AtTab, TypeOK, Tab, ShopRow
<1>16. ASSUME NEW c \in Customers, Post(c) PROVE NoShopYet'
  BY <1>16, <1>a DEF Post, owners, NoShopYet, OneTab, ShopKeepsOwner, AtTab, TypeOK,
       Tab, ShopRow
<1>17. ASSUME NEW c \in Customers, FindResource(c) PROVE NoShopYet'
  BY <1>17, <1>a, FindResourceEffect DEF Called, Bookable, AtCall, NoShopYet, OneTab,
       ShopKeepsOwner, AtTab, TypeOK, Tab, ShopRow
<1>18. ASSUME NEW c \in Customers, FindService(c) PROVE NoShopYet'
  <2>1. AtCall(c, "service") /\ page[c] \in Page /\ (Called(c, None) \/ \E x \in Call :
       Found(c, x)) /\ UNCHANGED <<account, session, tab, crossed, shop, resource,
       service, page, resaved>>
    BY <1>18, <1>a, FindServiceEffect
  <2>2. ASSUME Called(c, None) PROVE NoShopYet'
    BY <1>a, <2>1, <2>2 DEF Called, AtCall, NoShopYet, OneTab, ShopKeepsOwner, AtTab,
         TypeOK
  <2>3. ASSUME NEW x \in Call, Found(c, x) PROVE NoShopYet'
    BY <1>a, <2>1, <2>3 DEF Found, Called, AtCall, Offered, NoShopYet, OneTab,
         ShopKeepsOwner, AtTab, TypeOK
  <2>4. QED
    BY <2>1, <2>2, <2>3
<1>19. ASSUME NEW c \in Customers, Book(c) PROVE NoShopYet'
  BY <1>19, <1>a DEF Book, owners, AtCall, Refuse, Booked, There, NoShopYet, OneTab,
       ShopKeepsOwner, AtTab, TypeOK, Tab, ShopRow
<1>20. ASSUME UNCHANGED vars PROVE NoShopYet'
  BY <1>20, <1>a DEF vars, NoShopYet, OneTab, ShopKeepsOwner, AtTab, TypeOK, Tab,
       ShopRow
<1> QED
  BY <1>a, StaffEffect, ResourceEffect, <1>1, <1>2, <1>3, <1>4, <1>5, <1>6, <1>7, <1>8, <1>9, <1>10, <1>11, <1>12, <1>13,
       <1>14, <1>15, <1>16, <1>17, <1>18, <1>19, <1>20 DEF Next

\* No account changes that has a shop.
LEMMA ShopKeepsOwnerStep == ASSUME IInv, [Next]_vars PROVE ShopKeepsOwner'
<1> USE ShopFrontAssumption
<1>a. TypeOK /\ OwnSteps /\ OneTab /\ NoShopYet /\ ShopKeepsOwner /\ CallHasPage
  BY DEF IInv
<1>1. ASSUME NEW p \in People \ {Admin}, StartSignup(p) PROVE ShopKeepsOwner'
  BY <1>1, <1>a DEF StartSignup, customers, Cleared, ShopKeepsOwner, NoShopYet,
       OwnSteps, AtTab, TypeOK, Tab, ShopRow
<1>2. ASSUME NEW t \in Tabs, NEW p \in People \ {Admin}, OpenForm(t, p) PROVE
     ShopKeepsOwner'
  BY <1>2, <1>a DEF OpenForm, Begin, customers, Cleared, ShopKeepsOwner, NoShopYet,
       OwnSteps, AtTab, TypeOK, Tab, ShopRow
<1>3. ASSUME NEW t \in Tabs, PickSlug(t) PROVE ShopKeepsOwner'
  BY <1>3, <1>a DEF PickSlug, AtTab, Taken, customers, ShopKeepsOwner, NoShopYet,
       OwnSteps, TypeOK, Tab, ShopRow
<1>4. ASSUME NEW t \in Tabs, CreateShop(t) PROVE ShopKeepsOwner'
  <2>1. AtTab(t, "create") /\ tab[t].person \in People \ {Admin} /\ (Dropped(t) \/ \E s
       \in Shops : Signed(t, s)) /\ UNCHANGED <<session, crossed, page, call,
       resaved>>
    BY <1>4, <1>a, CreateShopEffect
  <2>2. ASSUME Dropped(t) PROVE ShopKeepsOwner'
    BY <1>a, <2>1, <2>2 DEF Dropped, ShopKeepsOwner, NoShopYet, OwnSteps, AtTab, TypeOK
  <2>3. ASSUME NEW s \in Shops, Signed(t, s) PROVE ShopKeepsOwner'
    BY SMTT(30), <1>a, <2>1, <2>3 DEF Signed, Stepped, Founded, ShopKeepsOwner,
         NoShopYet, OwnSteps, AtTab, TypeOK
  <2>4. QED
    BY <2>1, <2>2, <2>3
<1>5. ASSUME NEW t \in Tabs, AnswerSignup(t) PROVE ShopKeepsOwner'
  BY <1>5, <1>a DEF AnswerSignup, AtTab, EndTab, Cleared, customers, ShopKeepsOwner,
       NoShopYet, OwnSteps, TypeOK, Tab, ShopRow
<1>6. ASSUME NEW t \in Tabs, CancelSignup(t) PROVE ShopKeepsOwner'
  BY <1>6, <1>a, CancelEffect DEF AtTab, ShopKeepsOwner, NoShopYet, OwnSteps, TypeOK,
       Tab, ShopRow
<1>7. ASSUME NEW t \in Tabs, BeginDebugShop(t) PROVE ShopKeepsOwner'
  BY <1>7, <1>a DEF BeginDebugShop, Begin, customers, ShopKeepsOwner, NoShopYet,
       OwnSteps, AtTab, TypeOK, Tab, ShopRow
<1>8. ASSUME NEW t \in Tabs, CreateDebugShop(t) PROVE ShopKeepsOwner'
  <2>1. AtTab(t, "tenant") /\ (Dropped(t) \/ \E s \in Shops : Debugged(t, s)) /\
       UNCHANGED <<session, crossed, page, call, resaved>>
    BY <1>8, <1>a, DebugShopEffect
  <2>2. ASSUME Dropped(t) PROVE ShopKeepsOwner'
    BY <1>a, <2>1, <2>2 DEF Dropped, ShopKeepsOwner, NoShopYet, OwnSteps, AtTab, TypeOK
  <2>3. ASSUME NEW s \in Shops, Debugged(t, s) PROVE ShopKeepsOwner'
    BY <1>a, <2>1, <2>3 DEF Debugged, Founded, ShopKeepsOwner, NoShopYet, OwnSteps,
         AtTab, TypeOK
  <2>4. QED
    BY <2>1, <2>2, <2>3
<1>9. ASSUME NEW t \in Tabs, MoveAdmin(t) PROVE ShopKeepsOwner'
  BY <1>9, <1>a DEF MoveAdmin, AtTab, Continue, customers, ShopKeepsOwner, NoShopYet,
       OwnSteps, TypeOK, Tab, ShopRow
<1>10. ASSUME NEW t \in Tabs, BindAdmin(t) PROVE ShopKeepsOwner'
  BY <1>10, <1>a DEF BindAdmin, AtTab, Bound, EndTab, customers, ShopKeepsOwner,
       NoShopYet, OwnSteps, TypeOK, Tab, ShopRow
<1>11. ASSUME NEW s \in Shops, SaveSettings(s) PROVE ShopKeepsOwner'
  BY <1>11, <1>a DEF SaveSettings, owners, customers, Taken, ShopKeepsOwner, NoShopYet,
       OwnSteps, AtTab, TypeOK, Tab, ShopRow
<1>12. ASSUME NEW v \in Services, SaveService(v) PROVE ShopKeepsOwner'
  BY <1>12, <1>a DEF SaveService, There, Shown, owners, ShopKeepsOwner, NoShopYet,
       OwnSteps, AtTab, TypeOK, Tab, ShopRow
<1>13. ASSUME NEW v \in Services, DeleteService(v) PROVE ShopKeepsOwner'
  BY <1>13, <1>a DEF DeleteService, There, owners, customers, ShopKeepsOwner, NoShopYet,
       OwnSteps, AtTab, TypeOK, Tab, ShopRow
<1>14. ASSUME Staffed PROVE ShopKeepsOwner'
  <2> SUFFICES ASSUME NEW p \in People, NEW s \in Shops, account[p] \in {s, None},
                      account' = [account EXCEPT ![p] = s]
               PROVE  ShopKeepsOwner'
    BY <1>14, <1>a DEF Staffed, ShopKeepsOwner
  <2> SUFFICES ASSUME NEW x \in Shops, shop[x] # None, shop[x].founder \notin crossed \cup {Admin}
               PROVE  account'[shop[x].founder] = x
    BY <1>14 DEF Staffed, ShopKeepsOwner
  <2>1. account[shop[x].founder] = x /\ x # None
    BY <1>a DEF ShopKeepsOwner
  <2>2. QED
    BY <1>a, <2>1 DEF TypeOK, ShopRow
<1>15. ASSUME NEW c \in Customers, OpenPage(c) PROVE ShopKeepsOwner'
  BY <1>15, <1>a DEF OpenPage, owners, Bookable, Offered, There, ShopKeepsOwner,
       NoShopYet, OwnSteps, AtTab, TypeOK, Tab, ShopRow
<1>16. ASSUME NEW c \in Customers, Post(c) PROVE ShopKeepsOwner'
  BY <1>16, <1>a DEF Post, owners, ShopKeepsOwner, NoShopYet, OwnSteps, AtTab, TypeOK,
       Tab, ShopRow
<1>17. ASSUME NEW c \in Customers, FindResource(c) PROVE ShopKeepsOwner'
  BY <1>17, <1>a, FindResourceEffect DEF Called, Bookable, AtCall, ShopKeepsOwner,
       NoShopYet, OwnSteps, AtTab, TypeOK, Tab, ShopRow
<1>18. ASSUME NEW c \in Customers, FindService(c) PROVE ShopKeepsOwner'
  <2>1. AtCall(c, "service") /\ page[c] \in Page /\ (Called(c, None) \/ \E x \in Call :
       Found(c, x)) /\ UNCHANGED <<account, session, tab, crossed, shop, resource,
       service, page, resaved>>
    BY <1>18, <1>a, FindServiceEffect
  <2>2. ASSUME Called(c, None) PROVE ShopKeepsOwner'
    BY <1>a, <2>1, <2>2 DEF Called, AtCall, ShopKeepsOwner, NoShopYet, OwnSteps, AtTab,
         TypeOK
  <2>3. ASSUME NEW x \in Call, Found(c, x) PROVE ShopKeepsOwner'
    BY <1>a, <2>1, <2>3 DEF Found, Called, AtCall, Offered, ShopKeepsOwner, NoShopYet,
         OwnSteps, AtTab, TypeOK
  <2>4. QED
    BY <2>1, <2>2, <2>3
<1>19. ASSUME NEW c \in Customers, Book(c) PROVE ShopKeepsOwner'
  BY <1>19, <1>a DEF Book, owners, AtCall, Refuse, Booked, There, ShopKeepsOwner,
       NoShopYet, OwnSteps, AtTab, TypeOK, Tab, ShopRow
<1>20. ASSUME UNCHANGED vars PROVE ShopKeepsOwner'
  BY <1>20, <1>a DEF vars, ShopKeepsOwner, NoShopYet, OwnSteps, AtTab, TypeOK, Tab,
       ShopRow
<1> QED
  BY <1>a, StaffEffect, ResourceEffect, <1>1, <1>2, <1>3, <1>4, <1>5, <1>6, <1>7, <1>8, <1>9, <1>10, <1>11, <1>12, <1>13,
       <1>14, <1>15, <1>16, <1>17, <1>18, <1>19, <1>20 DEF Next

\* A page stays open while its request runs.
LEMMA CallHasPageStep == ASSUME IInv, [Next]_vars PROVE CallHasPage'
<1> USE ShopFrontAssumption
<1>a. TypeOK /\ OwnSteps /\ CallHasPage
  BY DEF IInv
<1>1. ASSUME NEW p \in People \ {Admin}, StartSignup(p) PROVE CallHasPage'
  BY <1>1, <1>a DEF StartSignup, customers, Cleared, CallHasPage,
       OwnSteps, AtTab, TypeOK, Resource, Call, Page
<1>2. ASSUME NEW t \in Tabs, NEW p \in People \ {Admin}, OpenForm(t, p) PROVE
     CallHasPage'
  BY <1>2, <1>a DEF OpenForm, Begin, customers, Cleared, CallHasPage,
       OwnSteps, AtTab, TypeOK, Resource, Call, Page
<1>3. ASSUME NEW t \in Tabs, PickSlug(t) PROVE CallHasPage'
  BY <1>3, <1>a DEF PickSlug, AtTab, Taken, customers, CallHasPage,
       OwnSteps, TypeOK, Resource, Call, Page
<1>4. ASSUME NEW t \in Tabs, CreateShop(t) PROVE CallHasPage'
  <2>1. AtTab(t, "create") /\ tab[t].person \in People \ {Admin} /\ (Dropped(t) \/ \E s
       \in Shops : Signed(t, s)) /\ UNCHANGED <<session, crossed, page, call,
       resaved>>
    BY <1>4, <1>a, CreateShopEffect
  <2>2. ASSUME Dropped(t) PROVE CallHasPage'
    BY <1>a, <2>1, <2>2 DEF Dropped, CallHasPage, OwnSteps, AtTab,
         TypeOK, Page
  <2>3. ASSUME NEW s \in Shops, Signed(t, s) PROVE CallHasPage'
    BY SMTT(30), <1>a, <2>1, <2>3 DEF Signed, Stepped, Founded, CallHasPage, OwnSteps, AtTab, TypeOK, Page
  <2>4. QED
    BY <2>1, <2>2, <2>3
<1>5. ASSUME NEW t \in Tabs, AnswerSignup(t) PROVE CallHasPage'
  BY <1>5, <1>a DEF AnswerSignup, AtTab, EndTab, Cleared, customers, CallHasPage, OwnSteps, TypeOK, Resource, Call, Page
<1>6. ASSUME NEW t \in Tabs, CancelSignup(t) PROVE CallHasPage'
  BY <1>6, <1>a, CancelEffect DEF CallHasPage
<1>7. ASSUME NEW t \in Tabs, BeginDebugShop(t) PROVE CallHasPage'
  BY <1>7, <1>a DEF BeginDebugShop, Begin, customers, CallHasPage,
       OwnSteps, AtTab, TypeOK, Resource, Call, Page
<1>8. ASSUME NEW t \in Tabs, CreateDebugShop(t) PROVE CallHasPage'
  <2>1. AtTab(t, "tenant") /\ (Dropped(t) \/ \E s \in Shops : Debugged(t, s)) /\
       UNCHANGED <<session, crossed, page, call, resaved>>
    BY <1>8, <1>a, DebugShopEffect
  <2>2. ASSUME Dropped(t) PROVE CallHasPage'
    BY <1>a, <2>1, <2>2 DEF Dropped, CallHasPage, OwnSteps, AtTab,
         TypeOK, Page
  <2>3. ASSUME NEW s \in Shops, Debugged(t, s) PROVE CallHasPage'
    BY <1>a, <2>1, <2>3 DEF Debugged, Founded, CallHasPage, OwnSteps,
         AtTab, TypeOK, Page
  <2>4. QED
    BY <2>1, <2>2, <2>3
<1>9. ASSUME NEW t \in Tabs, MoveAdmin(t) PROVE CallHasPage'
  BY <1>9, <1>a DEF MoveAdmin, AtTab, Continue, customers, CallHasPage,
       OwnSteps, TypeOK, Resource, Call, Page
<1>10. ASSUME NEW t \in Tabs, BindAdmin(t) PROVE CallHasPage'
  BY <1>10, <1>a DEF BindAdmin, AtTab, Bound, EndTab, customers, CallHasPage, OwnSteps, TypeOK, Resource, Call, Page
<1>11. ASSUME NEW s \in Shops, SaveSettings(s) PROVE CallHasPage'
  BY <1>11, <1>a DEF SaveSettings, owners, customers, Taken, CallHasPage,
       OwnSteps, AtTab, TypeOK, Resource, Call, Page
<1>12. ASSUME NEW v \in Services, SaveService(v) PROVE CallHasPage'
  BY <1>12, <1>a DEF SaveService, There, Shown, owners, CallHasPage,
       OwnSteps, AtTab, TypeOK, Resource, Call, Page
<1>13. ASSUME NEW v \in Services, DeleteService(v) PROVE CallHasPage'
  BY <1>13, <1>a DEF DeleteService, There, owners, customers, CallHasPage, OwnSteps, AtTab, TypeOK, Resource, Call, Page
<1>14. ASSUME Staffed PROVE CallHasPage'
  BY <1>14, <1>a DEF Staffed, CallHasPage
<1>15. ASSUME NEW c \in Customers, OpenPage(c) PROVE CallHasPage'
  BY <1>15, <1>a DEF OpenPage, owners, Bookable, Offered, There, CallHasPage, OwnSteps, AtTab, TypeOK, Resource, Call, Page
<1>16. ASSUME NEW c \in Customers, Post(c) PROVE CallHasPage'
  BY <1>16, <1>a DEF Post, owners, CallHasPage, OwnSteps, AtTab, TypeOK,
       Resource, Call, Page
<1>17. ASSUME NEW c \in Customers, FindResource(c) PROVE CallHasPage'
  BY <1>17, <1>a, FindResourceEffect DEF Called, Bookable, AtCall, CallHasPage, OwnSteps, AtTab, TypeOK, Resource, Call, Page
<1>18. ASSUME NEW c \in Customers, FindService(c) PROVE CallHasPage'
  <2>1. AtCall(c, "service") /\ page[c] \in Page /\ (Called(c, None) \/ \E x \in Call :
       Found(c, x)) /\ UNCHANGED <<account, session, tab, crossed, shop, resource,
       service, page, resaved>>
    BY <1>18, <1>a, FindServiceEffect
  <2>2. ASSUME Called(c, None) PROVE CallHasPage'
    BY <1>a, <2>1, <2>2 DEF Called, AtCall, CallHasPage, OwnSteps, AtTab,
         TypeOK, Page
  <2>3. ASSUME NEW x \in Call, Found(c, x) PROVE CallHasPage'
    BY <1>a, <2>1, <2>3 DEF Found, Called, AtCall, Offered, CallHasPage,
         OwnSteps, AtTab, TypeOK, Page
  <2>4. QED
    BY <2>1, <2>2, <2>3
<1>19. ASSUME NEW c \in Customers, Book(c) PROVE CallHasPage'
  BY SMTT(30), <1>19, <1>a DEF Book, owners, AtCall, Refuse, Booked, There, CallHasPage, OwnSteps, AtTab, TypeOK, Resource, Call, Page
<1>20. ASSUME UNCHANGED vars PROVE CallHasPage'
  BY <1>20, <1>a DEF vars, CallHasPage, OwnSteps, AtTab, TypeOK,
       Resource, Call, Page
<1> QED
  BY <1>a, StaffEffect, ResourceEffect, <1>1, <1>2, <1>3, <1>4, <1>5, <1>6, <1>7, <1>8, <1>9, <1>10, <1>11, <1>12, <1>13,
       <1>14, <1>15, <1>16, <1>17, <1>18, <1>19, <1>20 DEF Next

\* Every save of a service marks the customers it is shown to.
LEMMA ServiceShownStep == ASSUME IInv, [Next]_vars PROVE ServiceShown'
<1> USE ShopFrontAssumption
<1>a. TypeOK /\ ServiceShown /\ CallHasPage /\ OwnSteps
  BY DEF IInv
<1>1. ASSUME NEW p \in People \ {Admin}, StartSignup(p) PROVE ServiceShown'
  BY <1>1, <1>a DEF StartSignup, customers, Cleared, ServiceShown, CallHasPage, There,
       TypeOK, Service, Page, Call
<1>2. ASSUME NEW t \in Tabs, NEW p \in People \ {Admin}, OpenForm(t, p) PROVE
     ServiceShown'
  BY <1>2, <1>a DEF OpenForm, Begin, customers, Cleared, ServiceShown, CallHasPage,
       There, TypeOK, Service, Page, Call
<1>3. ASSUME NEW t \in Tabs, PickSlug(t) PROVE ServiceShown'
  BY <1>3, <1>a DEF PickSlug, AtTab, Taken, customers, ServiceShown, CallHasPage,
       There, TypeOK, Service, Page, Call
<1>4. ASSUME NEW t \in Tabs, CreateShop(t) PROVE ServiceShown'
  <2>1. AtTab(t, "create") /\ tab[t].person \in People \ {Admin} /\ (Dropped(t) \/ \E s
       \in Shops : Signed(t, s)) /\ UNCHANGED <<session, crossed, page, call,
       resaved>>
    BY <1>4, <1>a, CreateShopEffect
  <2>2. ASSUME Dropped(t) PROVE ServiceShown'
    BY <1>a, <2>1, <2>2 DEF Dropped, ServiceShown, There, TypeOK, Page
  <2>3. ASSUME NEW s \in Shops, Signed(t, s) PROVE ServiceShown'
    BY SMTT(30), <1>a, <2>1, <2>3 DEF Signed, Stepped, Founded, ServiceShown, There,
         TypeOK, Page
  <2>4. QED
    BY <2>1, <2>2, <2>3
<1>5. ASSUME NEW t \in Tabs, AnswerSignup(t) PROVE ServiceShown'
  BY <1>5, <1>a DEF AnswerSignup, AtTab, EndTab, Cleared, customers, ServiceShown,
       CallHasPage, There, TypeOK, Service, Page, Call
<1>6. ASSUME NEW t \in Tabs, CancelSignup(t) PROVE ServiceShown'
  BY <1>6, <1>a, CancelEffect DEF AtTab, ServiceShown, CallHasPage, There, TypeOK,
       Service, Page, Call
<1>7. ASSUME NEW t \in Tabs, BeginDebugShop(t) PROVE ServiceShown'
  BY <1>7, <1>a DEF BeginDebugShop, Begin, customers, ServiceShown, CallHasPage, There,
       TypeOK, Service, Page, Call
<1>8. ASSUME NEW t \in Tabs, CreateDebugShop(t) PROVE ServiceShown'
  <2>1. AtTab(t, "tenant") /\ (Dropped(t) \/ \E s \in Shops : Debugged(t, s)) /\
       UNCHANGED <<session, crossed, page, call, resaved>>
    BY <1>8, <1>a, DebugShopEffect
  <2>2. ASSUME Dropped(t) PROVE ServiceShown'
    BY <1>a, <2>1, <2>2 DEF Dropped, ServiceShown, There, TypeOK, Page
  <2>3. ASSUME NEW s \in Shops, Debugged(t, s) PROVE ServiceShown'
    BY <1>a, <2>1, <2>3 DEF Debugged, Founded, ServiceShown, There, TypeOK, Page
  <2>4. QED
    BY <2>1, <2>2, <2>3
<1>9. ASSUME NEW t \in Tabs, MoveAdmin(t) PROVE ServiceShown'
  BY <1>9, <1>a DEF MoveAdmin, AtTab, Continue, customers, ServiceShown, CallHasPage,
       There, TypeOK, Service, Page, Call
<1>10. ASSUME NEW t \in Tabs, BindAdmin(t) PROVE ServiceShown'
  BY <1>10, <1>a DEF BindAdmin, AtTab, Bound, EndTab, customers, ServiceShown,
       CallHasPage, There, TypeOK, Service, Page, Call
<1>11. ASSUME NEW s \in Shops, SaveSettings(s) PROVE ServiceShown'
  BY <1>11, <1>a DEF SaveSettings, owners, customers, Taken, ServiceShown, CallHasPage,
       There, TypeOK, Service, Page, Call
<1>12. ASSUME NEW v \in Services, SaveService(v) PROVE ServiceShown'
  BY <1>12, <1>a DEF SaveService, There, Shown, owners, ServiceShown, CallHasPage,
       TypeOK, Service, Page, Call
<1>13. ASSUME NEW v \in Services, DeleteService(v) PROVE ServiceShown'
  BY <1>13, <1>a DEF DeleteService, There, owners, customers, ServiceShown,
       CallHasPage, TypeOK, Service, Page, Call
<1>14. ASSUME Staffed PROVE ServiceShown'
  BY <1>14, <1>a DEF Staffed, ServiceShown, There
<1>15. ASSUME NEW c \in Customers, OpenPage(c) PROVE ServiceShown'
  BY <1>15, <1>a DEF OpenPage, owners, Bookable, Offered, There, ServiceShown,
       CallHasPage, TypeOK, Service, Page, Call
<1>16. ASSUME NEW c \in Customers, Post(c) PROVE ServiceShown'
  BY <1>16, <1>a DEF Post, owners, ServiceShown, CallHasPage, There, TypeOK, Service,
       Page, Call
<1>17. ASSUME NEW c \in Customers, FindResource(c) PROVE ServiceShown'
  BY <1>17, <1>a, FindResourceEffect DEF Called, Bookable, AtCall, ServiceShown,
       CallHasPage, There, TypeOK, Service, Page, Call
<1>18. ASSUME NEW c \in Customers, FindService(c) PROVE ServiceShown'
  <2>1. AtCall(c, "service") /\ page[c] \in Page /\ (Called(c, None) \/ \E x \in Call :
       Found(c, x)) /\ UNCHANGED <<account, session, tab, crossed, shop, resource,
       service, page, resaved>>
    BY <1>18, <1>a, FindServiceEffect
  <2>2. ASSUME Called(c, None) PROVE ServiceShown'
    BY <1>a, <2>1, <2>2 DEF Called, AtCall, ServiceShown, There, TypeOK, Page
  <2>3. ASSUME NEW x \in Call, Found(c, x) PROVE ServiceShown'
    BY <1>a, <2>1, <2>3 DEF Found, Called, AtCall, Offered, ServiceShown, There, TypeOK,
         Page
  <2>4. QED
    BY <2>1, <2>2, <2>3
<1>19. ASSUME NEW c \in Customers, Book(c) PROVE ServiceShown'
  BY <1>19, <1>a DEF Book, owners, AtCall, Refuse, Booked, There, ServiceShown,
       CallHasPage, TypeOK, Service, Page, Call
<1>20. ASSUME UNCHANGED vars PROVE ServiceShown'
  BY <1>20, <1>a DEF vars, ServiceShown, CallHasPage, There, TypeOK, Service, Page,
       Call
<1> QED
  BY <1>a, StaffEffect, ResourceEffect, <1>1, <1>2, <1>3, <1>4, <1>5, <1>6, <1>7, <1>8, <1>9, <1>10, <1>11, <1>12, <1>13,
       <1>14, <1>15, <1>16, <1>17, <1>18, <1>19, <1>20 DEF Next

\* A service keeps its shop.
LEMMA ServiceFoundStep == ASSUME IInv, [Next]_vars PROVE ServiceFound'
<1> USE ShopFrontAssumption
<1>a. TypeOK /\ ServiceFound /\ ServiceShown /\ CallHasPage /\ OwnSteps
  BY DEF IInv
<1>1. ASSUME NEW p \in People \ {Admin}, StartSignup(p) PROVE ServiceFound'
  BY <1>1, <1>a DEF StartSignup, customers, Cleared, ServiceFound, ServiceShown,
       CallHasPage, AtCall, There, TypeOK, Service, Page, Call
<1>2. ASSUME NEW t \in Tabs, NEW p \in People \ {Admin}, OpenForm(t, p) PROVE
     ServiceFound'
  BY <1>2, <1>a DEF OpenForm, Begin, customers, Cleared, ServiceFound, ServiceShown,
       CallHasPage, AtCall, There, TypeOK, Service, Page, Call
<1>3. ASSUME NEW t \in Tabs, PickSlug(t) PROVE ServiceFound'
  BY <1>3, <1>a DEF PickSlug, AtTab, Taken, customers, ServiceFound, ServiceShown,
       CallHasPage, AtCall, There, TypeOK, Service, Page, Call
<1>4. ASSUME NEW t \in Tabs, CreateShop(t) PROVE ServiceFound'
  <2>1. AtTab(t, "create") /\ tab[t].person \in People \ {Admin} /\ (Dropped(t) \/ \E s
       \in Shops : Signed(t, s)) /\ UNCHANGED <<session, crossed, page, call,
       resaved>>
    BY <1>4, <1>a, CreateShopEffect
  <2>2. ASSUME Dropped(t) PROVE ServiceFound'
    BY <1>a, <2>1, <2>2 DEF Dropped, ServiceFound, ServiceShown, AtCall, There, TypeOK,
         Page, Call
  <2>3. ASSUME NEW s \in Shops, Signed(t, s) PROVE ServiceFound'
    BY SMTT(30), <1>a, <2>1, <2>3 DEF Signed, Stepped, Founded, ServiceFound,
         ServiceShown, AtCall, There, TypeOK, Page, Call
  <2>4. QED
    BY <2>1, <2>2, <2>3
<1>5. ASSUME NEW t \in Tabs, AnswerSignup(t) PROVE ServiceFound'
  BY <1>5, <1>a DEF AnswerSignup, AtTab, EndTab, Cleared, customers, ServiceFound,
       ServiceShown, CallHasPage, AtCall, There, TypeOK, Service, Page, Call
<1>6. ASSUME NEW t \in Tabs, CancelSignup(t) PROVE ServiceFound'
  BY <1>6, <1>a, CancelEffect DEF AtTab, ServiceFound, ServiceShown, CallHasPage,
       AtCall, There, TypeOK, Service, Page, Call
<1>7. ASSUME NEW t \in Tabs, BeginDebugShop(t) PROVE ServiceFound'
  BY <1>7, <1>a DEF BeginDebugShop, Begin, customers, ServiceFound, ServiceShown,
       CallHasPage, AtCall, There, TypeOK, Service, Page, Call
<1>8. ASSUME NEW t \in Tabs, CreateDebugShop(t) PROVE ServiceFound'
  <2>1. AtTab(t, "tenant") /\ (Dropped(t) \/ \E s \in Shops : Debugged(t, s)) /\
       UNCHANGED <<session, crossed, page, call, resaved>>
    BY <1>8, <1>a, DebugShopEffect
  <2>2. ASSUME Dropped(t) PROVE ServiceFound'
    BY <1>a, <2>1, <2>2 DEF Dropped, ServiceFound, ServiceShown, AtCall, There, TypeOK,
         Page, Call
  <2>3. ASSUME NEW s \in Shops, Debugged(t, s) PROVE ServiceFound'
    BY <1>a, <2>1, <2>3 DEF Debugged, Founded, ServiceFound, ServiceShown, AtCall,
         There, TypeOK, Page, Call
  <2>4. QED
    BY <2>1, <2>2, <2>3
<1>9. ASSUME NEW t \in Tabs, MoveAdmin(t) PROVE ServiceFound'
  BY <1>9, <1>a DEF MoveAdmin, AtTab, Continue, customers, ServiceFound, ServiceShown,
       CallHasPage, AtCall, There, TypeOK, Service, Page, Call
<1>10. ASSUME NEW t \in Tabs, BindAdmin(t) PROVE ServiceFound'
  BY <1>10, <1>a DEF BindAdmin, AtTab, Bound, EndTab, customers, ServiceFound,
       ServiceShown, CallHasPage, AtCall, There, TypeOK, Service, Page, Call
<1>11. ASSUME NEW s \in Shops, SaveSettings(s) PROVE ServiceFound'
  BY <1>11, <1>a DEF SaveSettings, owners, customers, Taken, ServiceFound, ServiceShown,
       CallHasPage, AtCall, There, TypeOK, Service, Page, Call
<1>12. ASSUME NEW v \in Services, SaveService(v) PROVE ServiceFound'
  BY <1>12, <1>a DEF SaveService, There, Shown, owners, ServiceFound, ServiceShown,
       CallHasPage, AtCall, TypeOK, Service, Page, Call
<1>13. ASSUME NEW v \in Services, DeleteService(v) PROVE ServiceFound'
  BY <1>13, <1>a DEF DeleteService, There, owners, customers, ServiceFound,
       ServiceShown, CallHasPage, AtCall, TypeOK, Service, Page, Call
<1>14. ASSUME Staffed PROVE ServiceFound'
  BY <1>14, <1>a DEF Staffed, ServiceFound, There, AtCall
<1>15. ASSUME NEW c \in Customers, OpenPage(c) PROVE ServiceFound'
  BY <1>15, <1>a DEF OpenPage, owners, Bookable, Offered, There, ServiceFound,
       ServiceShown, CallHasPage, AtCall, TypeOK, Service, Page, Call
<1>16. ASSUME NEW c \in Customers, Post(c) PROVE ServiceFound'
  BY <1>16, <1>a DEF Post, owners, ServiceFound, ServiceShown, CallHasPage, AtCall,
       There, TypeOK, Service, Page, Call
<1>17. ASSUME NEW c \in Customers, FindResource(c) PROVE ServiceFound'
  BY SMTT(30), <1>17, <1>a, FindResourceEffect DEF Called, Bookable, AtCall, ServiceFound,
       ServiceShown, CallHasPage, There, TypeOK, Service, Page, Call
<1>18. ASSUME NEW c \in Customers, FindService(c) PROVE ServiceFound'
  <2>1. AtCall(c, "service") /\ page[c] \in Page /\ (Called(c, None) \/ \E x \in Call :
       Found(c, x)) /\ UNCHANGED <<account, session, tab, crossed, shop, resource,
       service, page, resaved>>
    BY <1>18, <1>a, FindServiceEffect
  <2>2. ASSUME Called(c, None) PROVE ServiceFound'
    BY <1>a, <2>1, <2>2 DEF Called, AtCall, ServiceFound, ServiceShown, AtCall, There,
         TypeOK, Page, Call
  <2>3. ASSUME NEW x \in Call, Found(c, x) PROVE ServiceFound'
    BY <1>a, <2>1, <2>3 DEF Found, Called, AtCall, Offered, ServiceFound, ServiceShown,
         AtCall, There, TypeOK, Page, Call
  <2>4. QED
    BY <2>1, <2>2, <2>3
<1>19. ASSUME NEW c \in Customers, Book(c) PROVE ServiceFound'
  BY <1>19, <1>a DEF Book, owners, AtCall, Refuse, Booked, There, ServiceFound,
       ServiceShown, CallHasPage, TypeOK, Service, Page, Call
<1>20. ASSUME UNCHANGED vars PROVE ServiceFound'
  BY <1>20, <1>a DEF vars, ServiceFound, ServiceShown, CallHasPage, AtCall, There,
       TypeOK, Service, Page, Call
<1> QED
  BY <1>a, StaffEffect, ResourceEffect, <1>1, <1>2, <1>3, <1>4, <1>5, <1>6, <1>7, <1>8, <1>9, <1>10, <1>11, <1>12, <1>13,
       <1>14, <1>15, <1>16, <1>17, <1>18, <1>19, <1>20 DEF Next

---------------------------------------------------------------------------
\* IInv holds of every reachable state.
THEOREM Invariance == Spec => []IInv
<1>1. Init => IInv
  <2> SUFFICES ASSUME Init PROVE IInv
    OBVIOUS
  <2> USE ShopFrontAssumption DEF Init, Cleared
  <2>1. TypeOK
    BY DEF TypeOK
  <2>2. OwnSteps /\ OneTab /\ NoShopYet /\ ShopKeepsOwner
    BY DEF OwnSteps, OneTab, NoShopYet, ShopKeepsOwner, AtTab
  <2>3. CallHasPage /\ ServiceShown /\ ServiceFound
    BY DEF CallHasPage, ServiceShown, ServiceFound, AtCall
  <2>4. QED
    BY <2>1, <2>2, <2>3 DEF IInv
<1>2. IInv /\ [Next]_vars => IInv'
  BY TypeOKStep, OwnStepsStep, OneTabStep, NoShopYetStep, ShopKeepsOwnerStep,
     CallHasPageStep, ServiceShownStep, ServiceFoundStep DEF IInv
<1>3. QED
  BY <1>1, <1>2, PTL DEF Spec

\* A shop stays with the owner who signed it up, unless two requests of that owner
\* crossed (dashboard/views.py:254-280, 309-345).
THEOREM ShopKeepsOwnerHolds == Spec => []ShopKeepsOwner
<1>1. IInv => ShopKeepsOwner
  BY DEF IInv
<1>2. QED
  BY <1>1, Invariance, PTL

\* Only the last step of a booking takes the page from a customer who has it open.
LEMMA BooksByBook ==
  ASSUME IInv, Next, NEW c \in Customers, Books(c)
  PROVE  /\ call[c].step = "book" /\ call[c] \in Call /\ page[c] \in Page
         /\ resource[page[c].resource].shop = call[c].shop
         /\ call[c].service # None => There(call[c].service)
<1>1. AtCall(c, "book") /\ page[c] # None /\ page'[c] = None
  BY DEF Books, AtCall, IInv, CallHasPage
<1>2. PICK d \in Customers : OpenPage(d) \/ Book(d)
  BY <1>1 DEF Next, StartSignup, OpenForm, PickSlug, CreateShop, AnswerSignup, CancelSignup,
     BeginDebugShop, CreateDebugShop, MoveAdmin, BindAdmin, SaveSettings, SaveService,
     DeleteService, BindStaff, SwitchResource, SaveProfile, PutResource, Post, FindResource, FindService, owners, customers
<1>3. d = c /\ Book(d)
  BY <1>1, <1>2 DEF OpenPage, Book, Booked, AtCall, IInv, TypeOK
<1>4. call[c] \in Call /\ page[c] \in Page
  BY <1>1 DEF AtCall, IInv, TypeOK
<1>5. QED
  BY <1>1, <1>3, <1>4 DEF Book, AtCall, Of

\* What is booked is what the page showed, whatever became of the shop's slug, the
\* service and the person meanwhile (bookings/public_views.py:249, 310-327).
THEOREM BookedAsShownHolds == Spec => BookedAsShown
<1>1. IInv /\ [Next]_vars =>
        [\A c \in Customers :
           Books(c) =>
             /\ call[c].shop = resource[page[c].resource].shop
             /\ call[c].service = None \/ service[call[c].service].shop = call[c].shop
             /\ c \in resaved \/ call[c].minutes = page[c].minutes]_vars
  <2> SUFFICES ASSUME IInv, Next, NEW c \in Customers, Books(c)
               PROVE  /\ call[c].shop = resource[page[c].resource].shop
                      /\ call[c].service = None \/ service[call[c].service].shop = call[c].shop
                      /\ c \in resaved \/ call[c].minutes = page[c].minutes
    OBVIOUS
  <2>1. /\ resource[page[c].resource].shop = call[c].shop
        /\ call[c].service # None => There(call[c].service)
    BY BooksByBook
  <2>2. AtCall(c, "book")
    BY DEF Books
  <2>3. QED
    BY <2>1, <2>2 DEF IInv, ServiceFound
<1>2. QED
  BY <1>1, Invariance, PTL DEF Spec, BookedAsShown

=============================================================================
