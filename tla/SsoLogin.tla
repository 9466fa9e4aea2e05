------------------------------ MODULE SsoLogin ------------------------------
(***************************************************************************)
(* Signing in to System A through System B, in one browser with several    *)
(* tabs. System A (accounts/views.py) keeps the attempt in the session the *)
(* tabs share; System B (tenants/views.py) issues a code for it, and one   *)
(* HTTP call of System A exchanges the code while the callback waits.      *)
(* A callback loads the session when it arrives and writes the whole of it *)
(* back when it answers. Time is counted in ticks of half a minute.        *)
(***************************************************************************)
EXTENDS Integers

CONSTANTS
  Attempts,   \* clicks on "sign in"; the name stands for its state and nonce
  Visits,     \* requests of the callback page
  AttemptOf,  \* the attempt whose callback a visit requests
  SignOuts,   \* requests of the sign-out page
  Users,      \* accounts of System B
  Workers,    \* processes of System B, each with a cache of its own
  Limit,      \* exchanges an address may make in a minute
  CodeLife,   \* ticks a code lives
  StateLife,  \* ticks an attempt may take
  MaxTime,    \* bound on the clock
  None

\* A session key is named after the request that created it.
First  == "first"
Keys    == {First} \cup Attempts \cup Visits \cup SignOuts
Session == [ack : BOOLEAN, state : Attempts \cup {None}, since : 0 .. MaxTime,
            user : Users \cup {None}]
Code    == [user : Users, born : 0 .. MaxTime, used : BOOLEAN]

ASSUME SsoAssumption ==
  /\ AttemptOf \in [Visits -> Attempts]
  /\ {Limit, CodeLife, StateLife, MaxTime} \subseteq Nat
  /\ None \notin Attempts \cup Users \cup Workers /\ None \notin Session /\ None \notin Code

ASSUME KeysDiffer ==
  /\ First \notin Attempts \cup Visits \cup SignOuts
  /\ Attempts \cap Visits = {} /\ Attempts \cap SignOuts = {} /\ Visits \cap SignOuts = {}

VARIABLES
  store,    \* rows of System A's session table
  cookie,   \* the key the browser sends
  browserB, \* the account signed in at System B in this browser, or None
  stage,    \* where the browser is with each attempt
  code,     \* System B's row for the code of an attempt
  visit,    \* the callback requests, at System A
  call,     \* their exchange requests, at System B
  tally,    \* the exchange counter of each worker
  now

server == <<call, tally>>
vars == <<store, cookie, browserB, stage, code, visit, call, tally, now>>

Minute == 2
Blank  == [ack |-> FALSE, state |-> None, since |-> 0, user |-> None]

Mine == IF store[cookie] = None THEN Blank ELSE store[cookie]

\* logout() and login(): the data goes on under a key of its own.
MoveTo(key, data, old) ==
  /\ store' = [store EXCEPT ![old] = None, ![key] = data]
  /\ cookie' = key

\* The end of a request that changed the session it loaded from key k. A row
\* deleted meanwhile is not inserted again: Django answers 400 and sets no cookie.
SaveTo(k, data) ==
  IF store[k] = None THEN UNCHANGED <<store, cookie>>
  ELSE store' = [store EXCEPT ![k] = data] /\ cookie' = k

---------------------------------------------------------------------------
(* The browser on its way to the callback *)

Consent ==
  /\ \E a \in Attempts : stage[a] = "start"
  /\ SaveTo(cookie, [Mine EXCEPT !.ack = TRUE])
  /\ UNCHANGED <<browserB, stage, code, visit, server, now>>

\* SSO_TERMS_ACK_TTL_SECONDS have passed.
ConsentLapses ==
  /\ Mine.ack
  /\ SaveTo(cookie, [Mine EXCEPT !.ack = FALSE])
  /\ UNCHANGED <<browserB, stage, code, visit, server, now>>

Begin(a) ==
  /\ stage[a] = "start" /\ Mine.ack
  /\ stage' = [stage EXCEPT ![a] = "sent"]
  /\ LET data == [Blank EXCEPT !.state = a, !.since = now]
     IN IF Mine.user = None THEN SaveTo(cookie, data) ELSE MoveTo(a, data, cookie)
  /\ UNCHANGED <<browserB, code, visit, server, now>>

\* force_login=1: whoever is signed in at System B is signed out first.
AuthorizeForced(a) ==
  /\ stage[a] = "sent"
  /\ stage' = [stage EXCEPT ![a] = "discord"]
  /\ browserB' = None
  /\ UNCHANGED <<store, cookie, code, visit, server, now>>

DiscordSignIn(a, u) ==
  /\ stage[a] = "discord"
  /\ stage' = [stage EXCEPT ![a] = "signed"]
  /\ browserB' = u
  /\ UNCHANGED <<store, cookie, code, visit, server, now>>

\* Another tab may have signed the browser out of System B: back to Discord then.
Authorize(a) ==
  /\ stage[a] = "signed"
  /\ stage' = [stage EXCEPT ![a] = IF browserB = None THEN "discord" ELSE "back"]
  /\ code' = IF browserB = None THEN code
             ELSE [code EXCEPT ![a] = [user |-> browserB, born |-> now, used |-> FALSE]]
  /\ browserB' = None
  /\ UNCHANGED <<store, cookie, visit, server, now>>

SignOut(o) ==
  /\ store[o] = None /\ Mine.user # None
  /\ MoveTo(o, Blank, cookie)
  /\ UNCHANGED <<browserB, stage, code, visit, server, now>>

---------------------------------------------------------------------------
(* sso_callback at System A *)

Answer(v, a) == visit' = [visit EXCEPT ![v].answer = a]

Arrive(v) ==
  LET a    == AttemptOf[v]
      data == [Mine EXCEPT !.state = None, !.since = 0]
  IN /\ stage[a] = "back" /\ visit[v].answer = "none"
     /\ \/ /\ Mine.state # a
           /\ Answer(v, "invalid") /\ SaveTo(cookie, data) /\ UNCHANGED call
        \/ /\ Mine.state = a /\ now - Mine.since > StateLife
           /\ Answer(v, "expired") /\ SaveTo(cookie, data) /\ UNCHANGED call
        \/ /\ Mine.state = a /\ now - Mine.since <= StateLife
           /\ visit' = [visit EXCEPT ![v] = [answer |-> "waiting", key |-> cookie, data |-> data]]
           /\ call' = [call EXCEPT ![v] = "sent"]
           /\ UNCHANGED <<store, cookie>>
     /\ UNCHANGED <<browserB, stage, code, tally, now>>

\* Wrong on purpose: a lost answer is shown as no answer of this page.
GiveUpMisspelt(v) ==
  /\ visit[v].answer = "waiting"
  /\ Answer(v, "failed") /\ SaveTo(visit[v].key, visit[v].data)
  /\ UNCHANGED <<browserB, stage, code, server, now>>

\* The call fails or takes more than its ten seconds; System B may still be at it.
GiveUp(v) ==
  /\ visit[v].answer = "waiting"
  /\ Answer(v, "unavailable") /\ SaveTo(visit[v].key, visit[v].data)
  /\ UNCHANGED <<browserB, stage, code, server, now>>

\* Wrong on purpose: a refused callback also signs the browser out.
RejectAndSignOut(v) ==
  /\ visit[v].answer = "waiting" /\ call[v] \in {"limited", "denied"}
  /\ Answer(v, "rejected") /\ MoveTo(v, Blank, visit[v].key)
  /\ UNCHANGED <<browserB, stage, code, server, now>>

Reject(v) ==
  /\ visit[v].answer = "waiting" /\ call[v] \in {"limited", "denied"}
  /\ Answer(v, "rejected") /\ SaveTo(visit[v].key, visit[v].data)
  /\ UNCHANGED <<browserB, stage, code, server, now>>

\* _upsert_shadow_user raises.
MappingFails(v) ==
  /\ visit[v].answer = "waiting" /\ call[v] = "granted"
  /\ Answer(v, "unmapped") /\ SaveTo(visit[v].key, visit[v].data)
  /\ UNCHANGED <<browserB, stage, code, server, now>>

SignIn(v) ==
  LET u    == code[AttemptOf[v]].user
      data == visit[v].data
  IN /\ visit[v].answer = "waiting" /\ call[v] = "granted"
     /\ Answer(v, "in")
     /\ MoveTo(v, IF data.user \in {None, u} THEN [data EXCEPT !.user = u]
                  ELSE [Blank EXCEPT !.user = u], visit[v].key)
     /\ UNCHANGED <<browserB, stage, code, server, now>>

---------------------------------------------------------------------------
(* sso_exchange at System B *)

\* cache.add, incr and touch: the minute starts again with every request.
Counted(t) == [count |-> (IF now < t.until THEN t.count ELSE 0) + 1, until |-> now + Minute]

CountExchange(v, w) ==
  /\ call[v] = "sent"
  /\ tally' = [tally EXCEPT ![w] = Counted(@)]
  /\ call' = [call EXCEPT ![v] = IF tally'[w].count > Limit THEN "limited" ELSE "counted"]
  /\ UNCHANGED <<store, cookie, browserB, stage, code, visit, now>>

Expired(c) == now >= c.born + CodeLife

\* Wrong on purpose: reading the row already spends it.
LookUpAndSpend(v) ==
  /\ call[v] = "counted"
  /\ call' = [call EXCEPT ![v] = IF Expired(code[AttemptOf[v]]) THEN "denied" ELSE "found"]
  /\ code' = [code EXCEPT ![AttemptOf[v]].used = TRUE]
  /\ UNCHANGED <<store, cookie, browserB, stage, visit, tally, now>>

\* The row is read, and refused at once when it is expired.
LookUp(v) ==
  /\ call[v] = "counted"
  /\ call' = [call EXCEPT ![v] = IF Expired(code[AttemptOf[v]]) THEN "denied" ELSE "found"]
  /\ UNCHANGED <<store, cookie, browserB, stage, code, visit, tally, now>>

\* Wrong on purpose: the row is updated whether it was spent or not.
ConsumeAgain(v) ==
  /\ call[v] = "found"
  /\ IF Expired(code[AttemptOf[v]])
     THEN call' = [call EXCEPT ![v] = "denied"] /\ UNCHANGED code
     ELSE /\ call' = [call EXCEPT ![v] = "granted"]
          /\ code' = [code EXCEPT ![AttemptOf[v]].used = TRUE]
  /\ UNCHANGED <<store, cookie, browserB, stage, visit, tally, now>>

\* One conditional UPDATE decides.
Consume(v) ==
  LET c == code[AttemptOf[v]]
  IN /\ call[v] = "found"
     /\ IF c.used \/ Expired(c)
        THEN call' = [call EXCEPT ![v] = "denied"] /\ UNCHANGED code
        ELSE /\ call' = [call EXCEPT ![v] = "granted"]
             /\ code' = [code EXCEPT ![AttemptOf[v]].used = TRUE]
     /\ UNCHANGED <<store, cookie, browserB, stage, visit, tally, now>>

---------------------------------------------------------------------------
Tick ==
  /\ now < MaxTime
  /\ now' = now + 1
  /\ UNCHANGED <<store, cookie, browserB, stage, code, visit, server>>

Init ==
  /\ store = [k \in Keys |-> IF k = First THEN Blank ELSE None]
  /\ cookie = First
  /\ browserB \in Users \cup {None}
  /\ stage = [a \in Attempts |-> "start"]
  /\ code = [a \in Attempts |-> None]
  /\ visit = [v \in Visits |-> [answer |-> "none", key |-> First, data |-> Blank]]
  /\ call = [v \in Visits |-> "none"]
  /\ tally = [w \in Workers |-> [count |-> 0, until |-> 0]]
  /\ now = 0

Finish(v)   == GiveUp(v) \/ Reject(v) \/ MappingFails(v) \/ SignIn(v)
Exchange(v) == (\E w \in Workers : CountExchange(v, w)) \/ LookUp(v) \/ Consume(v)

Next ==
  \/ Consent \/ ConsentLapses \/ Tick
  \/ \E a \in Attempts : \/ Begin(a) \/ AuthorizeForced(a) \/ Authorize(a)
                         \/ \E u \in Users : DiscordSignIn(a, u)
  \/ \E o \in SignOuts : SignOut(o)
  \/ \E v \in Visits : Arrive(v) \/ Finish(v) \/ Exchange(v)

Spec == Init /\ [][Next]_vars

---------------------------------------------------------------------------
Visit == [answer : {"none", "waiting", "invalid", "expired", "unavailable", "rejected",
                    "unmapped", "in"}, key : Keys, data : Session]

TypeOK ==
  /\ store \in [Keys -> Session \cup {None}]
  /\ cookie \in Keys
  /\ browserB \in Users \cup {None}
  /\ stage \in [Attempts -> {"start", "sent", "discord", "signed", "back"}]
  /\ code \in [Attempts -> Code \cup {None}]
  /\ visit \in [Visits -> Visit]
  /\ call \in [Visits -> {"none", "sent", "limited", "counted", "found", "denied", "granted"}]
  /\ tally \in [Workers -> [count : Nat, until : Nat]]
  /\ now \in 0 .. MaxTime

\* A code is good for one login, however often its callback is requested and
\* however late System B answers (sso_exchange, tenants/views.py:269-277).
GrantedOnce ==
  \A v, w \in Visits :
    (AttemptOf[v] = AttemptOf[w] /\ call[v] = "granted" /\ call[w] = "granted") => v = w

\* A session without a login that a sign-out or a new attempt opened, and that a
\* login of an earlier attempt overtook.
Overtaken == \E k \in Attempts \cup SignOuts : store[k] # None

\* A callback that is refused late does not take back what another achieved: the
\* browser loses its login only by signing out or by starting to sign in anew, at
\* once or, when the login overtook that, as soon as the new session answers
\* (accounts/views.py:613-671).
KeepsLogin ==
  [][(Mine.user # None /\ Mine'.user = None)
       => \/ \E a \in Attempts : stage[a] = "start" /\ stage'[a] = "sent"
          \/ \E o \in SignOuts : store[o] # store'[o]
          \/ Overtaken]_vars

\* Who signs in alone and in time is not turned away: a state check fails only
\* when another attempt, visit or sign-out had the session meanwhile, and System B
\* denies a code only when it is too old or was given to another visit.
RefusalsJustified ==
  \A v \in Visits :
    /\ visit[v].answer = "invalid" =>
         \/ \E a \in Attempts \ {AttemptOf[v]} : stage[a] # "start"
         \/ \E w \in Visits \ {v} : visit[w].answer # "none"
         \/ \E o \in SignOuts : store[o] # None
    /\ call[v] = "denied" =>
         \/ Expired(code[AttemptOf[v]])
         \/ \E w \in Visits \ {v} : AttemptOf[w] = AttemptOf[v] /\ call[w] = "granted"

=============================================================================
