------------------------------- MODULE SsoLogin_proofs -------------------------------
(***************************************************************************)
(* Proofs about signing in to System A, for any number of tabs, callbacks, *)
(* sign-outs, accounts and workers and any life times.  A lemma <name>Step *)
(* says that every step keeps a conjunct of the inductive invariant IInv.  *)
(***************************************************************************)
EXTENDS SsoLogin, TLAPS

\* A callback that has called System B carries a code of its attempt.
CodeGiven ==
  /\ \A a \in Attempts : stage[a] = "back" <=> code[a] # None
  /\ \A v \in Visits : call[v] # "none" => stage[AttemptOf[v]] = "back" /\ visit[v].answer # "none"
  /\ \A v \in Visits : visit[v].answer # "none" => stage[AttemptOf[v]] = "back"

\* A code is spent exactly when a callback was granted it.
SpentIfGranted ==
  \A a \in Attempts : code[a] # None =>
    (code[a].used <=> \E v \in Visits : AttemptOf[v] = a /\ call[v] = "granted")

\* The browser's session exists; sessions with a login are those a callback opened;
\* and the first one is never come back to.
Sessions ==
  /\ store[cookie] # None
  /\ \A k \in Keys : store[k] # None => (store[k].user # None <=> k \in Visits)
  /\ \A v \in Visits : visit[v].data.user # None <=> visit[v].key \in Visits
  /\ store[First] # None => cookie = First /\ \A v \in Visits : visit[v].key = First

\* A session is opened by a callback once that has ended.
OpenedBy == \A v \in Visits :
  (store[v] # None \/ \E w \in Visits : visit[w].key = v) => visit[v].answer = "in"

\* Nothing but attempt a has begun.
Quiet(a) ==
  /\ \A b \in Attempts \ {a} : stage[b] = "start"
  /\ \A v \in Visits : visit[v].answer = "none"
  /\ \A o \in SignOuts : store[o] = None

\* The session then holds its state.
StateKept == \A a \in Attempts : (Quiet(a) /\ stage[a] # "start") => store[cookie].state = a

IInv ==
  /\ TypeOK /\ CodeGiven /\ SpentIfGranted /\ GrantedOnce
  /\ Sessions /\ OpenedBy /\ StateKept /\ RefusalsJustified

---------------------------------------------------------------------------
(* What the actions do to the session table, the cookie and the callbacks. *)

SavedAs(k, d) ==
  /\ store' \in [Keys -> Session \cup {None}] /\ cookie' \in Keys
  /\ \A j \in Keys : store'[j] = IF j = k /\ store[k] # None THEN d ELSE store[j]
  /\ cookie' = IF store[k] # None THEN k ELSE cookie

MovedTo(k, d, old) ==
  /\ store' \in [Keys -> Session \cup {None}] /\ cookie' = k
  /\ \A j \in Keys : store'[j] = IF j = k THEN d ELSE IF j = old THEN None ELSE store[j]

Ended(v, x) ==
  /\ visit' \in [Visits -> Visit]
  /\ \A w \in Visits : /\ visit'[w].key = visit[w].key /\ visit'[w].data = visit[w].data
                       /\ visit'[w].answer = IF w = v THEN x ELSE visit[w].answer

Called(v, x) ==
  /\ call' \in [Visits -> {"none", "sent", "limited", "counted", "found", "denied", "granted"}]
  /\ \A w \in Visits : call'[w] = IF w = v THEN x ELSE call[w]

\* The row of attempt a becomes c.
Coded(a, c) ==
  /\ code' \in [Attempts -> Code \cup {None}]
  /\ \A b \in Attempts : code'[b] = IF b = a THEN c ELSE code[b]

LEMMA SaveEffect ==
  ASSUME TypeOK, NEW k \in Keys, NEW d \in Session, SaveTo(k, d)
  PROVE  SavedAs(k, d)
BY DEF TypeOK, SaveTo, SavedAs

LEMMA MoveEffect ==
  ASSUME TypeOK, NEW k \in Keys, NEW d \in Session, NEW old \in Keys, MoveTo(k, d, old)
  PROVE  MovedTo(k, d, old)
BY DEF TypeOK, MoveTo, MovedTo

LEMMA AnswerEffect ==
  ASSUME TypeOK, NEW v \in Visits,
         NEW x \in {"invalid", "expired", "unavailable", "rejected", "unmapped", "in"},
         Answer(v, x)
  PROVE  Ended(v, x)
BY DEF TypeOK, Answer, Ended, Visit

LEMMA MineEffect ==
  ASSUME TypeOK, Sessions
  PROVE  Mine = store[cookie] /\ Mine \in Session
BY DEF TypeOK, Sessions, Mine

LEMMA BlankTyped == Blank \in Session
BY SsoAssumption DEF Blank, Session

LEMMA ConsentEffect ==
  ASSUME TypeOK, Sessions, Consent \/ ConsentLapses
  PROVE  /\ \E d \in Session : /\ d.user = store[cookie].user /\ d.state = store[cookie].state
                               /\ SavedAs(cookie, d)
         /\ UNCHANGED <<browserB, stage, code, visit, call, tally, now>>
<1>1. PICK b \in BOOLEAN : SaveTo(cookie, [Mine EXCEPT !.ack = b])
  BY DEF Consent, ConsentLapses
<1>2. [Mine EXCEPT !.ack = b] \in Session
  BY MineEffect DEF Session
<1>3. /\ [Mine EXCEPT !.ack = b].user = store[cookie].user
      /\ [Mine EXCEPT !.ack = b].state = store[cookie].state
  <2>1. Mine \in Session /\ Mine = store[cookie]
    BY MineEffect
  <2>2. QED
    BY <2>1 DEF Session
<1>4. SavedAs(cookie, [Mine EXCEPT !.ack = b])
  BY <1>1, <1>2, SaveEffect DEF TypeOK
<1>5. UNCHANGED <<browserB, stage, code, visit, call, tally, now>>
  BY DEF Consent, ConsentLapses, server
<1>6. QED
  BY <1>2, <1>3, <1>4, <1>5

LEMMA BeginEffect ==
  ASSUME TypeOK, Sessions, NEW a \in Attempts, Begin(a)
  PROVE  /\ stage[a] = "start" /\ stage' = [stage EXCEPT ![a] = "sent"]
         /\ \E d \in Session :
              /\ d.user = None /\ d.state = a
              /\ IF store[cookie].user = None THEN SavedAs(cookie, d) ELSE MovedTo(a, d, cookie)
         /\ UNCHANGED <<browserB, code, visit, call, tally, now>>
<1> DEFINE d == [Blank EXCEPT !.state = a, !.since = now]
<1>1. d \in Session /\ d.user = None /\ d.state = a
  BY DEF TypeOK, Blank, Session
<1>2. IF store[cookie].user = None THEN SaveTo(cookie, d) ELSE MoveTo(a, d, cookie)
  BY MineEffect DEF Begin
<1> HIDE DEF d
<1>3. IF store[cookie].user = None THEN SavedAs(cookie, d) ELSE MovedTo(a, d, cookie)
  BY <1>1, <1>2, SaveEffect, MoveEffect DEF TypeOK, Keys
<1>4. QED
  BY <1>1, <1>3 DEF Begin, server

LEMMA SignOutEffect ==
  ASSUME TypeOK, Sessions, NEW o \in SignOuts, SignOut(o)
  PROVE  /\ store[o] = None /\ store[cookie].user # None
         /\ \E d \in Session : d.user = None /\ MovedTo(o, d, cookie)
         /\ UNCHANGED <<browserB, stage, code, visit, call, tally, now>>
<1>1. MovedTo(o, Blank, cookie)
  BY BlankTyped, MoveEffect DEF SignOut, TypeOK, Keys
<1>2. QED
  BY <1>1, BlankTyped, MineEffect DEF SignOut, Blank, server

\* A callback refused at once, and one that calls System B.
Refused(v) ==
  /\ \E x \in {"invalid", "expired"} :
       Ended(v, x) /\ (x = "invalid" => store[cookie].state # AttemptOf[v])
  /\ \E d \in Session : d.user = store[cookie].user /\ SavedAs(cookie, d)
  /\ call' = call

Asked(v) ==
  /\ \E d \in Session :
       /\ d.user = store[cookie].user
       /\ visit' \in [Visits -> Visit]
       /\ visit'[v].answer = "waiting" /\ visit'[v].key = cookie /\ visit'[v].data = d
       /\ \A w \in Visits \ {v} : visit'[w] = visit[w]
  /\ Called(v, "sent")
  /\ store' = store /\ cookie' = cookie

LEMMA ArriveEffect ==
  ASSUME TypeOK, Sessions, NEW v \in Visits, Arrive(v)
  PROVE  /\ stage[AttemptOf[v]] = "back" /\ visit[v].answer = "none"
         /\ Refused(v) \/ Asked(v)
         /\ UNCHANGED <<browserB, stage, code, tally, now>>
<1> DEFINE d == [Mine EXCEPT !.state = None, !.since = 0]
<1> USE SsoAssumption
<1>1. d \in Session /\ d.user = store[cookie].user
  <2>1. Mine \in Session /\ Mine = store[cookie] /\ 0 \in 0 .. MaxTime
    BY MineEffect DEF TypeOK
  <2>2. QED
    BY <2>1 DEF Session
<1>2. \/ /\ Mine.state # AttemptOf[v]
         /\ Answer(v, "invalid") /\ SaveTo(cookie, d) /\ UNCHANGED call
      \/ Answer(v, "expired") /\ SaveTo(cookie, d) /\ UNCHANGED call
      \/ /\ visit' = [visit EXCEPT ![v] = [answer |-> "waiting", key |-> cookie, data |-> d]]
         /\ call' = [call EXCEPT ![v] = "sent"]
         /\ UNCHANGED <<store, cookie>>
  BY DEF Arrive
<1>3. /\ stage[AttemptOf[v]] = "back" /\ visit[v].answer = "none"
      /\ UNCHANGED <<browserB, stage, code, tally, now>>
  BY DEF Arrive
<1> HIDE DEF d
<1>4. SaveTo(cookie, d) => SavedAs(cookie, d)
  BY <1>1, SaveEffect DEF TypeOK
<1>5. CASE Answer(v, "invalid") /\ SaveTo(cookie, d) /\ Mine.state # AttemptOf[v] /\ UNCHANGED call
  <2>1. Ended(v, "invalid")
    BY <1>5, AnswerEffect
  <2>2. QED
    BY <2>1, <1>1, <1>3, <1>4, <1>5, MineEffect DEF Refused
<1>6. CASE Answer(v, "expired") /\ SaveTo(cookie, d) /\ UNCHANGED call
  <2>1. Ended(v, "expired")
    BY <1>6, AnswerEffect
  <2>2. QED
    BY <2>1, <1>1, <1>3, <1>4, <1>6 DEF Refused
<1>7. CASE /\ visit' = [visit EXCEPT ![v] = [answer |-> "waiting", key |-> cookie, data |-> d]]
           /\ call' = [call EXCEPT ![v] = "sent"]
           /\ UNCHANGED <<store, cookie>>
  <2>1. [answer |-> "waiting", key |-> cookie, data |-> d] \in Visit
    BY <1>1 DEF Visit, TypeOK
  <2>2. /\ visit' \in [Visits -> Visit]
        /\ visit'[v] = [answer |-> "waiting", key |-> cookie, data |-> d]
        /\ \A w \in Visits \ {v} : visit'[w] = visit[w]
    BY <1>7, <2>1 DEF TypeOK
  <2>3. Called(v, "sent")
    BY <1>7 DEF TypeOK, Called
  <2>4. QED
    BY <2>2, <2>3, <1>1, <1>3, <1>7 DEF Asked
<1>8. QED
  BY <1>2, <1>3, <1>5, <1>6, <1>7

LEMMA LateEffect ==
  ASSUME TypeOK, NEW v \in Visits, GiveUp(v) \/ Reject(v) \/ MappingFails(v)
  PROVE  /\ visit[v].answer = "waiting"
         /\ visit[v].key \in Keys /\ visit[v].data \in Session
         /\ \E x \in {"unavailable", "rejected", "unmapped"} : Ended(v, x)
         /\ SavedAs(visit[v].key, visit[v].data)
         /\ UNCHANGED <<browserB, stage, code, call, tally, now>>
<1>1. visit[v].key \in Keys /\ visit[v].data \in Session
  BY DEF TypeOK, Visit
<1>2. SavedAs(visit[v].key, visit[v].data)
  BY <1>1, SaveEffect DEF GiveUp, Reject, MappingFails
<1>3. \E x \in {"unavailable", "rejected", "unmapped"} : Ended(v, x)
  BY AnswerEffect DEF GiveUp, Reject, MappingFails
<1>4. QED
  BY <1>1, <1>2, <1>3 DEF GiveUp, Reject, MappingFails, server

LEMMA SignInEffect ==
  ASSUME TypeOK, CodeGiven, NEW v \in Visits, SignIn(v)
  PROVE  /\ visit[v].answer = "waiting" /\ visit[v].key \in Keys
         /\ Ended(v, "in")
         /\ \E d \in Session : d.user # None /\ MovedTo(v, d, visit[v].key)
         /\ UNCHANGED <<browserB, stage, code, call, tally, now>>
<1> DEFINE u == code[AttemptOf[v]].user
           d == IF visit[v].data.user \in {None, u} THEN [visit[v].data EXCEPT !.user = u]
                ELSE [Blank EXCEPT !.user = u]
<1>1. code[AttemptOf[v]] \in Code
  BY SsoAssumption DEF SignIn, CodeGiven, TypeOK
<1>2. u \in Users /\ u # None
  BY <1>1, SsoAssumption DEF Code
<1>3. visit[v].data \in Session /\ visit[v].key \in Keys
  BY DEF TypeOK, Visit
<1>4. d \in Session /\ d.user # None
  BY <1>2, <1>3, BlankTyped DEF Session
<1>5. MoveTo(v, d, visit[v].key)
  BY DEF SignIn
<1> HIDE DEF d
<1>6. MovedTo(v, d, visit[v].key)
  BY <1>3, <1>4, <1>5, MoveEffect DEF Keys
<1>7. QED
  BY <1>3, <1>4, <1>6, AnswerEffect DEF SignIn, server

LEMMA AuthorizeEffect ==
  ASSUME TypeOK, NEW a \in Attempts, Authorize(a)
  PROVE  /\ stage[a] = "signed" /\ browserB' = None
         /\ \/ stage' = [stage EXCEPT ![a] = "discord"] /\ code' = code
            \/ /\ stage' = [stage EXCEPT ![a] = "back"]
               /\ \E c \in Code : ~c.used /\ Coded(a, c)
         /\ UNCHANGED <<store, cookie, visit, call, tally, now>>
<1> DEFINE c == [user |-> browserB, born |-> now, used |-> FALSE]
<1>1. CASE browserB = None
  BY <1>1 DEF Authorize, server
<1>2. CASE browserB # None
  <2>1. c \in Code /\ ~c.used
    BY <1>2 DEF Code, TypeOK
  <2>2. code' = [code EXCEPT ![a] = c]
    BY <1>2 DEF Authorize
  <2> HIDE DEF c
  <2>3. Coded(a, c)
    BY <2>1, <2>2 DEF TypeOK, Coded
  <2>4. QED
    BY <1>2, <2>1, <2>3 DEF Authorize, server
<1>3. QED
  BY <1>1, <1>2

LEMMA CountEffect ==
  ASSUME TypeOK, NEW v \in Visits, NEW w \in Workers, CountExchange(v, w)
  PROVE  /\ call[v] = "sent"
         /\ tally' \in [Workers -> [count : Nat, until : Nat]]
         /\ \E x \in {"limited", "counted"} : Called(v, x)
         /\ UNCHANGED <<store, cookie, browserB, stage, code, visit, now>>
<1>1. Counted(tally[w]) \in [count : Nat, until : Nat]
  <2>1. tally[w].count \in Nat /\ now + Minute \in Nat
    BY SsoAssumption DEF TypeOK, Minute
  <2>2. QED
    BY <2>1 DEF Counted
<1>2. tally' = [tally EXCEPT ![w] = Counted(tally[w])]
  BY DEF CountExchange
<1>3. tally' \in [Workers -> [count : Nat, until : Nat]]
  BY <1>1, <1>2 DEF TypeOK
<1>4. \E x \in {"limited", "counted"} : call' = [call EXCEPT ![v] = x]
  BY DEF CountExchange
<1>5. \E x \in {"limited", "counted"} : Called(v, x)
  BY <1>4 DEF TypeOK, Called
<1>6. QED
  BY <1>3, <1>5 DEF CountExchange

LEMMA LookUpEffect ==
  ASSUME TypeOK, NEW v \in Visits, LookUp(v)
  PROVE  /\ call[v] = "counted"
         /\ \E x \in {"found", "denied"} :
              Called(v, x) /\ (x = "denied" => Expired(code[AttemptOf[v]]))
         /\ UNCHANGED <<store, cookie, browserB, stage, code, visit, tally, now>>
<1>1. \E x \in {"found", "denied"} :
        /\ call' = [call EXCEPT ![v] = x]
        /\ x = "denied" => Expired(code[AttemptOf[v]])
  BY DEF LookUp
<1>2. QED
  BY <1>1 DEF LookUp, TypeOK, Called

LEMMA ConsumeEffect ==
  ASSUME TypeOK, CodeGiven, NEW v \in Visits, Consume(v)
  PROVE  /\ call[v] = "found" /\ code[AttemptOf[v]] \in Code
         /\ \/ /\ code[AttemptOf[v]].used \/ Expired(code[AttemptOf[v]])
               /\ Called(v, "denied") /\ code' = code
            \/ /\ ~code[AttemptOf[v]].used /\ Called(v, "granted")
               /\ \E c \in Code : /\ c.used /\ c.born = code[AttemptOf[v]].born
                                  /\ Coded(AttemptOf[v], c)
         /\ UNCHANGED <<store, cookie, browserB, stage, visit, tally, now>>
<1> DEFINE a == AttemptOf[v]
           c == [code[a] EXCEPT !.used = TRUE]
<1>1. a \in Attempts /\ code[a] \in Code
  BY SsoAssumption DEF Consume, CodeGiven, TypeOK
<1>2. c \in Code /\ c.used /\ c.born = code[a].born
  BY <1>1 DEF Code
<1>3. \/ /\ code[a].used \/ Expired(code[a])
         /\ call' = [call EXCEPT ![v] = "denied"] /\ code' = code
      \/ /\ ~code[a].used
         /\ call' = [call EXCEPT ![v] = "granted"] /\ code' = [code EXCEPT ![a] = c]
  BY DEF Consume
<1> HIDE DEF c
<1>4. call' = [call EXCEPT ![v] = "denied"] => Called(v, "denied")
  BY DEF TypeOK, Called
<1>5. call' = [call EXCEPT ![v] = "granted"] => Called(v, "granted")
  BY DEF TypeOK, Called
<1>6. code' = [code EXCEPT ![a] = c] => Coded(a, c)
  BY <1>1, <1>2 DEF TypeOK, Coded
<1>7. QED
  BY <1>1, <1>2, <1>3, <1>4, <1>5, <1>6 DEF Consume

---------------------------------------------------------------------------
\* Every variable keeps its type.
LEMMA TypeOKStep == ASSUME IInv, [Next]_vars PROVE TypeOK'
<1> USE SsoAssumption DEF Keys, server
<1>a. TypeOK /\ CodeGiven /\ Sessions
  BY DEF IInv
<1>1. ASSUME Consent PROVE TypeOK'
  BY <1>1, <1>a, ConsentEffect DEF SavedAs, MovedTo, Ended, Called, Coded, TypeOK,
       CodeGiven, Sessions
<1>2. ASSUME ConsentLapses PROVE TypeOK'
  BY <1>2, <1>a, ConsentEffect DEF SavedAs, MovedTo, Ended, Called, Coded, TypeOK,
       CodeGiven, Sessions
<1>3. ASSUME Tick PROVE TypeOK'
  BY <1>3, <1>a DEF Tick, server, TypeOK, CodeGiven, Sessions
<1>4. ASSUME NEW a \in Attempts, Begin(a) PROVE TypeOK'
  BY <1>4, <1>a, BeginEffect DEF SavedAs, MovedTo, Ended, Called, Coded, TypeOK,
       CodeGiven, Sessions
<1>5. ASSUME NEW a \in Attempts, AuthorizeForced(a) PROVE TypeOK'
  BY <1>5, <1>a DEF AuthorizeForced, server, TypeOK, CodeGiven, Sessions
<1>6. ASSUME NEW a \in Attempts, Authorize(a) PROVE TypeOK'
  BY <1>6, <1>a, AuthorizeEffect DEF SavedAs, MovedTo, Ended, Called, Coded, TypeOK,
       CodeGiven, Sessions
<1>7. ASSUME NEW a \in Attempts, NEW u \in Users, DiscordSignIn(a, u) PROVE TypeOK'
  BY <1>7, <1>a DEF DiscordSignIn, server, TypeOK, CodeGiven, Sessions
<1>8. ASSUME NEW o \in SignOuts, SignOut(o) PROVE TypeOK'
  BY <1>8, <1>a, SignOutEffect DEF SavedAs, MovedTo, Ended, Called, Coded, TypeOK,
       CodeGiven, Sessions
<1>9. ASSUME NEW v \in Visits, Arrive(v) PROVE TypeOK'
  <2>1. CASE Refused(v)
    BY <2>1, <1>9, <1>a, ArriveEffect DEF Refused, SavedAs, Ended, TypeOK, CodeGiven,
         Sessions
  <2>2. CASE Asked(v)
    BY <2>2, <1>9, <1>a, ArriveEffect DEF Asked, Called, TypeOK, CodeGiven, Sessions
  <2>3. QED
    BY <2>1, <2>2, <1>9, <1>a, ArriveEffect
<1>10. ASSUME NEW v \in Visits, GiveUp(v) PROVE TypeOK'
  BY <1>10, <1>a, LateEffect DEF SavedAs, MovedTo, Ended, Called, Coded, TypeOK,
       CodeGiven, Sessions
<1>11. ASSUME NEW v \in Visits, Reject(v) PROVE TypeOK'
  BY <1>11, <1>a, LateEffect DEF SavedAs, MovedTo, Ended, Called, Coded, TypeOK,
       CodeGiven, Sessions
<1>12. ASSUME NEW v \in Visits, MappingFails(v) PROVE TypeOK'
  BY <1>12, <1>a, LateEffect DEF SavedAs, MovedTo, Ended, Called, Coded, TypeOK,
       CodeGiven, Sessions
<1>13. ASSUME NEW v \in Visits, SignIn(v) PROVE TypeOK'
  BY <1>13, <1>a, SignInEffect DEF SavedAs, MovedTo, Ended, Called, Coded, TypeOK,
       CodeGiven, Sessions
<1>14. ASSUME NEW v \in Visits, NEW w \in Workers, CountExchange(v, w) PROVE TypeOK'
  BY <1>14, <1>a, CountEffect DEF SavedAs, MovedTo, Ended, Called, Coded, TypeOK,
       CodeGiven, Sessions
<1>15. ASSUME NEW v \in Visits, LookUp(v) PROVE TypeOK'
  BY <1>15, <1>a, LookUpEffect DEF SavedAs, MovedTo, Ended, Called, Coded, TypeOK,
       CodeGiven, Sessions
<1>16. ASSUME NEW v \in Visits, Consume(v) PROVE TypeOK'
  BY <1>16, <1>a, ConsumeEffect DEF SavedAs, MovedTo, Ended, Called, Coded, TypeOK,
       CodeGiven, Sessions
<1>17. ASSUME UNCHANGED vars PROVE TypeOK'
  BY <1>17, <1>a DEF vars, TypeOK, CodeGiven, Sessions
<1> QED
  BY <1>1, <1>2, <1>3, <1>4, <1>5, <1>6, <1>7, <1>8, <1>9, <1>10, <1>11, <1>12, <1>13,
       <1>14, <1>15, <1>16, <1>17 DEF Next, Finish, Exchange

\* A code is made when the browser is sent back, and stays.
LEMMA CodeGivenStep == ASSUME IInv, [Next]_vars PROVE CodeGiven'
<1> USE SsoAssumption DEF server, Code
<1>a. TypeOK /\ CodeGiven /\ Sessions
  BY DEF IInv
<1>1. ASSUME Consent PROVE CodeGiven'
  BY <1>1, <1>a, ConsentEffect DEF SavedAs, MovedTo, Ended, Called, Coded, CodeGiven,
       TypeOK
<1>2. ASSUME ConsentLapses PROVE CodeGiven'
  BY <1>2, <1>a, ConsentEffect DEF SavedAs, MovedTo, Ended, Called, Coded, CodeGiven,
       TypeOK
<1>3. ASSUME Tick PROVE CodeGiven'
  BY <1>3, <1>a DEF Tick, server, CodeGiven, TypeOK
<1>4. ASSUME NEW a \in Attempts, Begin(a) PROVE CodeGiven'
  BY <1>4, <1>a, BeginEffect DEF SavedAs, MovedTo, Ended, Called, Coded, CodeGiven,
       TypeOK
<1>5. ASSUME NEW a \in Attempts, AuthorizeForced(a) PROVE CodeGiven'
  BY <1>5, <1>a DEF AuthorizeForced, server, CodeGiven, TypeOK
<1>6. ASSUME NEW a \in Attempts, Authorize(a) PROVE CodeGiven'
  BY <1>6, <1>a, AuthorizeEffect DEF SavedAs, MovedTo, Ended, Called, Coded, CodeGiven,
       TypeOK
<1>7. ASSUME NEW a \in Attempts, NEW u \in Users, DiscordSignIn(a, u) PROVE CodeGiven'
  BY <1>7, <1>a DEF DiscordSignIn, server, CodeGiven, TypeOK
<1>8. ASSUME NEW o \in SignOuts, SignOut(o) PROVE CodeGiven'
  BY <1>8, <1>a, SignOutEffect DEF SavedAs, MovedTo, Ended, Called, Coded, CodeGiven,
       TypeOK
<1>9. ASSUME NEW v \in Visits, Arrive(v) PROVE CodeGiven'
  <2>1. CASE Refused(v)
    BY SMTT(30), <2>1, <1>9, <1>a, ArriveEffect DEF Refused, SavedAs, Ended, CodeGiven, TypeOK
  <2>2. CASE Asked(v)
    BY <2>2, <1>9, <1>a, ArriveEffect DEF Asked, Called, CodeGiven, TypeOK
  <2>3. QED
    BY <2>1, <2>2, <1>9, <1>a, ArriveEffect
<1>10. ASSUME NEW v \in Visits, GiveUp(v) PROVE CodeGiven'
  <2>1. \A w \in Visits : visit'[w].answer # "none" <=> visit[w].answer # "none"
    BY <1>10, <1>a, LateEffect DEF Ended
  <2>2. stage' = stage /\ code' = code /\ call' = call
    BY <1>10, <1>a, LateEffect
  <2>3. QED
    BY <2>1, <2>2, <1>a DEF CodeGiven
<1>11. ASSUME NEW v \in Visits, Reject(v) PROVE CodeGiven'
  <2>1. \A w \in Visits : visit'[w].answer # "none" <=> visit[w].answer # "none"
    BY <1>11, <1>a, LateEffect DEF Ended
  <2>2. stage' = stage /\ code' = code /\ call' = call
    BY <1>11, <1>a, LateEffect
  <2>3. QED
    BY <2>1, <2>2, <1>a DEF CodeGiven
<1>12. ASSUME NEW v \in Visits, MappingFails(v) PROVE CodeGiven'
  <2>1. \A w \in Visits : visit'[w].answer # "none" <=> visit[w].answer # "none"
    BY <1>12, <1>a, LateEffect DEF Ended
  <2>2. stage' = stage /\ code' = code /\ call' = call
    BY <1>12, <1>a, LateEffect
  <2>3. QED
    BY <2>1, <2>2, <1>a DEF CodeGiven
<1>13. ASSUME NEW v \in Visits, SignIn(v) PROVE CodeGiven'
  <2>1. \A w \in Visits : visit'[w].answer # "none" <=> visit[w].answer # "none"
    BY <1>13, <1>a, SignInEffect DEF Ended
  <2>2. stage' = stage /\ code' = code /\ call' = call
    BY <1>13, <1>a, SignInEffect
  <2>3. QED
    BY <2>1, <2>2, <1>a DEF CodeGiven
<1>14. ASSUME NEW v \in Visits, NEW w \in Workers, CountExchange(v, w) PROVE CodeGiven'
  BY <1>14, <1>a, CountEffect DEF SavedAs, MovedTo, Ended, Called, Coded, CodeGiven,
       TypeOK
<1>15. ASSUME NEW v \in Visits, LookUp(v) PROVE CodeGiven'
  BY <1>15, <1>a, LookUpEffect DEF SavedAs, MovedTo, Ended, Called, Coded, CodeGiven,
       TypeOK
<1>16. ASSUME NEW v \in Visits, Consume(v) PROVE CodeGiven'
  BY <1>16, <1>a, ConsumeEffect DEF SavedAs, MovedTo, Ended, Called, Coded, CodeGiven,
       TypeOK
<1>17. ASSUME UNCHANGED vars PROVE CodeGiven'
  BY <1>17, <1>a DEF vars, CodeGiven, TypeOK
<1> QED
  BY <1>1, <1>2, <1>3, <1>4, <1>5, <1>6, <1>7, <1>8, <1>9, <1>10, <1>11, <1>12, <1>13,
       <1>14, <1>15, <1>16, <1>17 DEF Next, Finish, Exchange

\* The update that spends a code is the one that grants it.
LEMMA SpentIfGrantedStep == ASSUME IInv, [Next]_vars PROVE SpentIfGranted'
<1> USE SsoAssumption, KeysDiffer DEF Keys, Session, Code, Visit, server
<1>a. TypeOK /\ CodeGiven /\ Sessions /\ SpentIfGranted
  BY DEF IInv
<1>1. ASSUME Consent PROVE SpentIfGranted'
  BY <1>1, <1>a, ConsentEffect DEF SavedAs, MovedTo, Ended, Called, Coded,
       SpentIfGranted, CodeGiven, TypeOK
<1>2. ASSUME ConsentLapses PROVE SpentIfGranted'
  BY <1>2, <1>a, ConsentEffect DEF SavedAs, MovedTo, Ended, Called, Coded,
       SpentIfGranted, CodeGiven, TypeOK
<1>3. ASSUME Tick PROVE SpentIfGranted'
  BY <1>3, <1>a DEF Tick, server, SpentIfGranted, CodeGiven, TypeOK
<1>4. ASSUME NEW a \in Attempts, Begin(a) PROVE SpentIfGranted'
  BY <1>4, <1>a, BeginEffect DEF SavedAs, MovedTo, Ended, Called, Coded, SpentIfGranted,
       CodeGiven, TypeOK
<1>5. ASSUME NEW a \in Attempts, AuthorizeForced(a) PROVE SpentIfGranted'
  BY <1>5, <1>a DEF AuthorizeForced, server, SpentIfGranted, CodeGiven, TypeOK
<1>6. ASSUME NEW a \in Attempts, Authorize(a) PROVE SpentIfGranted'
  BY <1>6, <1>a, AuthorizeEffect DEF SavedAs, MovedTo, Ended, Called, Coded,
       SpentIfGranted, CodeGiven, TypeOK
<1>7. ASSUME NEW a \in Attempts, NEW u \in Users, DiscordSignIn(a, u) PROVE SpentIfGranted'
  BY <1>7, <1>a DEF DiscordSignIn, server, SpentIfGranted, CodeGiven, TypeOK
<1>8. ASSUME NEW o \in SignOuts, SignOut(o) PROVE SpentIfGranted'
  BY <1>8, <1>a, SignOutEffect DEF SavedAs, MovedTo, Ended, Called, Coded,
       SpentIfGranted, CodeGiven, TypeOK
<1>9. ASSUME NEW v \in Visits, Arrive(v) PROVE SpentIfGranted'
  <2>1. CASE Refused(v)
    BY <2>1, <1>9, <1>a, ArriveEffect DEF Refused, SavedAs, Ended, SpentIfGranted,
         CodeGiven, TypeOK
  <2>2. CASE Asked(v)
    BY <2>2, <1>9, <1>a, ArriveEffect DEF Asked, Called, SpentIfGranted, CodeGiven,
         TypeOK
  <2>3. QED
    BY <2>1, <2>2, <1>9, <1>a, ArriveEffect
<1>10. ASSUME NEW v \in Visits, GiveUp(v) PROVE SpentIfGranted'
  BY <1>10, <1>a, LateEffect DEF SavedAs, MovedTo, Ended, Called, Coded, SpentIfGranted,
       CodeGiven, TypeOK
<1>11. ASSUME NEW v \in Visits, Reject(v) PROVE SpentIfGranted'
  BY <1>11, <1>a, LateEffect DEF SavedAs, MovedTo, Ended, Called, Coded, SpentIfGranted,
       CodeGiven, TypeOK
<1>12. ASSUME NEW v \in Visits, MappingFails(v) PROVE SpentIfGranted'
  BY <1>12, <1>a, LateEffect DEF SavedAs, MovedTo, Ended, Called, Coded, SpentIfGranted,
       CodeGiven, TypeOK
<1>13. ASSUME NEW v \in Visits, SignIn(v) PROVE SpentIfGranted'
  BY <1>13, <1>a, SignInEffect DEF SavedAs, MovedTo, Ended, Called, Coded,
       SpentIfGranted, CodeGiven, TypeOK
<1>14. ASSUME NEW v \in Visits, NEW w \in Workers, CountExchange(v, w) PROVE SpentIfGranted'
  BY <1>14, <1>a, CountEffect DEF SavedAs, MovedTo, Ended, Called, Coded,
       SpentIfGranted, CodeGiven, TypeOK
<1>15. ASSUME NEW v \in Visits, LookUp(v) PROVE SpentIfGranted'
  BY <1>15, <1>a, LookUpEffect DEF SavedAs, MovedTo, Ended, Called, Coded,
       SpentIfGranted, CodeGiven, TypeOK
<1>16. ASSUME NEW v \in Visits, Consume(v) PROVE SpentIfGranted'
  BY <1>16, <1>a, ConsumeEffect DEF SavedAs, MovedTo, Ended, Called, Coded,
       SpentIfGranted, CodeGiven, TypeOK
<1>17. ASSUME UNCHANGED vars PROVE SpentIfGranted'
  BY <1>17, <1>a DEF vars, SpentIfGranted, CodeGiven, TypeOK
<1> QED
  BY <1>1, <1>2, <1>3, <1>4, <1>5, <1>6, <1>7, <1>8, <1>9, <1>10, <1>11, <1>12, <1>13,
       <1>14, <1>15, <1>16, <1>17 DEF Next, Finish, Exchange

\* A spent code is not granted again.
LEMMA GrantedOnceStep == ASSUME IInv, [Next]_vars PROVE GrantedOnce'
<1> USE SsoAssumption, KeysDiffer DEF Keys, Session, Code, Visit, server
<1>a. TypeOK /\ CodeGiven /\ Sessions /\ SpentIfGranted /\ GrantedOnce
  BY DEF IInv
<1>1. ASSUME Consent PROVE GrantedOnce'
  BY <1>1, <1>a, ConsentEffect DEF SavedAs, MovedTo, Ended, Called, Coded, GrantedOnce,
       SpentIfGranted, CodeGiven, TypeOK
<1>2. ASSUME ConsentLapses PROVE GrantedOnce'
  BY <1>2, <1>a, ConsentEffect DEF SavedAs, MovedTo, Ended, Called, Coded, GrantedOnce,
       SpentIfGranted, CodeGiven, TypeOK
<1>3. ASSUME Tick PROVE GrantedOnce'
  BY <1>3, <1>a DEF Tick, server, GrantedOnce, SpentIfGranted, CodeGiven, TypeOK
<1>4. ASSUME NEW a \in Attempts, Begin(a) PROVE GrantedOnce'
  BY <1>4, <1>a, BeginEffect DEF SavedAs, MovedTo, Ended, Called, Coded, GrantedOnce,
       SpentIfGranted, CodeGiven, TypeOK
<1>5. ASSUME NEW a \in Attempts, AuthorizeForced(a) PROVE GrantedOnce'
  BY <1>5, <1>a DEF AuthorizeForced, server, GrantedOnce, SpentIfGranted, CodeGiven,
       TypeOK
<1>6. ASSUME NEW a \in Attempts, Authorize(a) PROVE GrantedOnce'
  BY <1>6, <1>a, AuthorizeEffect DEF SavedAs, MovedTo, Ended, Called, Coded,
       GrantedOnce, SpentIfGranted, CodeGiven, TypeOK
<1>7. ASSUME NEW a \in Attempts, NEW u \in Users, DiscordSignIn(a, u) PROVE GrantedOnce'
  BY <1>7, <1>a DEF DiscordSignIn, server, GrantedOnce, SpentIfGranted, CodeGiven,
       TypeOK
<1>8. ASSUME NEW o \in SignOuts, SignOut(o) PROVE GrantedOnce'
  BY <1>8, <1>a, SignOutEffect DEF SavedAs, MovedTo, Ended, Called, Coded, GrantedOnce,
       SpentIfGranted, CodeGiven, TypeOK
<1>9. ASSUME NEW v \in Visits, Arrive(v) PROVE GrantedOnce'
  <2>1. CASE Refused(v)
    BY <2>1, <1>9, <1>a, ArriveEffect DEF Refused, SavedAs, Ended, GrantedOnce,
         SpentIfGranted, CodeGiven, TypeOK
  <2>2. CASE Asked(v)
    BY <2>2, <1>9, <1>a, ArriveEffect DEF Asked, Called, GrantedOnce, SpentIfGranted,
         CodeGiven, TypeOK
  <2>3. QED
    BY <2>1, <2>2, <1>9, <1>a, ArriveEffect
<1>10. ASSUME NEW v \in Visits, GiveUp(v) PROVE GrantedOnce'
  BY <1>10, <1>a, LateEffect DEF SavedAs, MovedTo, Ended, Called, Coded, GrantedOnce,
       SpentIfGranted, CodeGiven, TypeOK
<1>11. ASSUME NEW v \in Visits, Reject(v) PROVE GrantedOnce'
  BY <1>11, <1>a, LateEffect DEF SavedAs, MovedTo, Ended, Called, Coded, GrantedOnce,
       SpentIfGranted, CodeGiven, TypeOK
<1>12. ASSUME NEW v \in Visits, MappingFails(v) PROVE GrantedOnce'
  BY <1>12, <1>a, LateEffect DEF SavedAs, MovedTo, Ended, Called, Coded, GrantedOnce,
       SpentIfGranted, CodeGiven, TypeOK
<1>13. ASSUME NEW v \in Visits, SignIn(v) PROVE GrantedOnce'
  BY <1>13, <1>a, SignInEffect DEF SavedAs, MovedTo, Ended, Called, Coded, GrantedOnce,
       SpentIfGranted, CodeGiven, TypeOK
<1>14. ASSUME NEW v \in Visits, NEW w \in Workers, CountExchange(v, w) PROVE GrantedOnce'
  BY <1>14, <1>a, CountEffect DEF SavedAs, MovedTo, Ended, Called, Coded, GrantedOnce,
       SpentIfGranted, CodeGiven, TypeOK
<1>15. ASSUME NEW v \in Visits, LookUp(v) PROVE GrantedOnce'
  BY <1>15, <1>a, LookUpEffect DEF SavedAs, MovedTo, Ended, Called, Coded, GrantedOnce,
       SpentIfGranted, CodeGiven, TypeOK
<1>16. ASSUME NEW v \in Visits, Consume(v) PROVE GrantedOnce'
  BY <1>16, <1>a, ConsumeEffect DEF SavedAs, MovedTo, Ended, Called, Coded, GrantedOnce,
       SpentIfGranted, CodeGiven, TypeOK
<1>17. ASSUME UNCHANGED vars PROVE GrantedOnce'
  BY <1>17, <1>a DEF vars, GrantedOnce, SpentIfGranted, CodeGiven, TypeOK
<1> QED
  BY <1>1, <1>2, <1>3, <1>4, <1>5, <1>6, <1>7, <1>8, <1>9, <1>10, <1>11, <1>12, <1>13,
       <1>14, <1>15, <1>16, <1>17 DEF Next, Finish, Exchange

\* A login moves to a session of its own; everything else keeps the user of the
\* session it loaded.
LEMMA SessionsStep == ASSUME IInv, [Next]_vars PROVE Sessions'
<1> USE SsoAssumption, KeysDiffer DEF Keys, server
<1>a. TypeOK /\ CodeGiven /\ Sessions
  BY DEF IInv
<1>1. ASSUME Consent PROVE Sessions'
  BY <1>1, <1>a, ConsentEffect DEF SavedAs, MovedTo, Ended, Called, Coded, Sessions,
       CodeGiven, TypeOK
<1>2. ASSUME ConsentLapses PROVE Sessions'
  BY <1>2, <1>a, ConsentEffect DEF SavedAs, MovedTo, Ended, Called, Coded, Sessions,
       CodeGiven, TypeOK
<1>3. ASSUME Tick PROVE Sessions'
  BY <1>3, <1>a DEF Tick, server, Sessions, CodeGiven, TypeOK
<1>4. ASSUME NEW a \in Attempts, Begin(a) PROVE Sessions'
  BY <1>4, <1>a, BeginEffect DEF SavedAs, MovedTo, Ended, Called, Coded, Sessions,
       CodeGiven, TypeOK
<1>5. ASSUME NEW a \in Attempts, AuthorizeForced(a) PROVE Sessions'
  BY <1>5, <1>a DEF AuthorizeForced, server, Sessions, CodeGiven, TypeOK
<1>6. ASSUME NEW a \in Attempts, Authorize(a) PROVE Sessions'
  BY <1>6, <1>a, AuthorizeEffect DEF SavedAs, MovedTo, Ended, Called, Coded, Sessions,
       CodeGiven, TypeOK
<1>7. ASSUME NEW a \in Attempts, NEW u \in Users, DiscordSignIn(a, u) PROVE Sessions'
  BY <1>7, <1>a DEF DiscordSignIn, server, Sessions, CodeGiven, TypeOK
<1>8. ASSUME NEW o \in SignOuts, SignOut(o) PROVE Sessions'
  BY <1>8, <1>a, SignOutEffect DEF SavedAs, MovedTo, Ended, Called, Coded, Sessions,
       CodeGiven, TypeOK
<1>9. ASSUME NEW v \in Visits, Arrive(v) PROVE Sessions'
  <2>1. CASE Refused(v)
    <3>1. PICK d \in Session : d.user = store[cookie].user /\ SavedAs(cookie, d)
      BY <2>1 DEF Refused
    <3>2. \A w \in Visits : visit'[w].key = visit[w].key /\ visit'[w].data = visit[w].data
      BY <2>1 DEF Refused, Ended
    <3>3. d # None /\ cookie' = cookie
      BY <3>1 DEF SavedAs, Session
    <3>4. QED
      BY <3>1, <3>2, <3>3, <1>a DEF SavedAs, Sessions, TypeOK
  <2>2. CASE Asked(v)
    <3>1. PICK d \in Session : d.user = store[cookie].user /\ visit'[v].key = cookie /\ visit'[v].data = d
      BY <2>2 DEF Asked
    <3>2. store' = store /\ cookie' = cookie /\ \A w \in Visits \ {v} : visit'[w] = visit[w]
      BY <2>2 DEF Asked
    <3>3. QED
      BY <3>1, <3>2, <1>a DEF Sessions, TypeOK
  <2>3. QED
    BY <2>1, <2>2, <1>9, <1>a, ArriveEffect
<1>10. ASSUME NEW v \in Visits, GiveUp(v) PROVE Sessions'
  <2>1. /\ visit[v].key \in Keys /\ visit[v].data \in Session
        /\ SavedAs(visit[v].key, visit[v].data)
    BY <1>10, <1>a, LateEffect
  <2>2. \A w \in Visits : visit'[w].key = visit[w].key /\ visit'[w].data = visit[w].data
    BY <1>10, <1>a, LateEffect DEF Ended
  <2>3. QED
    BY <2>1, <2>2, <1>a DEF SavedAs, Sessions, TypeOK
<1>11. ASSUME NEW v \in Visits, Reject(v) PROVE Sessions'
  <2>1. /\ visit[v].key \in Keys /\ visit[v].data \in Session
        /\ SavedAs(visit[v].key, visit[v].data)
    BY <1>11, <1>a, LateEffect
  <2>2. \A w \in Visits : visit'[w].key = visit[w].key /\ visit'[w].data = visit[w].data
    BY <1>11, <1>a, LateEffect DEF Ended
  <2>3. QED
    BY <2>1, <2>2, <1>a DEF SavedAs, Sessions, TypeOK
<1>12. ASSUME NEW v \in Visits, MappingFails(v) PROVE Sessions'
  <2>1. /\ visit[v].key \in Keys /\ visit[v].data \in Session
        /\ SavedAs(visit[v].key, visit[v].data)
    BY <1>12, <1>a, LateEffect
  <2>2. \A w \in Visits : visit'[w].key = visit[w].key /\ visit'[w].data = visit[w].data
    BY <1>12, <1>a, LateEffect DEF Ended
  <2>3. QED
    BY <2>1, <2>2, <1>a DEF SavedAs, Sessions, TypeOK
<1>13. ASSUME NEW v \in Visits, SignIn(v) PROVE Sessions'
  <2>1. PICK d \in Session : d.user # None /\ MovedTo(v, d, visit[v].key)
    BY <1>13, <1>a, SignInEffect
  <2>2. \A w \in Visits : visit'[w].key = visit[w].key /\ visit'[w].data = visit[w].data
    BY <1>13, <1>a, SignInEffect DEF Ended
  <2>3. d # None /\ cookie' = v /\ v # First
    BY <2>1 DEF MovedTo, Session
  <2>4. /\ store[First] # None => cookie = First /\ \A w \in Visits : visit[w].key = First
        /\ \A k \in Keys : store[k] # None => (store[k].user # None <=> k \in Visits)
        /\ \A w \in Visits : visit[w].data.user # None <=> visit[w].key \in Visits
    BY <1>a DEF Sessions
  <2>5. \A k \in Keys : store'[k] # None => (store'[k].user # None <=> k \in Visits)
    BY <2>1, <2>3, <2>4 DEF MovedTo
  <2>6. store'[First] = None
    BY <2>1, <2>3, <2>4 DEF MovedTo
  <2>7. QED
    BY <2>1, <2>2, <2>3, <2>4, <2>5, <2>6 DEF MovedTo, Sessions
<1>14. ASSUME NEW v \in Visits, NEW w \in Workers, CountExchange(v, w) PROVE Sessions'
  BY <1>14, <1>a, CountEffect DEF SavedAs, MovedTo, Ended, Called, Coded, Sessions,
       CodeGiven, TypeOK
<1>15. ASSUME NEW v \in Visits, LookUp(v) PROVE Sessions'
  BY <1>15, <1>a, LookUpEffect DEF SavedAs, MovedTo, Ended, Called, Coded, Sessions,
       CodeGiven, TypeOK
<1>16. ASSUME NEW v \in Visits, Consume(v) PROVE Sessions'
  BY <1>16, <1>a, ConsumeEffect DEF SavedAs, MovedTo, Ended, Called, Coded, Sessions,
       CodeGiven, TypeOK
<1>17. ASSUME UNCHANGED vars PROVE Sessions'
  BY <1>17, <1>a DEF vars, Sessions, CodeGiven, TypeOK
<1> QED
  BY <1>1, <1>2, <1>3, <1>4, <1>5, <1>6, <1>7, <1>8, <1>9, <1>10, <1>11, <1>12, <1>13,
       <1>14, <1>15, <1>16, <1>17 DEF Next, Finish, Exchange

\* Only its login opens the session of a callback.
LEMMA OpenedByStep == ASSUME IInv, [Next]_vars PROVE OpenedBy'
<1> USE SsoAssumption, KeysDiffer DEF server, Keys
<1>a. TypeOK /\ CodeGiven /\ Sessions /\ OpenedBy
  BY DEF IInv
<1>1. ASSUME Consent PROVE OpenedBy'
  BY <1>1, <1>a, ConsentEffect DEF SavedAs, MovedTo, Ended, Called, Coded, OpenedBy,
       TypeOK
<1>2. ASSUME ConsentLapses PROVE OpenedBy'
  BY <1>2, <1>a, ConsentEffect DEF SavedAs, MovedTo, Ended, Called, Coded, OpenedBy,
       TypeOK
<1>3. ASSUME Tick PROVE OpenedBy'
  BY <1>3, <1>a DEF Tick, server, OpenedBy, TypeOK
<1>4. ASSUME NEW a \in Attempts, Begin(a) PROVE OpenedBy'
  BY <1>4, <1>a, BeginEffect DEF SavedAs, MovedTo, Ended, Called, Coded, OpenedBy,
       TypeOK
<1>5. ASSUME NEW a \in Attempts, AuthorizeForced(a) PROVE OpenedBy'
  BY <1>5, <1>a DEF AuthorizeForced, server, OpenedBy, TypeOK
<1>6. ASSUME NEW a \in Attempts, Authorize(a) PROVE OpenedBy'
  BY <1>6, <1>a, AuthorizeEffect DEF SavedAs, MovedTo, Ended, Called, Coded, OpenedBy,
       TypeOK
<1>7. ASSUME NEW a \in Attempts, NEW u \in Users, DiscordSignIn(a, u) PROVE OpenedBy'
  BY <1>7, <1>a DEF DiscordSignIn, server, OpenedBy, TypeOK
<1>8. ASSUME NEW o \in SignOuts, SignOut(o) PROVE OpenedBy'
  BY <1>8, <1>a, SignOutEffect DEF SavedAs, MovedTo, Ended, Called, Coded, OpenedBy,
       TypeOK
<1>9. ASSUME NEW v \in Visits, Arrive(v) PROVE OpenedBy'
  <2>1. CASE Refused(v)
    BY <2>1, <1>9, <1>a, ArriveEffect DEF Refused, SavedAs, Ended, OpenedBy, TypeOK
  <2>2. CASE Asked(v)
    <3>1. /\ store' = store /\ visit'[v].answer = "waiting" /\ visit'[v].key = cookie
          /\ \A w \in Visits \ {v} : visit'[w] = visit[w]
      BY <2>2 DEF Asked
    <3>2. store[cookie] # None /\ visit[v].answer = "none"
      BY <1>9, <1>a, ArriveEffect DEF Sessions
    <3>3. QED
      BY <3>1, <3>2, <1>a DEF OpenedBy
  <2>3. QED
    BY <2>1, <2>2, <1>9, <1>a, ArriveEffect
<1>10. ASSUME NEW v \in Visits, GiveUp(v) PROVE OpenedBy'
  BY <1>10, <1>a, LateEffect DEF SavedAs, MovedTo, Ended, Called, Coded, OpenedBy,
       TypeOK
<1>11. ASSUME NEW v \in Visits, Reject(v) PROVE OpenedBy'
  BY <1>11, <1>a, LateEffect DEF SavedAs, MovedTo, Ended, Called, Coded, OpenedBy,
       TypeOK
<1>12. ASSUME NEW v \in Visits, MappingFails(v) PROVE OpenedBy'
  BY <1>12, <1>a, LateEffect DEF SavedAs, MovedTo, Ended, Called, Coded, OpenedBy,
       TypeOK
<1>13. ASSUME NEW v \in Visits, SignIn(v) PROVE OpenedBy'
  BY <1>13, <1>a, SignInEffect DEF SavedAs, MovedTo, Ended, Called, Coded, OpenedBy,
       TypeOK
<1>14. ASSUME NEW v \in Visits, NEW w \in Workers, CountExchange(v, w) PROVE OpenedBy'
  BY <1>14, <1>a, CountEffect DEF SavedAs, MovedTo, Ended, Called, Coded, OpenedBy,
       TypeOK
<1>15. ASSUME NEW v \in Visits, LookUp(v) PROVE OpenedBy'
  BY <1>15, <1>a, LookUpEffect DEF SavedAs, MovedTo, Ended, Called, Coded, OpenedBy,
       TypeOK
<1>16. ASSUME NEW v \in Visits, Consume(v) PROVE OpenedBy'
  BY <1>16, <1>a, ConsumeEffect DEF SavedAs, MovedTo, Ended, Called, Coded, OpenedBy,
       TypeOK
<1>17. ASSUME UNCHANGED vars PROVE OpenedBy'
  BY <1>17, <1>a DEF vars, OpenedBy, TypeOK
<1> QED
  BY <1>1, <1>2, <1>3, <1>4, <1>5, <1>6, <1>7, <1>8, <1>9, <1>10, <1>11, <1>12, <1>13,
       <1>14, <1>15, <1>16, <1>17 DEF Next, Finish, Exchange

\* A lone attempt finds its state again.
LEMMA StateKeptStep == ASSUME IInv, [Next]_vars PROVE StateKept'
<1> USE SsoAssumption, KeysDiffer DEF Keys, Session, Code, Visit, server
<1>a. TypeOK /\ CodeGiven /\ Sessions /\ OpenedBy /\ StateKept
  BY DEF IInv
<1>1. ASSUME Consent PROVE StateKept'
  BY SMTT(30), <1>1, <1>a, ConsentEffect DEF SavedAs, MovedTo, Ended, Called, Coded, StateKept,
       Quiet, Sessions, OpenedBy, TypeOK
<1>2. ASSUME ConsentLapses PROVE StateKept'
  BY SMTT(30), <1>2, <1>a, ConsentEffect DEF SavedAs, MovedTo, Ended, Called, Coded, StateKept,
       Quiet, Sessions, OpenedBy, TypeOK
<1>3. ASSUME Tick PROVE StateKept'
  BY <1>3, <1>a DEF Tick, server, StateKept, Quiet, Sessions, OpenedBy, TypeOK
<1>4. ASSUME NEW a \in Attempts, Begin(a) PROVE StateKept'
  BY <1>4, <1>a, BeginEffect DEF SavedAs, MovedTo, Ended, Called, Coded, StateKept,
       Quiet, Sessions, OpenedBy, TypeOK
<1>5. ASSUME NEW a \in Attempts, AuthorizeForced(a) PROVE StateKept'
  BY <1>5, <1>a DEF AuthorizeForced, server, StateKept, Quiet, Sessions, OpenedBy,
       TypeOK
<1>6. ASSUME NEW a \in Attempts, Authorize(a) PROVE StateKept'
  BY <1>6, <1>a, AuthorizeEffect DEF SavedAs, MovedTo, Ended, Called, Coded, StateKept,
       Quiet, Sessions, OpenedBy, TypeOK
<1>7. ASSUME NEW a \in Attempts, NEW u \in Users, DiscordSignIn(a, u) PROVE StateKept'
  BY <1>7, <1>a DEF DiscordSignIn, server, StateKept, Quiet, Sessions, OpenedBy, TypeOK
<1>8. ASSUME NEW o \in SignOuts, SignOut(o) PROVE StateKept'
  BY <1>8, <1>a, SignOutEffect DEF SavedAs, MovedTo, Ended, Called, Coded, StateKept,
       Quiet, Sessions, OpenedBy, TypeOK
<1>9. ASSUME NEW v \in Visits, Arrive(v) PROVE StateKept'
  <2>1. CASE Refused(v)
    BY <2>1, <1>9, <1>a, ArriveEffect DEF Refused, SavedAs, Ended, StateKept, Quiet,
         Sessions, OpenedBy, TypeOK
  <2>2. CASE Asked(v)
    BY <2>2, <1>9, <1>a, ArriveEffect DEF Asked, Called, StateKept, Quiet, Sessions,
         OpenedBy, TypeOK
  <2>3. QED
    BY <2>1, <2>2, <1>9, <1>a, ArriveEffect
<1>10. ASSUME NEW v \in Visits, GiveUp(v) PROVE StateKept'
  BY <1>10, <1>a, LateEffect DEF SavedAs, MovedTo, Ended, Called, Coded, StateKept,
       Quiet, Sessions, OpenedBy, TypeOK
<1>11. ASSUME NEW v \in Visits, Reject(v) PROVE StateKept'
  BY <1>11, <1>a, LateEffect DEF SavedAs, MovedTo, Ended, Called, Coded, StateKept,
       Quiet, Sessions, OpenedBy, TypeOK
<1>12. ASSUME NEW v \in Visits, MappingFails(v) PROVE StateKept'
  BY <1>12, <1>a, LateEffect DEF SavedAs, MovedTo, Ended, Called, Coded, StateKept,
       Quiet, Sessions, OpenedBy, TypeOK
<1>13. ASSUME NEW v \in Visits, SignIn(v) PROVE StateKept'
  BY <1>13, <1>a, SignInEffect DEF SavedAs, MovedTo, Ended, Called, Coded, StateKept,
       Quiet, Sessions, OpenedBy, TypeOK
<1>14. ASSUME NEW v \in Visits, NEW w \in Workers, CountExchange(v, w) PROVE StateKept'
  BY <1>14, <1>a, CountEffect DEF SavedAs, MovedTo, Ended, Called, Coded, StateKept,
       Quiet, Sessions, OpenedBy, TypeOK
<1>15. ASSUME NEW v \in Visits, LookUp(v) PROVE StateKept'
  BY <1>15, <1>a, LookUpEffect DEF SavedAs, MovedTo, Ended, Called, Coded, StateKept,
       Quiet, Sessions, OpenedBy, TypeOK
<1>16. ASSUME NEW v \in Visits, Consume(v) PROVE StateKept'
  BY <1>16, <1>a, ConsumeEffect DEF SavedAs, MovedTo, Ended, Called, Coded, StateKept,
       Quiet, Sessions, OpenedBy, TypeOK
<1>17. ASSUME UNCHANGED vars PROVE StateKept'
  BY <1>17, <1>a DEF vars, StateKept, Quiet, Sessions, OpenedBy, TypeOK
<1> QED
  BY <1>1, <1>2, <1>3, <1>4, <1>5, <1>6, <1>7, <1>8, <1>9, <1>10, <1>11, <1>12, <1>13,
       <1>14, <1>15, <1>16, <1>17 DEF Next, Finish, Exchange

\* The cause of a refusal does not go away.
LEMMA RefusalsJustifiedStep == ASSUME IInv, [Next]_vars PROVE RefusalsJustified'
<1> USE SsoAssumption, KeysDiffer DEF Keys, Code, server
<1>a. TypeOK /\ CodeGiven /\ SpentIfGranted /\ Sessions /\ OpenedBy /\ StateKept /\ RefusalsJustified
  BY DEF IInv
<1>1. ASSUME Consent PROVE RefusalsJustified'
  BY <1>1, <1>a, ConsentEffect DEF SavedAs, MovedTo, Ended, Called, Coded,
       RefusalsJustified, StateKept, Quiet, Sessions, OpenedBy, CodeGiven,
       SpentIfGranted, Expired, TypeOK
<1>2. ASSUME ConsentLapses PROVE RefusalsJustified'
  BY <1>2, <1>a, ConsentEffect DEF SavedAs, MovedTo, Ended, Called, Coded,
       RefusalsJustified, StateKept, Quiet, Sessions, OpenedBy, CodeGiven,
       SpentIfGranted, Expired, TypeOK
<1>3. ASSUME Tick PROVE RefusalsJustified'
  BY <1>3, <1>a DEF Tick, server, RefusalsJustified, StateKept, Quiet, Sessions,
       OpenedBy, CodeGiven, SpentIfGranted, Expired, TypeOK
<1>4. ASSUME NEW a \in Attempts, Begin(a) PROVE RefusalsJustified'
  BY <1>4, <1>a, BeginEffect DEF SavedAs, MovedTo, Ended, Called, Coded,
       RefusalsJustified, StateKept, Quiet, Sessions, OpenedBy, CodeGiven,
       SpentIfGranted, Expired, TypeOK
<1>5. ASSUME NEW a \in Attempts, AuthorizeForced(a) PROVE RefusalsJustified'
  BY <1>5, <1>a DEF AuthorizeForced, server, RefusalsJustified, StateKept, Quiet,
       Sessions, OpenedBy, CodeGiven, SpentIfGranted, Expired, TypeOK
<1>6. ASSUME NEW a \in Attempts, Authorize(a) PROVE RefusalsJustified'
  BY <1>6, <1>a, AuthorizeEffect DEF SavedAs, MovedTo, Ended, Called, Coded,
       RefusalsJustified, StateKept, Quiet, Sessions, OpenedBy, CodeGiven,
       SpentIfGranted, Expired, TypeOK
<1>7. ASSUME NEW a \in Attempts, NEW u \in Users, DiscordSignIn(a, u) PROVE RefusalsJustified'
  BY <1>7, <1>a DEF DiscordSignIn, server, RefusalsJustified, StateKept, Quiet,
       Sessions, OpenedBy, CodeGiven, SpentIfGranted, Expired, TypeOK
<1>8. ASSUME NEW o \in SignOuts, SignOut(o) PROVE RefusalsJustified'
  BY <1>8, <1>a, SignOutEffect DEF SavedAs, MovedTo, Ended, Called, Coded,
       RefusalsJustified, StateKept, Quiet, Sessions, OpenedBy, CodeGiven,
       SpentIfGranted, Expired, TypeOK
<1>9. ASSUME NEW v \in Visits, Arrive(v) PROVE RefusalsJustified'
  <2>0. /\ stage[AttemptOf[v]] = "back" /\ visit[v].answer = "none" /\ AttemptOf[v] \in Attempts
        /\ stage' = stage /\ code' = code /\ now' = now
    BY <1>9, <1>a, ArriveEffect
  <2>1. CASE Refused(v)
    <3>1. PICK x \in {"invalid", "expired"} :
            Ended(v, x) /\ (x = "invalid" => store[cookie].state # AttemptOf[v])
      BY <2>1 DEF Refused
    <3>2. \A w \in Visits : visit'[w].answer = IF w = v THEN x ELSE visit[w].answer
      BY <3>1 DEF Ended
    <3>3. \A o \in SignOuts : store[o] # None => store'[o] # None
      BY <2>1 DEF Refused, SavedAs, Session
    <3>4. call' = call
      BY <2>1 DEF Refused
    <3>5. x = "invalid" => ~Quiet(AttemptOf[v])
      BY <3>1, <2>0, <1>a DEF StateKept
    <3>6. x = "invalid" => \/ \E a \in Attempts \ {AttemptOf[v]} : stage[a] # "start"
                           \/ \E w \in Visits \ {v} : visit[w].answer # "none"
                           \/ \E o \in SignOuts : store[o] # None
      BY <3>5, <2>0 DEF Quiet
    <3>7. QED
      BY <3>2, <3>3, <3>4, <3>6, <2>0, <1>a DEF RefusalsJustified, Expired
  <2>2. CASE Asked(v)
    BY <2>2, <1>9, <1>a, ArriveEffect DEF Asked, Called, RefusalsJustified, CodeGiven, Expired, TypeOK
  <2>3. QED
    BY <2>1, <2>2, <1>9, <1>a, ArriveEffect
<1>10. ASSUME NEW v \in Visits, GiveUp(v) PROVE RefusalsJustified'
  BY SMTT(30), <1>10, <1>a, LateEffect DEF SavedAs, MovedTo, Ended, Called, Coded,
       RefusalsJustified, StateKept, Quiet, Sessions, OpenedBy, CodeGiven,
       SpentIfGranted, Expired, TypeOK
<1>11. ASSUME NEW v \in Visits, Reject(v) PROVE RefusalsJustified'
  BY <1>11, <1>a, LateEffect DEF SavedAs, MovedTo, Ended, Called, Coded,
       RefusalsJustified, StateKept, Quiet, Sessions, OpenedBy, CodeGiven,
       SpentIfGranted, Expired, TypeOK
<1>12. ASSUME NEW v \in Visits, MappingFails(v) PROVE RefusalsJustified'
  BY <1>12, <1>a, LateEffect DEF SavedAs, MovedTo, Ended, Called, Coded,
       RefusalsJustified, StateKept, Quiet, Sessions, OpenedBy, CodeGiven,
       SpentIfGranted, Expired, TypeOK
<1>13. ASSUME NEW v \in Visits, SignIn(v) PROVE RefusalsJustified'
  BY <1>13, <1>a, SignInEffect DEF SavedAs, MovedTo, Ended, Called, Coded,
       RefusalsJustified, StateKept, Quiet, Sessions, OpenedBy, CodeGiven,
       SpentIfGranted, Expired, TypeOK
<1>14. ASSUME NEW v \in Visits, NEW w \in Workers, CountExchange(v, w) PROVE RefusalsJustified'
  BY SMTT(30), <1>14, <1>a, CountEffect DEF SavedAs, MovedTo, Ended, Called, Coded,
       RefusalsJustified, StateKept, Quiet, Sessions, OpenedBy, CodeGiven,
       SpentIfGranted, Expired, TypeOK
<1>15. ASSUME NEW v \in Visits, LookUp(v) PROVE RefusalsJustified'
  BY <1>15, <1>a, LookUpEffect DEF SavedAs, MovedTo, Ended, Called, Coded,
       RefusalsJustified, StateKept, Quiet, Sessions, OpenedBy, CodeGiven,
       SpentIfGranted, Expired, TypeOK
<1>16. ASSUME NEW v \in Visits, Consume(v) PROVE RefusalsJustified'
  BY <1>16, <1>a, ConsumeEffect DEF SavedAs, MovedTo, Ended, Called, Coded,
       RefusalsJustified, StateKept, Quiet, Sessions, OpenedBy, CodeGiven,
       SpentIfGranted, Expired, TypeOK
<1>17. ASSUME UNCHANGED vars PROVE RefusalsJustified'
  BY <1>17, <1>a DEF vars, RefusalsJustified, StateKept, Quiet, Sessions, OpenedBy,
       CodeGiven, SpentIfGranted, Expired, TypeOK
<1> QED
  BY <1>1, <1>2, <1>3, <1>4, <1>5, <1>6, <1>7, <1>8, <1>9, <1>10, <1>11, <1>12, <1>13,
       <1>14, <1>15, <1>16, <1>17 DEF Next, Finish, Exchange

---------------------------------------------------------------------------
\* IInv holds of every reachable state.
THEOREM Invariance == Spec => []IInv
<1>1. Init => IInv
  <2> SUFFICES ASSUME Init PROVE IInv
    OBVIOUS
  <2> USE SsoAssumption, KeysDiffer
  <2>1. Blank # None /\ Blank.user = None
    BY BlankTyped DEF Blank
  <2>2. \A v \in Visits : visit[v] = [answer |-> "none", key |-> First, data |-> Blank] /\ call[v] = "none"
    BY DEF Init
  <2>3. \A k \in Keys : store[k] = IF k = First THEN Blank ELSE None
    BY DEF Init
  <2>4. cookie = First /\ \A a \in Attempts : stage[a] = "start" /\ code[a] = None
    BY DEF Init
  <2>5. TypeOK
    BY BlankTyped DEF Init, TypeOK, Visit, Keys
  <2>6. CodeGiven /\ SpentIfGranted /\ GrantedOnce
    BY <2>2, <2>4 DEF CodeGiven, SpentIfGranted, GrantedOnce
  <2>7. Sessions
    BY <2>1, <2>2, <2>3, <2>4 DEF Sessions, Keys
  <2>8. OpenedBy
    BY <2>2, <2>3 DEF OpenedBy, Keys
  <2>9. StateKept /\ RefusalsJustified
    BY <2>2, <2>4 DEF StateKept, RefusalsJustified
  <2>10. QED
    BY <2>5, <2>6, <2>7, <2>8, <2>9 DEF IInv
<1>2. IInv /\ [Next]_vars => IInv'
  BY TypeOKStep, CodeGivenStep, SpentIfGrantedStep, GrantedOnceStep, SessionsStep, OpenedByStep,
     StateKeptStep, RefusalsJustifiedStep DEF IInv
<1>3. QED
  BY <1>1, <1>2, PTL DEF Spec

\* Every variable of SsoLogin keeps its type.
THEOREM TypeCorrect == Spec => []TypeOK
<1>1. IInv => TypeOK
  BY DEF IInv
<1>2. QED
  BY <1>1, Invariance, PTL

\* A code makes one login, whichever workers answer its callbacks and however
\* late (tenants/views.py:272-277).
THEOREM GrantedOnceHolds == Spec => []GrantedOnce
<1>1. IInv => GrantedOnce
  BY DEF IInv
<1>2. QED
  BY <1>1, Invariance, PTL

\* Who signs in alone and in time is not turned away (accounts/views.py:613-661,
\* tenants/views.py:257-280).
THEOREM RefusalsJustifiedHolds == Spec => []RefusalsJustified
<1>1. IInv => RefusalsJustified
  BY DEF IInv
<1>2. QED
  BY <1>1, Invariance, PTL

\* A login is lost to a sign-out or a new attempt only (accounts/views.py:580-676).
THEOREM KeepsLoginHolds == Spec => KeepsLogin
<1>1. IInv /\ [Next]_vars =>
        [(Mine.user # None /\ Mine'.user = None)
           => \/ \E a \in Attempts : stage[a] = "start" /\ stage'[a] = "sent"
              \/ \E o \in SignOuts : store[o] # store'[o]
              \/ Overtaken]_vars
  <2> SUFFICES ASSUME IInv, Next, Mine.user # None, Mine'.user = None
               PROVE  \/ \E a \in Attempts : stage[a] = "start" /\ stage'[a] = "sent"
                      \/ \E o \in SignOuts : store[o] # store'[o]
                      \/ Overtaken
    OBVIOUS
  <2> DEFINE Goal == \/ \E a \in Attempts : stage[a] = "start" /\ stage'[a] = "sent"
                     \/ \E o \in SignOuts : store[o] # store'[o]
                     \/ Overtaken
  <2> USE SsoAssumption, KeysDiffer DEF Keys, Session, Code, Visit, server, Mine
  <2>a. TypeOK /\ Sessions /\ CodeGiven /\ cookie \in Visits
    BY DEF IInv, Sessions, TypeOK
  <2>1. ASSUME Consent PROVE Goal
    BY <2>1, <2>a, ConsentEffect DEF SavedAs, MovedTo, Ended, Called, Coded, Sessions,
         Overtaken, TypeOK
  <2>2. ASSUME ConsentLapses PROVE Goal
    BY <2>2, <2>a, ConsentEffect DEF SavedAs, MovedTo, Ended, Called, Coded, Sessions,
         Overtaken, TypeOK
  <2>3. ASSUME Tick PROVE Goal
    BY <2>3, <2>a DEF Tick, Sessions, CodeGiven, Overtaken, TypeOK
  <2>4. ASSUME NEW a \in Attempts, Begin(a) PROVE Goal
    BY <2>4, <2>a, BeginEffect DEF SavedAs, MovedTo, Ended, Called, Coded, Sessions,
         Overtaken, TypeOK
  <2>5. ASSUME NEW a \in Attempts, AuthorizeForced(a) PROVE Goal
    BY <2>5, <2>a DEF AuthorizeForced, Sessions, CodeGiven, Overtaken, TypeOK
  <2>6. ASSUME NEW a \in Attempts, Authorize(a) PROVE Goal
    BY <2>6, <2>a, AuthorizeEffect DEF SavedAs, MovedTo, Ended, Called, Coded, Sessions,
         Overtaken, TypeOK
  <2>7. ASSUME NEW a \in Attempts, NEW u \in Users, DiscordSignIn(a, u) PROVE Goal
    BY <2>7, <2>a DEF DiscordSignIn, Sessions, CodeGiven, Overtaken, TypeOK
  <2>8. ASSUME NEW o \in SignOuts, SignOut(o) PROVE Goal
    BY <2>8, <2>a, SignOutEffect DEF SavedAs, MovedTo, Ended, Called, Coded, Sessions,
         Overtaken, TypeOK
  <2>9. ASSUME NEW v \in Visits, Arrive(v) PROVE Goal
    <3>1. CASE Refused(v)
      BY <3>1, <2>a DEF Refused, SavedAs, Sessions, TypeOK
    <3>2. CASE Asked(v)
      BY <3>2, <2>a DEF Asked, Sessions, TypeOK
    <3>3. QED
      BY <3>1, <3>2, <2>9, <2>a, ArriveEffect
  <2>10. ASSUME NEW v \in Visits, GiveUp(v) PROVE Goal
    BY <2>10, <2>a, LateEffect DEF SavedAs, MovedTo, Ended, Called, Coded, Sessions,
         Overtaken, TypeOK
  <2>11. ASSUME NEW v \in Visits, Reject(v) PROVE Goal
    BY <2>11, <2>a, LateEffect DEF SavedAs, MovedTo, Ended, Called, Coded, Sessions,
         Overtaken, TypeOK
  <2>12. ASSUME NEW v \in Visits, MappingFails(v) PROVE Goal
    BY <2>12, <2>a, LateEffect DEF SavedAs, MovedTo, Ended, Called, Coded, Sessions,
         Overtaken, TypeOK
  <2>13. ASSUME NEW v \in Visits, SignIn(v) PROVE Goal
    BY <2>13, <2>a, SignInEffect DEF SavedAs, MovedTo, Ended, Called, Coded, Sessions,
         Overtaken, TypeOK
  <2>14. ASSUME NEW v \in Visits, NEW w \in Workers, CountExchange(v, w) PROVE Goal
    BY <2>14, <2>a, CountEffect DEF SavedAs, MovedTo, Ended, Called, Coded, Sessions,
         Overtaken, TypeOK
  <2>15. ASSUME NEW v \in Visits, LookUp(v) PROVE Goal
    BY <2>15, <2>a, LookUpEffect DEF SavedAs, MovedTo, Ended, Called, Coded, Sessions,
         Overtaken, TypeOK
  <2>16. ASSUME NEW v \in Visits, Consume(v) PROVE Goal
    BY <2>16, <2>a, ConsumeEffect DEF SavedAs, MovedTo, Ended, Called, Coded, Sessions,
         Overtaken, TypeOK
  <2> QED
    BY <2>1, <2>2, <2>3, <2>4, <2>5, <2>6, <2>7, <2>8, <2>9, <2>10, <2>11, <2>12, <2>13,
         <2>14, <2>15, <2>16 DEF Next, Finish, Exchange
<1>2. QED
  BY <1>1, Invariance, PTL DEF Spec, KeepsLogin

=============================================================================
