------------------------------ MODULE BookingLedger ------------------------------
(***************************************************************************)
(* What booking creation promises its callers, with no transaction, lock   *)
(* or statement: every request is decided at one instant, against the      *)
(* bookings and the open slots of that instant.                            *)
(***************************************************************************)
EXTENDS Integers

CONSTANTS Creators, Requests, Slots, SlotOf, Buffer, None

VARIABLES
  open,    \* the slots that can be booked
  asked,   \* the request of each creator, None before it asks
  booked,  \* "none", "CONFIRMED" or "CLOSED"
  reply    \* what the creator was told, "none" before

ledger == <<open, asked, booked, reply>>

Within(s, r) ==
  SlotOf[s].res = r.res /\ SlotOf[s].start <= r.start /\ SlotOf[s].end >= r.end

Clash(q, r) ==
  /\ booked[q] = "CONFIRMED"
  /\ asked[q].res = r.res
  /\ asked[q].start < r.end + Buffer
  /\ r.start < asked[q].end + Buffer

Pending(p) == asked[p] # None /\ booked[p] = "none" /\ reply[p] = "none"

Reply(p, a) == reply' = [reply EXCEPT ![p] = a] /\ UNCHANGED <<open, asked, booked>>

Start ==
  /\ open \in SUBSET Slots
  /\ asked = [p \in Creators |-> None]
  /\ booked = [p \in Creators |-> "none"]
  /\ reply = [p \in Creators |-> "none"]

\* A request for an empty interval is refused as soon as it is made.
Ask(p) ==
  \E r \in Requests :
    /\ asked[p] = None
    /\ asked' = [asked EXCEPT ![p] = r]
    /\ reply' = IF r.start < r.end THEN reply ELSE [reply EXCEPT ![p] = "invalid"]
    /\ UNCHANGED <<open, booked>>

Reserve(p) ==
  /\ Pending(p)
  /\ \E s \in open : Within(s, asked[p])
  /\ \A q \in Creators : ~Clash(q, asked[p])
  /\ booked' = [booked EXCEPT ![p] = "CONFIRMED"]
  /\ UNCHANGED <<open, asked, reply>>

RefuseClash(p) ==
  Pending(p) /\ (\E q \in Creators : Clash(q, asked[p])) /\ Reply(p, "conflict")

RefuseUnavailable(p) ==
  Pending(p) /\ (\A s \in open : ~Within(s, asked[p])) /\ Reply(p, "outside")

GiveUp(p) == Pending(p) /\ \E a \in {"error", "deadlock"} : Reply(p, a)

Acknowledge(p) ==
  /\ booked[p] # "none"
  /\ reply[p] = "none"
  /\ \E a \in {"created", "error"} : Reply(p, a)

Close(p) ==
  /\ booked[p] = "CONFIRMED"
  /\ booked' = [booked EXCEPT ![p] = "CLOSED"]
  /\ UNCHANGED <<open, asked, reply>>

Reopen == open' \in SUBSET Slots /\ UNCHANGED <<asked, booked, reply>>

Step ==
  \/ \E p \in Creators : \/ Ask(p) \/ Reserve(p) \/ RefuseClash(p)
                         \/ RefuseUnavailable(p) \/ GiveUp(p)
                         \/ Acknowledge(p) \/ Close(p)
  \/ Reopen

Ledger == Start /\ [][Step]_ledger

=============================================================================
