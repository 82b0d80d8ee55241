------------------------------- MODULE Mailing -------------------------------
(***************************************************************************)
(* What the email outbox promises of its notices, without workers, queues, *)
(* attempts counted or relays that answer late.  Each notice has a current *)
(* message, and its readers are told whether that message was delivered,   *)
(* was not, or that nobody can say.  A message is delivered once at most,  *)
(* only while its readers are told that nobody can say, or later if court  *)
(* staff released it: they asked for another in spite of that, and only    *)
(* they can do so.                                                         *)
(***************************************************************************)
EXTENDS Naturals

CONSTANT Notices

VARIABLES
  current,    \* the number of each notice's current message, 0 before one
  told,       \* what the readers of each notice are told of that message
  delivered,  \* the copies the relay has accepted
  released    \* messages that court staff asked to have sent again

vars == <<current, told, delivered, released>>

Told == {"delivered", "undelivered", "uncertain"}

IsDelivered(n, m) == \E d \in delivered : d.notice = n /\ d.message = m

Init ==
  /\ current = [n \in Notices |-> 0]
  /\ told \in [Notices -> Told \ {"delivered"}]
  /\ delivered = {}
  /\ released = {}

\* Another message takes the place of one that was not delivered, or, at
\* the decision of court staff, of one nobody can be sure of.
Compose(n, staff) ==
  /\ told[n] # "delivered"
  /\ told[n] = "uncertain" => staff
  /\ current' = [current EXCEPT ![n] = @ + 1]
  /\ told' = [told EXCEPT ![n] = "undelivered"]
  /\ released' = IF staff THEN released \cup {<<n, current[n]>>} ELSE released
  /\ UNCHANGED delivered

\* Court staff ask for another message, but the recipient can no longer be
\* reached: the readers are told of the message that was not composed.
Release(n) ==
  /\ told[n] # "delivered"
  /\ told' = [told EXCEPT ![n] = "undelivered"]
  /\ released' = released \cup {<<n, current[n]>>}
  /\ UNCHANGED <<current, delivered>>

\* An attempt begins.
Attempt(n) ==
  /\ told[n] = "undelivered"
  /\ told' = [told EXCEPT ![n] = "uncertain"]
  /\ UNCHANGED <<current, delivered, released>>

\* The relay accepts one copy more, of a message it has no copy of.
Deliver(n, m) ==
  /\ ~IsDelivered(n, m)
  /\ \/ m = current[n] /\ told[n] = "uncertain"
     \/ <<n, m>> \in released
  /\ \E copy \in delivered' :
       /\ copy.notice = n /\ copy.message = m
       /\ delivered' = delivered \cup {copy}
  /\ UNCHANGED <<current, told, released>>

\* The outcome of an attempt becomes known.
Settle(n) ==
  /\ told[n] = "uncertain"
  /\ told' = [told EXCEPT ![n] = IF IsDelivered(n, current[n]) THEN "delivered"
                                                               ELSE "undelivered"]
  /\ UNCHANGED <<current, delivered, released>>

\* Court staff report that a message did not arrive; its sender may be
\* told so by a notice of its own.
Report(n) ==
  /\ told[n] \in {"delivered", "uncertain"}
  /\ \/ /\ told' = [told EXCEPT ![n] = "uncertain"]
        /\ UNCHANGED current
     \/ \E alert \in Notices \ {n} :
          /\ told[alert] = "undelivered"
          /\ told' = [told EXCEPT ![n] = "uncertain"]
          /\ current' = [current EXCEPT ![alert] = @ + 1]
  /\ UNCHANGED <<delivered, released>>

Next ==
  \E n \in Notices :
    \/ \E staff \in BOOLEAN : Compose(n, staff)
    \/ Release(n)
    \/ Attempt(n)
    \/ \E m \in 1..current[n] : Deliver(n, m)
    \/ Settle(n)
    \/ Report(n)

Spec == Init /\ [][Next]_vars
=============================================================================
