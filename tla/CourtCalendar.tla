---------------------------- MODULE CourtCalendar ----------------------------
(***************************************************************************)
(* The calendars a court publishes and the filing date they give a receipt *)
(* time.  Sources: services/court_calendar_service.py,                     *)
(* api/court_calendars.py, models/court_calendar.py and                    *)
(* schemas/court_calendar.py.                                              *)
(*                                                                         *)
(* Days are numbers and time passes in half days, two to the UTC day, so   *)
(* that a time zone is an offset of at most a half day and a local day is  *)
(* the UTC day or a neighbour of it.                                       *)
(***************************************************************************)
EXTENDS Integers, Sequences, FiniteSets

CONSTANTS
  Publications,    \* bound of the model: what a court may come to have published
  NoDay,           \* no filing date could be given
  Horizon          \* days an assessment looks at: 367 in the code

\* What CourtCalendarCreate lets through.
WellFormed(c) ==
  /\ c.validFrom \in Int /\ c.validThrough \in Int
  /\ c.timezone \in -1..1
  /\ c.validThrough - c.validFrom \in 0..1095
  /\ c.closed \subseteq c.validFrom .. c.validThrough

ASSUME CalendarAssumption ==
  /\ Horizon \in Nat \ {0}
  /\ NoDay \notin Int
  /\ <<>> \in Publications
  /\ \A cs \in Publications : DOMAIN cs \subseteq Nat /\ \A n \in DOMAIN cs : WellFormed(cs[n])

VARIABLE calendars   \* rows of court_calendars, the oldest first

LocalDay(time, zone) == (time + zone) \div 2

UTCDay(time) == LocalDay(time, 0)

Covers(c, day) == day \in c.validFrom .. c.validThrough

Weekend(day) == day % 7 \in {5, 6}

Least(S) == {x \in S : \A y \in S : x <= y}

\* The ids of the newest of the calendars that satisfy P: none or one.
Newest(ids) == {n \in ids : \A m \in ids : m <= n}

Covering(ids, day) == Newest({n \in ids : Covers(calendars[n], day)})

-----------------------------------------------------------------------------
\* Only a court administrator or judge publishes; what is published stays.

PublishCalendar ==
  /\ calendars' \in {cs \in Publications : Len(cs) = Len(calendars) + 1}
  /\ SubSeq(calendars', 1, Len(calendars)) = calendars

-----------------------------------------------------------------------------
\* assess_date, from the calendars that a query selected.

Initial(ids, time) ==
  Newest({n \in ids : Covers(calendars[n], LocalDay(time, calendars[n].timezone))})

Known(ids, zone, day) == \E n \in Covering(ids, day) : calendars[n].timezone = zone

Closed(ids, day) == Weekend(day) \/ \E n \in Covering(ids, day) : day \in calendars[n].closed

\* The days the loop does not go over; it ends at the first.
Ends(ids, zone, received) ==
  {day \in received .. received + Horizon - 1 : Known(ids, zone, day) => ~Closed(ids, day)}

DateInZone(ids, zone, received) ==
  LET end == {day \in Least(Ends(ids, zone, received)) : Known(ids, zone, day)}
  IN IF end = {} THEN NoDay ELSE CHOOSE day \in end : TRUE

Assess(ids, time) ==
  LET initial == Initial(ids, time)
      zone == calendars[CHOOSE n \in initial : TRUE].timezone
  IN IF initial = {} THEN NoDay ELSE DateInZone(ids, zone, LocalDay(time, zone))

ShortWindow(time) ==
  {n \in DOMAIN calendars : /\ calendars[n].validThrough >= UTCDay(time) - 1
                            /\ calendars[n].validFrom < UTCDay(time) + Horizon}

\* The calendars filing_date_for_receipt asks the database for.
Window(time) ==
  {n \in DOMAIN calendars : /\ calendars[n].validThrough >= UTCDay(time) - 1
                            /\ calendars[n].validFrom <= UTCDay(time) + Horizon}

FilingDate(time) == Assess(Window(time), time)

-----------------------------------------------------------------------------
\* What the filing date should be, from every calendar ever published: the
\* first open day from the day of receipt, in the court's time zone, every
\* day up to it covered in that zone.

GivesDate(time, day) ==
  \E first \in Initial(DOMAIN calendars, time) :
    LET zone == calendars[first].timezone
        received == LocalDay(time, zone)
        Open(d) == ~Weekend(d) /\ \A n \in Covering(DOMAIN calendars, d) : d \notin calendars[n].closed
    IN /\ day \in received .. received + Horizon - 1
       /\ Open(day)
       /\ \A d \in received .. day : /\ Known(DOMAIN calendars, zone, d)
                                     /\ Open(d) => d = day

=============================================================================
