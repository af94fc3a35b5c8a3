--------------------------- MODULE SyntheticEvents ---------------------------
(***************************************************************************)
(* The events that generate-synthetic-events writes (synthetic_events.py): *)
(* when each takes place and in which zone.  An event is its number, its   *)
(* minute counted from a midnight UTC, and its zone; demand and users play *)
(* no part in what follows.  The length of an hour and of a day are        *)
(* parameters (60 and 24 in the code).                                     *)
(***************************************************************************)
EXTENDS Integers, Sequences

CONSTANTS
  MinutesPerHour,
  HoursPerDay,
  None             \* an option that is not given, a file that does not exist

ASSUME ClockAssumption ==
  /\ MinutesPerHour \in Nat \ {0}
  /\ HoursPerDay \in Nat \ {0}

MinutesPerDay == MinutesPerHour * HoursPerDay

(* .dt.hour of a UTC timestamp. *)
Hour(minute) == (minute \div MinutesPerHour) % HoursPerDay

UsesGrid(c) == c.days # None /\ c.perDay # None

Valid(c) ==
  /\ c.rows > 0 /\ c.interval > 0 /\ c.zones > 0
  /\ (c.days = None) <=> (c.perDay = None)
  /\ c.days # None => c.days > 0
  /\ c.perDay # None => c.perDay \in 1..MinutesPerDay

ExpectedRows(c) ==
  IF UsesGrid(c) THEN c.zones * c.days * c.perDay ELSE c.rows

(* Mutant: the slots are rounded up and outgrow the day. *)
SlotMinutesRoundedUp(c) == (MinutesPerDay \div c.perDay) + 1

SlotMinutes(c) ==
  LET even == MinutesPerDay \div c.perDay IN IF even > 1 THEN even ELSE 1

(* The k-th event, from 0: a grid runs over the days, within a day over the
   slots, within a slot over the zones. *)
Minute(c, k) ==
  IF UsesGrid(c)
  THEN c.start + MinutesPerDay * (k \div (c.zones * c.perDay))
               + SlotMinutes(c) * ((k \div c.zones) % c.perDay)
  ELSE c.start + c.interval * k

(* Outside a grid the zone of every event is drawn at random. *)
Draws(c) ==
  IF UsesGrid(c)
  THEN {[k \in 1..ExpectedRows(c) |-> ((k - 1) % c.zones) + 1]}
  ELSE [1..ExpectedRows(c) -> 1..c.zones]

EventsOf(c, zoneOf) ==
  [k \in 1..ExpectedRows(c) |->
     [id |-> k, minute |-> Minute(c, k - 1), zone |-> zoneOf[k]]]

Event == [id : Nat \ {0}, minute : Nat, zone : Nat \ {0}]
=============================================================================
