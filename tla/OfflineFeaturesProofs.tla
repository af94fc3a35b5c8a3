------------------------ MODULE OfflineFeaturesProofs ------------------------
(***************************************************************************)
(* What holds of the schedule of the events, of the rows built from them   *)
(* and of the splits for every option, length of day, drawing of the zones *)
(* and number of rows.                                                     *)
(***************************************************************************)
EXTENDS OfflineFeatures, FiniteSetTheorems, TLAPS

-----------------------------------------------------------------------------
(* The split *)

(* Whatever the fractions ask for, Fitted leaves every split a row. *)
LEMMA FittedLeavesThree ==
  ASSUME NEW n \in Nat, n >= 3,
         NEW t \in Nat, t >= 1,
         NEW v \in Nat, v >= 1
  PROVE  /\ Fitted(n, t, v) \in [train : Nat, validation : Nat]
         /\ Fitted(n, t, v).train >= 1
         /\ Fitted(n, t, v).validation >= 1
         /\ Fitted(n, t, v).train + Fitted(n, t, v).validation < n
<1>1. AtLeastOne(n - 2) \in Nat /\ AtLeastOne(n - 2) >= 1 /\ AtLeastOne(n - 2) + 1 < n
  BY DEF AtLeastOne
<1>2. CASE t + v >= n
  <2>1. Fitted(n, t, v) = [train |-> AtLeastOne(n - 2), validation |-> 1]
    BY <1>2 DEF Fitted
  <2> QED  BY <2>1, <1>1
<1>3. CASE ~(t + v >= n)
  <2>1. Fitted(n, t, v) = [train |-> t, validation |-> v]
    BY <1>3 DEF Fitted
  <2> QED  BY <2>1, <1>3
<1> QED  BY <1>2, <1>3

(* For every number of rows from three on and every pair of fractions, the
   counts leave each split at least one row: no split is ever empty, whichever
   way the floating point product falls. *)
THEOREM NoSplitIsEmpty ==
  ASSUME NEW n \in Nat, n >= 3,
         NEW p \in [train : Int, validation : Int],
         NEW count \in SplitCounts(n, p)
  PROVE  /\ count \in [train : Nat, validation : Nat]
         /\ count.train >= 1
         /\ count.validation >= 1
         /\ count.train + count.validation < n
<1>1. ASSUME NEW percent \in Int, NEW k \in Truncated(n, percent)
      PROVE  AtLeastOne(k) \in Nat /\ AtLeastOne(k) >= 1
  <2>1. n * percent \in Int
    OBVIOUS
  <2>2. (n * percent) \div 100 \in Int
    BY <2>1
  <2>3. k \in Int
    BY <2>2 DEF Truncated
  <2> QED  BY <2>3 DEF AtLeastOne
<1>2. PICK t \in Truncated(n, p.train), v \in Truncated(n, p.validation) :
             count = Fitted(n, AtLeastOne(t), AtLeastOne(v))
  BY DEF SplitCounts
<1>3. AtLeastOne(t) \in Nat /\ AtLeastOne(t) >= 1
  BY <1>1
<1>4. AtLeastOne(v) \in Nat /\ AtLeastOne(v) >= 1
  BY <1>1
<1> QED  BY <1>2, <1>3, <1>4, FittedLeavesThree

-----------------------------------------------------------------------------
(* The schedule *)

LEMMA ProductMonotone ==
  ASSUME NEW a \in Nat, NEW b \in Nat, NEW c \in Nat, a <= b
  PROVE  c * a <= c * b
OBVIOUS

LEMMA ProductStrict ==
  ASSUME NEW a \in Nat, NEW b \in Nat, NEW c \in Nat \ {0}, a < b
  PROVE  c * a + c <= c * b
<1>1. c * (a + 1) <= c * b
  BY ProductMonotone
<1>2. c * (a + 1) = c * a + c
  OBVIOUS
<1> QED  BY <1>1, <1>2

(* Quotient and remainder. *)
LEMMA Division ==
  ASSUME NEW k \in Nat, NEW d \in Nat \ {0}
  PROVE  /\ k \div d \in Nat
         /\ k % d \in 0..(d - 1)
         /\ k = d * (k \div d) + (k % d)
<1>1. k \div d \in Nat
  OBVIOUS
<1>2. k % d \in 0..(d - 1)
  OBVIOUS
<1>3. k = d * (k \div d) + (k % d)
  OBVIOUS
<1> QED  BY <1>1, <1>2, <1>3

(* The quotient is the only one there is. *)
LEMMA OneQuotient ==
  ASSUME NEW k \in Nat, NEW w \in Nat \ {0}, NEW x \in Nat, NEW m \in Nat,
         w * x <= k, k < w * x + w, w * m <= k, k < w * m + w
  PROVE  x = m
<1> DEFINE a == w * x
           b == w * m
<1>1. a \in Nat /\ b \in Nat
  OBVIOUS
<1>2. a <= k /\ k < a + w /\ b <= k /\ k < b + w
  OBVIOUS
<1>3. x < m => a + w <= b
  BY ProductStrict
<1>4. m < x => b + w <= a
  BY ProductStrict
<1> HIDE DEF a, b
<1> QED  BY <1>1, <1>2, <1>3, <1>4

LEMMA QuotientMonotone ==
  ASSUME NEW j \in Nat, NEW k \in Nat, NEW d \in Nat \ {0}, j <= k
  PROVE  j \div d <= k \div d
<1> DEFINE a == j \div d
           b == k \div d
<1>1. a \in Nat /\ b \in Nat
  BY Division
<1>2. SUFFICES ASSUME b < a  PROVE FALSE
  BY <1>1
<1>3. d * b + d <= d * a
  BY <1>1, <1>2, ProductStrict
<1>4. k < d * b + d
  BY Division
<1>5. d * a <= j
  BY Division
<1>6. d * a \in Nat /\ d * b \in Nat
  BY <1>1
<1> QED  BY <1>3, <1>4, <1>5, <1>6

(* Dividing by a product is dividing twice. *)
LEMMA QuotientTwice ==
  ASSUME NEW k \in Nat, NEW z \in Nat \ {0}, NEW p \in Nat \ {0}
  PROVE  k \div (z * p) = (k \div z) \div p
<1> DEFINE q == k \div z
           m == q \div p
           r == z * (q % p) + (k % z)
<1>1. z * p \in Nat \ {0}
  OBVIOUS
<1>2. q \in Nat /\ m \in Nat /\ k % z \in 0..(z - 1) /\ q % p \in 0..(p - 1)
  BY Division
<1>3. k = z * q + (k % z)
  BY Division
<1>4. q = p * m + (q % p)
  BY <1>2, Division
<1>5. z * q = z * (p * m) + z * (q % p)
  BY <1>2, <1>4
<1>6. z * (p * m) = (z * p) * m
  BY <1>2
<1>7. k = (z * p) * m + r
  <2> DEFINE A == z * q
             B == z * (p * m)
             C == z * (q % p)
             D == (z * p) * m
             u == k % z
  <2>1. A \in Nat /\ B \in Nat /\ C \in Nat /\ D \in Nat /\ u \in Nat
    BY <1>2
  <2>2. k = A + u /\ A = B + C /\ B = D
    BY <1>3, <1>5, <1>6
  <2>3. r = C + u
    BY DEF r, C, u
  <2> HIDE DEF A, B, C, u, r
  <2>4. k = D + r
    BY <2>1, <2>2, <2>3
  <2> QED  BY <2>4
<1>8. z * (q % p) + z <= z * p
  BY <1>2, ProductStrict
<1>9. r \in Nat /\ r < z * p
  BY <1>2, <1>8
<1> DEFINE w == z * p
           x == k \div w
<1>10. w \in Nat \ {0} /\ x \in Nat
  BY <1>1, Division
<1>11. w * x <= k /\ k < w * x + w
  <2> HIDE DEF w
  <2> DEFINE a == w * x
             u == k % w
  <2>1. a \in Nat /\ u \in 0..(w - 1)
    BY <1>10, Division
  <2>2. k = a + u
    BY <1>10, Division
  <2> HIDE DEF a, u, x
  <2>3. a <= k /\ k < a + w
    BY <2>1, <2>2, <1>10
  <2> QED  BY <2>3 DEF a
<1>12. w * m <= k /\ k < w * m + w
  <2> DEFINE D == w * m
  <2>1. D \in Nat
    BY <1>2, <1>10
  <2>4. k = D + r
    BY <1>7
  <2> HIDE DEF D, r
  <2>2. r \in Nat /\ r < w
    BY <1>9
  <2>3. D <= k /\ k < D + w
    BY <2>1, <2>2, <2>4, <1>10
  <2> QED  BY <2>3 DEF D
<1> HIDE DEF w, x, m
<1>13. m \in Nat
  BY <1>2
<1>14. x = m
  BY <1>10, <1>11, <1>12, <1>13, OneQuotient
<1> QED  BY <1>14 DEF x, w, m

(* The parts of a day that SlotMinutes cuts it into are not empty, and those
   of one day fit into it. *)
LEMMA SlotsFitTheDay ==
  ASSUME NEW c, c.perDay \in 1..MinutesPerDay
  PROVE  /\ SlotMinutes(c) \in Nat \ {0}
         /\ SlotMinutes(c) * c.perDay <= MinutesPerDay
<1> DEFINE D == MinutesPerDay
           p == c.perDay
           even == D \div p
<1>1. D \in Nat \ {0}
  BY ClockAssumption DEF MinutesPerDay
<1>2. p \in Nat \ {0} /\ p <= D
  BY <1>1
<1>3. even \in Nat /\ p * even <= D
  <2> HIDE DEF D, p
  <2> DEFINE a == p * even
             u == D % p
  <2>0. even \in Nat /\ u \in 0..(p - 1)
    BY <1>1, <1>2, Division
  <2>1. a \in Nat /\ u \in 0..(p - 1) /\ even \in Nat
    <3> HIDE DEF even
    <3> QED  BY <2>0, <1>2
  <2>2. D = a + u
    BY <1>1, <1>2, Division
  <2> HIDE DEF a, u, even
  <2>3. a <= D
    BY <2>1, <2>2, <1>1, <1>2
  <2> QED  BY <2>1, <2>3 DEF a
<1>4. SlotMinutes(c) = IF even > 1 THEN even ELSE 1
  BY DEF SlotMinutes
<1> HIDE DEF D, p, even
<1>5. CASE even > 1
  <2>1. SlotMinutes(c) = even
    BY <1>4, <1>5
  <2>2. even * p = p * even
    BY <1>2, <1>3
  <2> QED  BY <2>1, <2>2, <1>3, <1>5 DEF D, p
<1>6. CASE ~(even > 1)
  <2>1. SlotMinutes(c) = 1
    BY <1>4, <1>6
  <2> QED  BY <2>1, <1>2 DEF D, p
<1> QED  BY <1>5, <1>6

(* The minute of slot q of the grid, slots counted from the first day on. *)
SlotStart(c, q) ==
  c.start + MinutesPerDay * (q \div c.perDay) + SlotMinutes(c) * (q % c.perDay)

(* A later slot starts later, on whichever day. *)
LEMMA SlotsInOrder ==
  ASSUME NEW c, c.perDay \in 1..MinutesPerDay, c.start \in Nat,
         NEW j \in Nat, NEW k \in Nat, j < k
  PROVE  SlotStart(c, j) < SlotStart(c, k)
<1> DEFINE D == MinutesPerDay
           p == c.perDay
           s == SlotMinutes(c)
           d == j \div p
           e == k \div p
           m == j % p
           n == k % p
<1>1. D \in Nat \ {0} /\ p \in Nat \ {0}
  BY ClockAssumption DEF MinutesPerDay
<1>2. s \in Nat \ {0} /\ s * p <= D
  BY SlotsFitTheDay
<1>3. SlotStart(c, j) = c.start + D * d + s * m /\ SlotStart(c, k) = c.start + D * e + s * n
  BY DEF SlotStart
<1> HIDE DEF D, p, s
<1>4. d \in Nat /\ e \in Nat /\ m \in 0..(p - 1) /\ n \in 0..(p - 1)
  BY <1>1, Division
<1>5. d <= e
  BY <1>1, QuotientMonotone
<1>6. j = p * d + m /\ k = p * e + n
  BY <1>1, Division
<1> HIDE DEF d, e, m, n
<1>7. D * d \in Nat /\ D * e \in Nat /\ s * m \in Nat /\ s * n \in Nat
  BY <1>1, <1>2, <1>4
<1>8. CASE d = e
  <2>1. p * d \in Nat /\ p * d = p * e
    BY <1>1, <1>4, <1>8
  <2> DEFINE a == p * d
  <2>2. j = a + m /\ k = a + n /\ a \in Nat
    BY <1>6, <2>1
  <2> HIDE DEF a
  <2>3. m < n
    BY <2>2, <1>4
  <2>4. s * m + s <= s * n
    BY <2>3, <1>2, <1>4, ProductStrict
  <2> DEFINE x == D * d
             y == s * m
             z == s * n
  <2>5. SlotStart(c, j) = c.start + x + y /\ SlotStart(c, k) = c.start + x + z
    BY <1>3, <1>8
  <2>6. x \in Nat /\ y \in Nat /\ z \in Nat /\ y + s <= z
    BY <1>7, <2>4
  <2> HIDE DEF x, y, z
  <2> QED  BY <2>5, <2>6, <1>2
<1>9. CASE d < e
  <2>1. D * d + D <= D * e
    BY <1>1, <1>4, <1>9, ProductStrict
  <2>2. s * m + s <= s * p
    BY <1>1, <1>2, <1>4, ProductStrict
  <2> DEFINE x == D * d
             y == D * e
             z == s * m
             w == s * n
             v == s * p
  <2>3. x \in Nat /\ y \in Nat /\ z \in Nat /\ w \in Nat /\ v \in Nat
    BY <1>1, <1>2, <1>7
  <2>4. x + D <= y /\ z + s <= v /\ v <= D
    BY <2>1, <2>2, <1>2
  <2>5. SlotStart(c, j) = c.start + x + z /\ SlotStart(c, k) = c.start + y + w
    BY <1>3
  <2> HIDE DEF x, y, z, w, v
  <2> QED  BY <2>3, <2>4, <2>5, <1>1, <1>2
<1> QED  BY <1>4, <1>5, <1>8, <1>9

GridOptions(c) ==
  /\ UsesGrid(c)
  /\ c.zones \in Nat \ {0}
  /\ c.perDay \in 1..MinutesPerDay
  /\ c.start \in Nat

(* Valid options that ask for a grid are numbers in their ranges. *)
LEMMA ValidGrid ==
  ASSUME NEW c \in Configs, Valid(c), UsesGrid(c)
  PROVE  GridOptions(c)
BY OptionsAssumption DEF Valid, UsesGrid, GridOptions

(* The events of a grid in the order of their numbers. *)
LEMMA GridInOrder ==
  ASSUME NEW c, GridOptions(c), NEW j \in Nat, NEW k \in Nat, j < k
  PROVE  /\ Minute(c, j) \in Nat /\ Minute(c, k) \in Nat
         /\ Minute(c, j) <= Minute(c, k)
         /\ j % c.zones = k % c.zones => Minute(c, j) < Minute(c, k)
<1> DEFINE z == c.zones
           p == c.perDay
           a == j \div z
           b == k \div z
<1>1. z \in Nat \ {0} /\ p \in Nat \ {0} /\ p \in 1..MinutesPerDay /\ c.start \in Nat
  BY DEF GridOptions
<1>2. ASSUME NEW i \in Nat
      PROVE  Minute(c, i) = SlotStart(c, i \div z)
  <2>1. i \div (z * p) = (i \div z) \div p
    BY <1>1, QuotientTwice
  <2> QED  BY <2>1 DEF Minute, SlotStart, GridOptions
<1>3. ASSUME NEW q \in Nat
      PROVE  SlotStart(c, q) \in Nat
  <2>1. q \div p \in Nat /\ q % p \in Nat
    <3> HIDE DEF p
    <3>1. q \div p \in Nat /\ q % p \in 0..(p - 1)
      BY <1>1, Division
    <3> QED  BY <3>1, <1>1
  <2>2. MinutesPerDay \in Nat /\ SlotMinutes(c) \in Nat
    BY <1>1, SlotsFitTheDay, ClockAssumption DEF MinutesPerDay
  <2>3. MinutesPerDay * (q \div p) \in Nat /\ SlotMinutes(c) * (q % p) \in Nat
    BY <2>1, <2>2
  <2> QED  BY <2>3, <1>1 DEF SlotStart
<1>4. a \in Nat /\ b \in Nat /\ j % z \in Nat /\ k % z \in Nat
  <2> HIDE DEF z
  <2>1. a \in Nat /\ b \in Nat /\ j % z \in 0..(z - 1) /\ k % z \in 0..(z - 1)
    BY <1>1, Division
  <2> QED  BY <2>1, <1>1
<1>5. a <= b
  BY <1>1, QuotientMonotone
<1>6. j = z * a + (j % z) /\ k = z * b + (k % z)
  BY <1>1, Division
<1> HIDE DEF a, b
<1>7. CASE a < b
  <2>1. SlotStart(c, a) < SlotStart(c, b)
    BY <1>1, <1>4, <1>7, SlotsInOrder
  <2> QED  BY <2>1, <1>2, <1>3, <1>4 DEF a, b
<1>8. CASE a = b
  <2>1. j % z # k % z
    BY <1>6, <1>8
  <2> QED  BY <2>1, <1>2, <1>3, <1>4, <1>8 DEF a, b
<1> QED  BY <1>4, <1>5, <1>7, <1>8

(* The file lists the events of the options, in whatever order. *)
FromOptions(e, c) ==
  /\ e.id \in Nat \ {0}
  /\ e.minute = Minute(c, e.id - 1)
  /\ e.zone = ((e.id - 1) % c.zones) + 1

GridInv ==
  /\ config \in Configs
  /\ csv # None /\ UsesGrid(config) =>
       Valid(config) /\ \A a \in DOMAIN csv : FromOptions(csv[a], config)

LEMMA GridInvInit == OffInit => GridInv
BY DEF OffInit, GridInv

LEMMA EventsFromOptions ==
  ASSUME NEW c, GridOptions(c), NEW zoneOf \in Draws(c), NEW k \in 1..ExpectedRows(c)
  PROVE  FromOptions(EventsOf(c, zoneOf)[k], c)
<1>1. UsesGrid(c)
  BY DEF GridOptions
<1>2. zoneOf = [i \in 1..ExpectedRows(c) |-> ((i - 1) % c.zones) + 1]
  BY <1>1 DEF Draws
<1>3. zoneOf[k] = ((k - 1) % c.zones) + 1
  BY <1>2
<1>4. EventsOf(c, zoneOf)[k] = [id |-> k, minute |-> Minute(c, k - 1), zone |-> zoneOf[k]]
  BY DEF EventsOf
<1> QED  BY <1>3, <1>4 DEF FromOptions

LEMMA GridInvNext == GridInv /\ [OffNext]_offVars => GridInv'
<1> SUFFICES ASSUME GridInv, [OffNext]_offVars  PROVE GridInv'
  OBVIOUS
<1>1. CASE UNCHANGED <<config, csv>>
  BY <1>1 DEF GridInv
<1>2. CASE Generate
  <2>1. config' = config /\ Valid(config)
    BY <1>2 DEF Generate
  <2>2. PICK zoneOf \in Draws(config) :
          csv' \in {EventsOf(config, zoneOf), Reverse(EventsOf(config, zoneOf))}
    BY <1>2 DEF Generate
  <2>3. SUFFICES ASSUME UsesGrid(config), NEW a \in DOMAIN csv'
                 PROVE  FromOptions(csv'[a], config)
    BY <2>1 DEF GridInv
  <2>4. GridOptions(config)
    BY <2>1, <2>3, ValidGrid DEF GridInv
  <2> DEFINE n == ExpectedRows(config)
             s == EventsOf(config, zoneOf)
  <2>5. n \in Nat
    <3>1. config.days \in Nat /\ config.zones \in Nat /\ config.perDay \in Nat
      BY <2>1, <2>3, <2>4, OptionsAssumption DEF GridInv, Valid, UsesGrid, GridOptions
    <3>2. config.zones * config.days * config.perDay \in Nat
      BY <3>1
    <3> QED  BY <3>2, <2>3 DEF ExpectedRows
  <2>6. DOMAIN s = 1..n
    BY DEF EventsOf
  <2>7. Len(s) = n
    <3>1. s \in Seq({s[k] : k \in 1..n})
      BY <2>5, <2>6 DEF EventsOf
    <3> QED  BY <2>5, <2>6, <3>1
  <2>8. CASE csv' = s
    BY <2>4, <2>6, <2>8, EventsFromOptions
  <2>9. CASE csv' = Reverse(s)
    <3>1. a \in 1..n /\ csv'[a] = s[n - a + 1]
      BY <2>7, <2>9 DEF Reverse
    <3>2. n - a + 1 \in 1..n
      BY <3>1, <2>5
    <3> QED  BY <2>4, <3>1, <3>2, EventsFromOptions
  <2> QED  BY <2>2, <2>8, <2>9
<1>3. CASE GenerateRefused
  BY <1>3, <1>1 DEF GenerateRefused, Refuse
<1>4. CASE Build
  BY <1>4, <1>1 DEF Build
<1>5. CASE SplitAndSave
  BY <1>5, <1>1 DEF SplitAndSave
<1>6. CASE SplitRefused
  BY <1>6, <1>1 DEF SplitRefused, Refuse
<1>7. CASE UNCHANGED offVars
  BY <1>7, <1>1 DEF offVars
<1> QED  BY <1>2, <1>3, <1>4, <1>5, <1>6, <1>7 DEF OffNext

LEMMA GridInvChronological == GridInv => ScheduleIsChronological
<1> SUFFICES ASSUME GridInv, csv # None, UsesGrid(config),
                    NEW a \in DOMAIN csv, NEW b \in DOMAIN csv, csv[a].id < csv[b].id
             PROVE  /\ csv[a].minute <= csv[b].minute
                    /\ csv[a].zone = csv[b].zone => csv[a].minute < csv[b].minute
  BY DEF ScheduleIsChronological
<1>1. GridOptions(config)
  BY ValidGrid DEF GridInv
<1>2. FromOptions(csv[a], config) /\ FromOptions(csv[b], config)
  BY DEF GridInv
<1> DEFINE j == csv[a].id - 1
           k == csv[b].id - 1
<1>3. j \in Nat /\ k \in Nat /\ j < k
  BY <1>2 DEF FromOptions
<1>4. /\ Minute(config, j) <= Minute(config, k)
      /\ j % config.zones = k % config.zones => Minute(config, j) < Minute(config, k)
  BY <1>1, <1>3, GridInOrder
<1>5. csv[a].minute = Minute(config, j) /\ csv[b].minute = Minute(config, k)
  BY <1>2 DEF FromOptions
<1>6. csv[a].zone = csv[b].zone => j % config.zones = k % config.zones
  <2>1. csv[a].zone = (j % config.zones) + 1 /\ csv[b].zone = (k % config.zones) + 1
    BY <1>2 DEF FromOptions
  <2>2. j % config.zones \in Nat /\ k % config.zones \in Nat
    BY <1>1, <1>3, Division DEF GridOptions
  <2> QED  BY <2>1, <2>2
<1> QED  BY <1>4, <1>5, <1>6

(* The events of a grid follow one another in time, whatever the number of
   zones, days and slots a day and however long a day is: slots neither meet
   within a day nor reach into the next. *)
THEOREM GridIsChronological == OffSpec => []ScheduleIsChronological
<1>1. OffSpec => []GridInv
  BY GridInvInit, GridInvNext, PTL DEF OffSpec
<1> QED  BY <1>1, GridInvChronological, PTL

-----------------------------------------------------------------------------
(* Counting what comes before *)

Below(R, S, i) == {j \in S : <<j, i>> \in R}

Ordered(R, S) ==
  /\ \A i \in S : <<i, i>> \notin R
  /\ \A i, j, k \in S : <<i, j>> \in R /\ <<j, k>> \in R => <<i, k>> \in R
  /\ \A i, j \in S : i # j => <<i, j>> \in R \/ <<j, i>> \in R

(* How many members come before it places each member of a finite ordered
   set. *)
LEMMA Ranking ==
  ASSUME NEW S, IsFiniteSet(S), NEW R, Ordered(R, S)
  PROVE  /\ \A i \in S : Cardinality(Below(R, S, i)) \in 0..(Cardinality(S) - 1)
         /\ \A i, j \in S :
              <<i, j>> \in R <=> Cardinality(Below(R, S, i)) < Cardinality(Below(R, S, j))
<1> DEFINE n == Cardinality(S)
<1>1. n \in Nat
  BY FS_CardinalityType
<1>2. ASSUME NEW i \in S
      PROVE  /\ IsFiniteSet(Below(R, S, i))
             /\ Cardinality(Below(R, S, i)) \in Nat
             /\ Cardinality(Below(R, S, i)) < n
  <2>1. Below(R, S, i) \in SUBSET S /\ Below(R, S, i) # S
    BY DEF Below, Ordered
  <2>2. IsFiniteSet(Below(R, S, i))
    BY <2>1, FS_Subset
  <2>3. Cardinality(Below(R, S, i)) \in Nat
    BY <2>2, FS_CardinalityType
  <2>4. Cardinality(Below(R, S, i)) <= n /\ Cardinality(Below(R, S, i)) # n
    BY <2>1, FS_Subset
  <2> QED  BY <1>1, <2>2, <2>3, <2>4
<1>3. ASSUME NEW i \in S, NEW j \in S, <<i, j>> \in R
      PROVE  Cardinality(Below(R, S, i)) < Cardinality(Below(R, S, j))
  <2>1. Below(R, S, i) \in SUBSET Below(R, S, j) /\ Below(R, S, i) # Below(R, S, j)
    BY <1>3 DEF Below, Ordered
  <2>2. Cardinality(Below(R, S, i)) <= Cardinality(Below(R, S, j))
        /\ Cardinality(Below(R, S, i)) # Cardinality(Below(R, S, j))
    BY <2>1, <1>2, FS_Subset
  <2> QED  BY <1>2, <2>2
<1>4. ASSUME NEW i \in S, NEW j \in S, Cardinality(Below(R, S, i)) < Cardinality(Below(R, S, j))
      PROVE  <<i, j>> \in R
  <2>1. Cardinality(Below(R, S, i)) \in Nat /\ Cardinality(Below(R, S, j)) \in Nat
    BY <1>2
  <2>2. i # j
    BY <2>1, <1>4
  <2>3. <<j, i>> \notin R
    BY <2>1, <1>3, <1>4
  <2> QED  BY <2>2, <2>3 DEF Ordered
<1>9. \A i \in S : Cardinality(Below(R, S, i)) \in 0..(n - 1)
  BY <1>1, <1>2
<1> QED  BY <1>3, <1>4, <1>9

(* Every place is taken. *)
LEMMA EveryPlaceTaken ==
  ASSUME NEW S, IsFiniteSet(S), NEW R, Ordered(R, S),
         NEW m \in Nat, m < Cardinality(S)
  PROVE  \E i \in S : Cardinality(Below(R, S, i)) = m
<1> DEFINE n == Cardinality(S)
           f == [i \in S |-> Cardinality(Below(R, S, i))]
<1>1. n \in Nat
  BY FS_CardinalityType
<1>2. \A i \in S : Cardinality(Below(R, S, i)) \in 0..(n - 1)
  BY Ranking
<1>3. ASSUME NEW i \in S, NEW j \in S,
             Cardinality(Below(R, S, i)) = Cardinality(Below(R, S, j))
      PROVE  i = j
  <2>1. Cardinality(Below(R, S, i)) \in 0..(n - 1) /\ Cardinality(Below(R, S, j)) \in 0..(n - 1)
    BY <1>2
  <2>2. /\ <<i, j>> \in R <=> Cardinality(Below(R, S, i)) < Cardinality(Below(R, S, j))
        /\ <<j, i>> \in R <=> Cardinality(Below(R, S, j)) < Cardinality(Below(R, S, i))
    BY Ranking
  <2>3. <<i, j>> \notin R /\ <<j, i>> \notin R
    BY <2>1, <2>2, <1>3
  <2> QED  BY <2>3 DEF Ordered
<1>5. f \in Injection(S, 0..(n - 1))
  <2>1. f \in [S -> 0..(n - 1)]
    BY <1>2
  <2>2. \A i, j \in S : f[i] = f[j] => i = j
    BY <1>3
  <2> HIDE DEF f
  <2> QED  BY <2>1, <2>2 DEF Injection, IsInjective
<1>6. IsFiniteSet(0..(n - 1)) /\ Cardinality(0..(n - 1)) = n
  <2>1. 0 \in Int /\ n - 1 \in Int
    BY <1>1
  <2>2. IsFiniteSet(0..(n - 1))
        /\ Cardinality(0..(n - 1)) = IF 0 > n - 1 THEN 0 ELSE n - 1 - 0 + 1
    <3> HIDE DEF n
    <3> QED  BY <2>1, FS_Interval
  <2> HIDE DEF n
  <2> QED  BY <2>2, <1>1
<1>7. f \in Surjection(S, 0..(n - 1))
  <2> HIDE DEF f
  <2> QED  BY <1>5, <1>6, FS_Injection
<1>0. m \in 0..(n - 1)
  BY <1>1
<1>8. \E i \in S : f[i] = m
  <2> HIDE DEF f
  <2> QED  BY <1>0, <1>7 DEF Surjection
<1> QED  BY <1>8

(* The same of a finite set of numbers in their order: Pos counts the smaller
   members. *)
Pos(S, i) == Cardinality({j \in S : j < i})

LEMMA Positions ==
  ASSUME NEW S \in SUBSET Nat, IsFiniteSet(S)
  PROVE  /\ \A i \in S : Pos(S, i) \in 0..(Cardinality(S) - 1)
         /\ \A i, j \in S : i < j <=> Pos(S, i) < Pos(S, j)
         /\ \A i, j \in S : Pos(S, i) = Pos(S, j) => i = j
         /\ \A m \in 0..(Cardinality(S) - 1) : \E i \in S : Pos(S, i) = m
<1> DEFINE R == {e \in S \X S : e[1] < e[2]}
<1>1. \A i, j \in S : <<i, j>> \in R <=> i < j
  OBVIOUS
<1>2. Ordered(R, S)
  <2> HIDE DEF R
  <2>1. \A i, j, k \in S : i < j /\ j < k => i < k
    OBVIOUS
  <2>2. \A i \in S : ~(i < i)
    OBVIOUS
  <2>3. \A i, j \in S : i # j => i < j \/ j < i
    OBVIOUS
  <2> QED  BY <1>1, <2>1, <2>2, <2>3 DEF Ordered
<1>3. \A i \in S : Below(R, S, i) = {j \in S : j < i}
  BY <1>1 DEF Below
<1>4. \A i \in S : Cardinality(Below(R, S, i)) = Pos(S, i)
  BY <1>3 DEF Pos
<1> HIDE DEF R
<1>5. \A i \in S : Pos(S, i) \in 0..(Cardinality(S) - 1)
  BY <1>2, <1>4, Ranking
<1>6. \A i, j \in S : i < j <=> Pos(S, i) < Pos(S, j)
  <2> SUFFICES ASSUME NEW i \in S, NEW j \in S  PROVE i < j <=> Pos(S, i) < Pos(S, j)
    OBVIOUS
  <2>1. <<i, j>> \in R <=> Cardinality(Below(R, S, i)) < Cardinality(Below(R, S, j))
    BY <1>2, Ranking
  <2>2. Cardinality(Below(R, S, i)) = Pos(S, i) /\ Cardinality(Below(R, S, j)) = Pos(S, j)
    BY <1>4
  <2>3. <<i, j>> \in R <=> Pos(S, i) < Pos(S, j)
    BY <2>1, <2>2
  <2> QED  BY <2>3, <1>1
<1>7. \A m \in 0..(Cardinality(S) - 1) : \E i \in S : Pos(S, i) = m
  <2> SUFFICES ASSUME NEW m \in 0..(Cardinality(S) - 1)  PROVE \E i \in S : Pos(S, i) = m
    OBVIOUS
  <2>0. m \in Nat /\ m < Cardinality(S)
    BY FS_CardinalityType
  <2>1. \E i \in S : Cardinality(Below(R, S, i)) = m
    <3>1. PICK T : T = S
      OBVIOUS
    <3>2. IsFiniteSet(T) /\ Ordered(R, T) /\ m < Cardinality(T)
      BY <3>1, <2>0, <1>2
    <3>3. \E i \in T : Cardinality(Below(R, T, i)) = m
      BY <3>2, <2>0, EveryPlaceTaken
    <3> QED  BY <3>1, <3>3
  <2>2. PICK i \in S : Cardinality(Below(R, S, i)) = m
    BY <2>1
  <2>3. Pos(S, i) = m
    BY <2>2, <1>4
  <2> QED  BY <2>3
<1>8. \A i, j \in S : Pos(S, i) = Pos(S, j) => i = j
  <2> SUFFICES ASSUME NEW i \in S, NEW j \in S, Pos(S, i) = Pos(S, j)  PROVE i = j
    OBVIOUS
  <2>1. ~(Pos(S, i) < Pos(S, j)) /\ ~(Pos(S, j) < Pos(S, i))
    <3>1. \A m, k \in 0..(Cardinality(S) - 1) : m = k => ~(m < k) /\ ~(k < m)
      OBVIOUS
    <3> QED  BY <3>1, <1>5
  <2>2. ~(i < j) /\ ~(j < i)
    BY <2>1, <1>6
  <2> QED  BY <2>2
<1> QED  BY <1>5, <1>6, <1>7, <1>8

(* Between two members stand as many as their places are apart. *)
LEMMA Between ==
  ASSUME NEW S \in SUBSET Nat, IsFiniteSet(S), NEW i \in S, NEW j \in S, j < i
  PROVE  Cardinality({m \in {k \in S : k < i} : m > j}) = Pos(S, i) - Pos(S, j) - 1
<1> DEFINE low == {k \in S : k < j}
           mid == {m \in {k \in S : k < i} : m > j}
           all == {k \in S : k < i}
<1>1. low \in SUBSET S /\ mid \in SUBSET S
  OBVIOUS
<1>2. IsFiniteSet(low) /\ IsFiniteSet(mid)
  BY <1>1, FS_Subset
<1>3. all = (low \cup {j}) \cup mid
  <2>1. \A k : k \in all <=> k \in (low \cup {j}) \cup mid
    <3> SUFFICES ASSUME NEW k  PROVE k \in all <=> k \in (low \cup {j}) \cup mid
      OBVIOUS
    <3>1. CASE k \in S
      <4>1. k \in Nat /\ j \in Nat /\ i \in Nat
        BY <3>1
      <4> QED  BY <3>1, <4>1
    <3>2. CASE k \notin S
      BY <3>2
    <3> QED  BY <3>1, <3>2
  <2> HIDE DEF low, mid, all
  <2> QED  BY <2>1
<1>4. j \notin low /\ (low \cup {j}) \cap mid = {}
  <2>1. \A k : ~(k \in low \cup {j} /\ k \in mid)
    <3> SUFFICES ASSUME NEW k \in S, k \in low \cup {j}, k \in mid  PROVE FALSE
      OBVIOUS
    <3>1. k \in Nat /\ j \in Nat
      OBVIOUS
    <3> QED  BY <3>1
  <2>2. j \notin low
    <3>1. j \in Nat
      OBVIOUS
    <3> QED  BY <3>1
  <2> HIDE DEF low, mid
  <2> QED  BY <2>1, <2>2
<1>5. Cardinality(low) \in Nat /\ Cardinality(mid) \in Nat
  BY <1>2, FS_CardinalityType
<1>6. Pos(S, i) = Cardinality(all) /\ Pos(S, j) = Cardinality(low)
  BY DEF Pos
<1> HIDE DEF low, mid, all
<1>7. IsFiniteSet(low \cup {j}) /\ Cardinality(low \cup {j}) = Cardinality(low) + 1
  BY <1>2, <1>4, FS_AddElement
<1>8. Cardinality(all) = Cardinality(low \cup {j}) + Cardinality(mid)
                           - Cardinality((low \cup {j}) \cap mid)
  BY <1>2, <1>3, <1>7, FS_Union
<1>9. Cardinality((low \cup {j}) \cap mid) = 0
  BY <1>4, FS_EmptySet
<1> QED  BY <1>5, <1>6, <1>7, <1>8, <1>9 DEF mid

-----------------------------------------------------------------------------
(* Ranks within a group *)

Group(key, i) == {j \in DOMAIN key : key[j] = key[i]}
Prior(key, i) == {j \in 1..(i - 1) : key[j] = key[i]}

LEMMA GroupFacts ==
  ASSUME NEW n \in Nat, NEW key, DOMAIN key = 1..n, NEW i \in 1..n
  PROVE  /\ Group(key, i) \in SUBSET Nat
         /\ IsFiniteSet(Group(key, i))
         /\ i \in Group(key, i)
         /\ Prior(key, i) = {j \in Group(key, i) : j < i}
         /\ Rank(key, i) = Pos(Group(key, i), i) + 1
<1> DEFINE G == Group(key, i)
<1>1. G \in SUBSET (1..n) /\ i \in G
  BY DEF Group
<1>2. IsFiniteSet(1..n)
  BY FS_Interval
<1>3. IsFiniteSet(G)
  BY <1>1, <1>2, FS_Subset
<1>4. Prior(key, i) = {j \in G : j < i}
  <2>1. \A j : j \in 1..(i - 1) /\ key[j] = key[i] <=> j \in 1..n /\ key[j] = key[i] /\ j < i
    OBVIOUS
  <2> QED  BY <2>1 DEF Prior, Group
<1>5. {j \in 1..i : key[j] = key[i]} = Prior(key, i) \cup {i}
  <2>1. \A j : j \in 1..i /\ key[j] = key[i] <=> (j \in 1..(i - 1) /\ key[j] = key[i]) \/ j = i
    OBVIOUS
  <2> QED  BY <2>1 DEF Prior
<1>6. i \notin Prior(key, i)
  BY DEF Prior
<1>7. IsFiniteSet(Prior(key, i))
  BY <1>3, <1>4, FS_Subset
<1>8. Rank(key, i) = Cardinality(Prior(key, i)) + 1
  BY <1>5, <1>6, <1>7, FS_AddElement DEF Rank
<1>9. Rank(key, i) = Pos(G, i) + 1
  BY <1>8, <1>4 DEF Pos
<1> QED  BY <1>1, <1>3, <1>4, <1>9

(* Rows of a group are ranked in their order, from 1 on, with no gaps. *)
LEMMA RankFacts ==
  ASSUME NEW n \in Nat, NEW key, DOMAIN key = 1..n, NEW i \in 1..n
  PROVE  /\ Rank(key, i) \in Nat /\ Rank(key, i) >= 1
         /\ \A j \in 1..n : key[j] = key[i] =>
              /\ i < j <=> Rank(key, i) < Rank(key, j)
              /\ Rank(key, i) = Rank(key, j) => i = j
         /\ \A j \in 1..(i - 1) : key[j] = key[i] =>
              Cardinality({m \in Prior(key, i) : m > j}) = Rank(key, i) - Rank(key, j) - 1
<1> DEFINE G == Group(key, i)
<1>1. G \in SUBSET Nat /\ IsFiniteSet(G) /\ i \in G
  BY GroupFacts
<1>2. \A j \in G : Pos(G, j) \in 0..(Cardinality(G) - 1)
  BY <1>1, Positions
<1>3. Cardinality(G) \in Nat
  BY <1>1, FS_CardinalityType
<1>4. Rank(key, i) = Pos(G, i) + 1
  BY GroupFacts
<1>5. \A j \in 1..n : key[j] = key[i] => j \in G /\ Rank(key, j) = Pos(G, j) + 1
  <2> SUFFICES ASSUME NEW j \in 1..n, key[j] = key[i]
               PROVE  j \in G /\ Rank(key, j) = Pos(G, j) + 1
    OBVIOUS
  <2>1. Group(key, j) = G
    BY DEF Group
  <2>2. Rank(key, j) = Pos(Group(key, j), j) + 1 /\ j \in Group(key, j)
    BY GroupFacts
  <2> QED  BY <2>1, <2>2
<1>6. ASSUME NEW j \in 1..n, key[j] = key[i]
      PROVE  /\ i < j <=> Rank(key, i) < Rank(key, j)
             /\ Rank(key, i) = Rank(key, j) => i = j
  <2>1. j \in G /\ Rank(key, j) = Pos(G, j) + 1
    BY <1>5, <1>6
  <2>2. Pos(G, i) \in Nat /\ Pos(G, j) \in Nat
    BY <1>1, <1>2, <1>3, <2>1
  <2>3. i < j <=> Pos(G, i) < Pos(G, j)
    BY <1>1, <2>1, Positions
  <2>4. Pos(G, i) = Pos(G, j) => i = j
    BY <1>1, <2>1, Positions
  <2> HIDE DEF G
  <2> QED  BY <1>4, <2>1, <2>2, <2>3, <2>4
<1>7. ASSUME NEW j \in 1..(i - 1), key[j] = key[i]
      PROVE  Cardinality({m \in Prior(key, i) : m > j}) = Rank(key, i) - Rank(key, j) - 1
  <2>0. j \in 1..n /\ j < i
    OBVIOUS
  <2>1. j \in G /\ Rank(key, j) = Pos(G, j) + 1
    BY <1>5, <1>7, <2>0
  <2>2. Pos(G, i) \in Nat /\ Pos(G, j) \in Nat
    BY <1>1, <1>2, <1>3, <2>1
  <2>3. Cardinality({m \in {k \in G : k < i} : m > j}) = Pos(G, i) - Pos(G, j) - 1
    BY <1>1, <2>0, <2>1, Between
  <2>4. Prior(key, i) = {k \in G : k < i}
    BY GroupFacts
  <2> HIDE DEF G
  <2>5. Cardinality({m \in Prior(key, i) : m > j}) = Pos(G, i) - Pos(G, j) - 1
    BY <2>3, <2>4
  <2> QED  BY <1>4, <2>1, <2>2, <2>5
<1>8. Pos(G, i) \in Nat
  BY <1>1, <1>2, <1>3
<1> HIDE DEF G
<1>9. Rank(key, i) \in Nat /\ Rank(key, i) >= 1
  BY <1>4, <1>8
<1> QED  BY <1>6, <1>7, <1>9

LEMMA RankTaken ==
  ASSUME NEW n \in Nat, NEW key, DOMAIN key = 1..n, NEW i \in 1..n,
         NEW m \in Nat, m >= 1, m <= Rank(key, i)
  PROVE  \E j \in 1..n : key[j] = key[i] /\ Rank(key, j) = m
<1> DEFINE G == Group(key, i)
<1>1. G \in SUBSET Nat /\ IsFiniteSet(G) /\ i \in G /\ Rank(key, i) = Pos(G, i) + 1
  BY GroupFacts
<1>2. Pos(G, i) \in 0..(Cardinality(G) - 1)
  BY <1>1, Positions
<1>3. Cardinality(G) \in Nat
  BY <1>1, FS_CardinalityType
<1>4. m - 1 \in 0..(Cardinality(G) - 1)
  <2> HIDE DEF G
  <2> QED  BY <1>1, <1>2, <1>3
<1>5. PICK j \in G : Pos(G, j) = m - 1
  <2>1. \A x \in 0..(Cardinality(G) - 1) : \E j \in G : Pos(G, j) = x
    BY <1>1, Positions
  <2> HIDE DEF G
  <2> QED  BY <1>4, <2>1
<1>6. j \in 1..n /\ key[j] = key[i] /\ Group(key, j) = G
  BY <1>5 DEF Group
<1>7. Rank(key, j) = Pos(G, j) + 1
  BY <1>6, GroupFacts
<1> QED  BY <1>5, <1>6, <1>7

(* A shift finds the row that many ranks away, or there is none. *)
LEMMA ShiftFinds ==
  ASSUME NEW n \in Nat, NEW key, DOMAIN key = 1..n, NEW i \in 1..n, NEW k \in Int,
         NEW j \in 1..n, key[j] = key[i], Rank(key, j) = Rank(key, i) - k
  PROVE  Shift(key, k, i) = j
<1> DEFINE there == {x \in DOMAIN key : key[x] = key[i] /\ Rank(key, x) = Rank(key, i) - k}
<1>1. j \in there
  OBVIOUS
<1>2. \A x \in there : x = j
  <2> SUFFICES ASSUME NEW x \in there  PROVE x = j
    OBVIOUS
  <2>1. x \in 1..n /\ key[x] = key[j] /\ Rank(key, j) = Rank(key, x)
    OBVIOUS
  <2> QED  BY <2>1, RankFacts
<1>3. Shift(key, k, i) = IF there = {} THEN NaN ELSE CHOOSE x \in there : TRUE
  BY DEF Shift
<1> HIDE DEF there
<1>4. Shift(key, k, i) \in there
  BY <1>1, <1>3
<1> QED  BY <1>2, <1>4

LEMMA ShiftFacts ==
  ASSUME NEW n \in Nat, NEW key, DOMAIN key = 1..n, NEW i \in 1..n, NEW k \in Int,
         Shift(key, k, i) # NaN
  PROVE  /\ Shift(key, k, i) \in 1..n
         /\ key[Shift(key, k, i)] = key[i]
         /\ Rank(key, Shift(key, k, i)) = Rank(key, i) - k
<1> DEFINE there == {x \in DOMAIN key : key[x] = key[i] /\ Rank(key, x) = Rank(key, i) - k}
<1>1. Shift(key, k, i) = IF there = {} THEN NaN ELSE CHOOSE x \in there : TRUE
  BY DEF Shift
<1>2. Shift(key, k, i) \in there
  <2> HIDE DEF there
  <2> QED  BY <1>1
<1> QED  BY <1>2

(* The rows of the group of the last w ranks before row i. *)
Recent(key, w, i) == {j \in Prior(key, i) : Rank(key, i) - Rank(key, j) <= w}

(* The values of a shifted window are those of the rows just before. *)
LEMMA WindowIsRecent ==
  ASSUME NEW n \in Nat, NEW key, DOMAIN key = 1..n, NEW i \in 1..n, NEW w \in Nat,
         NEW rows, rows = {j \in 1..i : key[j] = key[i] /\ Rank(key, i) - Rank(key, j) < w}
  PROVE  {Shift(key, 1, j) : j \in rows} \ {NaN} = Recent(key, w, i)
<1> DEFINE seen == {Shift(key, 1, j) : j \in rows} \ {NaN}
<1>0. \A x \in 1..n : Rank(key, x) \in Nat /\ Rank(key, x) >= 1
  BY RankFacts
<1>1. ASSUME NEW x \in seen  PROVE x \in Recent(key, w, i)
  <2>1. PICK j \in rows : x = Shift(key, 1, j)
    OBVIOUS
  <2>2. j \in 1..i /\ j \in 1..n /\ key[j] = key[i] /\ Rank(key, i) - Rank(key, j) < w
    OBVIOUS
  <2>3. x \in 1..n /\ key[x] = key[j] /\ Rank(key, x) = Rank(key, j) - 1
    BY <2>1, <2>2, ShiftFacts
  <2>4. Rank(key, j) <= Rank(key, i)
    <3>1. i < j <=> Rank(key, i) < Rank(key, j)
      BY <2>2, RankFacts
    <3> QED  BY <3>1, <2>2, <1>0
  <2>5. Rank(key, x) < Rank(key, i)
    BY <2>2, <2>3, <2>4, <1>0
  <2>6. x < i
    BY <2>2, <2>3, <2>5, RankFacts
  <2>7. x \in Prior(key, i)
    BY <2>2, <2>3, <2>6 DEF Prior
  <2>8. Rank(key, i) - Rank(key, x) <= w
    BY <2>2, <2>3, <1>0
  <2> QED  BY <2>7, <2>8 DEF Recent
<1>2. ASSUME NEW x \in Recent(key, w, i)  PROVE x \in seen
  <2>1. x \in 1..n /\ x < i /\ key[x] = key[i] /\ Rank(key, i) - Rank(key, x) <= w
    BY DEF Recent, Prior
  <2>2. Rank(key, x) < Rank(key, i)
    BY <2>1, RankFacts
  <2> DEFINE m == Rank(key, x) + 1
  <2>3. m \in Nat /\ m >= 1 /\ m <= Rank(key, i)
    BY <2>1, <2>2, <1>0
  <2>4. PICK j \in 1..n : key[j] = key[i] /\ Rank(key, j) = m
    <3> HIDE DEF m
    <3> QED  BY <2>3, RankTaken
  <2>5. j <= i
    <3>1. i < j <=> Rank(key, i) < Rank(key, j)
      BY <2>4, RankFacts
    <3> QED  BY <3>1, <2>3, <2>4, <1>0
  <2>6. Rank(key, i) - Rank(key, j) < w
    BY <2>1, <2>4, <1>0
  <2>7. j \in rows
    BY <2>4, <2>5, <2>6
  <2>8. Rank(key, x) = Rank(key, j) - 1 /\ key[x] = key[j]
    BY <2>1, <2>4, <1>0
  <2>9. Shift(key, 1, j) = x
    BY <2>1, <2>8, ShiftFinds
  <2> QED  BY <2>1, <2>7, <2>9 DEF NaN
<1> HIDE DEF seen
<1>3. seen = Recent(key, w, i)
  BY <1>1, <1>2
<1> QED  BY <1>3 DEF seen

LEMMA RollingIsRecent ==
  ASSUME NEW n \in Nat, NEW key, DOMAIN key = 1..n, NEW i \in 1..n, NEW w \in Nat, NEW least
  PROVE  Rolling(key, w, least, i) =
           IF Cardinality(Recent(key, w, i)) < least THEN {} ELSE Recent(key, w, i)
<1> DEFINE rows == {j \in 1..i : key[j] = key[i] /\ Rank(key, i) - Rank(key, j) < w}
           seen == {Shift(key, 1, j) : j \in rows} \ {NaN}
<1>1. Rolling(key, w, least, i) = IF Cardinality(seen) < least THEN {} ELSE seen
  BY DEF Rolling
<1>2. seen = Recent(key, w, i)
  BY WindowIsRecent
<1> HIDE DEF seen
<1> QED  BY <1>1, <1>2

LEMMA PriorFacts ==
  ASSUME NEW n \in Nat, NEW key, DOMAIN key = 1..n, NEW i \in 1..n
  PROVE  /\ IsFiniteSet(Prior(key, i))
         /\ Cardinality(Prior(key, i)) = Rank(key, i) - 1
         /\ Rank(key, i) <= i
         /\ \A w : IsFiniteSet(Recent(key, w, i)) /\ Cardinality(Recent(key, w, i)) \in Nat
<1> DEFINE P == Prior(key, i)
           G == Group(key, i)
<1>1. P \in SUBSET (1..(i - 1))
  BY DEF Prior
<1>2. IsFiniteSet(1..(i - 1)) /\ Cardinality(1..(i - 1)) = i - 1
  <2>1. IsFiniteSet(1..(i - 1))
        /\ Cardinality(1..(i - 1)) = IF 1 > i - 1 THEN 0 ELSE i - 1 - 1 + 1
    BY FS_Interval
  <2> QED  BY <2>1
<1>3. IsFiniteSet(P) /\ Cardinality(P) <= i - 1
  BY <1>1, <1>2, FS_Subset
<1>4. Cardinality(P) = Pos(G, i) /\ Rank(key, i) = Pos(G, i) + 1
  BY GroupFacts DEF Pos
<1>5. Rank(key, i) \in Nat /\ Cardinality(P) \in Nat
  BY <1>3, RankFacts, FS_CardinalityType
<1> HIDE DEF P, G
<1>6. Cardinality(P) = Rank(key, i) - 1
  <2>1. Cardinality(P) + 1 = Rank(key, i)
    BY <1>4
  <2> QED  BY <2>1, <1>5
<1>7. Rank(key, i) <= i
  BY <1>3, <1>5, <1>6
<1>8. ASSUME NEW w
      PROVE  IsFiniteSet(Recent(key, w, i)) /\ Cardinality(Recent(key, w, i)) \in Nat
  <2>1. Recent(key, w, i) \in SUBSET P
    BY DEF Recent, P
  <2> QED  BY <2>1, <1>3, FS_Subset, FS_CardinalityType
<1> QED  BY <1>3, <1>6, <1>7, <1>8 DEF P

LEMMA RollingOfOne ==
  ASSUME NEW n \in Nat, NEW key, DOMAIN key = 1..n, NEW i \in 1..n, NEW w \in Nat
  PROVE  Rolling(key, w, 1, i) = Recent(key, w, i)
<1> DEFINE T == Recent(key, w, i)
<1>1. Rolling(key, w, 1, i) = IF Cardinality(T) < 1 THEN {} ELSE T
  BY RollingIsRecent
<1>2. IsFiniteSet(T) /\ Cardinality(T) \in Nat
  BY PriorFacts
<1>3. Cardinality(T) = 0 <=> T = {}
  BY <1>2, FS_EmptySet
<1> HIDE DEF T
<1>4. Cardinality(T) < 1 <=> T = {}
  BY <1>2, <1>3
<1>5. Rolling(key, w, 1, i) = T
  BY <1>1, <1>4
<1> QED  BY <1>5 DEF T

LEMMA ExpandingIsPrior ==
  ASSUME NEW n \in Nat, NEW key, DOMAIN key = 1..n, Len(key) = n, NEW i \in 1..n
  PROVE  Expanding(key, i) = Prior(key, i)
<1>1. Expanding(key, i) = Recent(key, n, i)
  BY RollingOfOne DEF Expanding
<1>2. \A j \in Prior(key, i) : Rank(key, i) - Rank(key, j) <= n
  <2> SUFFICES ASSUME NEW j \in Prior(key, i)  PROVE Rank(key, i) - Rank(key, j) <= n
    OBVIOUS
  <2>1. j \in 1..n
    BY DEF Prior
  <2>2. Rank(key, i) \in Nat /\ Rank(key, j) \in Nat /\ Rank(key, i) <= i
    BY <2>1, RankFacts, PriorFacts
  <2> QED  BY <2>2
<1> QED  BY <1>1, <1>2 DEF Recent

(* Of the earlier rows of the group, those less than w ranks ahead. *)
LEMMA RecentIsNewest ==
  ASSUME NEW n \in Nat, NEW key, DOMAIN key = 1..n, NEW i \in 1..n, NEW w \in Nat
  PROVE  Recent(key, w, i) = Newest(w, Prior(key, i))
<1>1. ASSUME NEW j \in Prior(key, i)
      PROVE  Rank(key, i) - Rank(key, j) <= w
               <=> Cardinality({m \in Prior(key, i) : m > j}) < w
  <2>1. j \in 1..(i - 1) /\ j \in 1..n /\ key[j] = key[i]
    BY DEF Prior
  <2>2. Cardinality({m \in Prior(key, i) : m > j}) = Rank(key, i) - Rank(key, j) - 1
    BY <2>1, RankFacts
  <2>3. Rank(key, i) \in Nat /\ Rank(key, j) \in Nat
    BY <2>1, RankFacts
  <2> QED  BY <2>2, <2>3
<1> QED  BY <1>1 DEF Recent, Newest

(* A member of Prior has a smaller rank, and ranks up to that of i are Prior's. *)
LEMMA PriorRanks ==
  ASSUME NEW n \in Nat, NEW key, DOMAIN key = 1..n, NEW i \in 1..n
  PROVE  /\ \A j \in Prior(key, i) :
              j \in 1..n /\ key[j] = key[i] /\ Rank(key, j) < Rank(key, i)
         /\ \A j \in 1..n : key[j] = key[i] /\ Rank(key, j) < Rank(key, i) => j \in Prior(key, i)
<1>1. ASSUME NEW j \in Prior(key, i)
      PROVE  j \in 1..n /\ key[j] = key[i] /\ Rank(key, j) < Rank(key, i)
  <2>1. j \in 1..n /\ key[j] = key[i] /\ j < i
    BY DEF Prior
  <2> QED  BY <2>1, RankFacts
<1>2. ASSUME NEW j \in 1..n, key[j] = key[i], Rank(key, j) < Rank(key, i)
      PROVE  j \in Prior(key, i)
  <2>1. j < i
    BY <1>2, RankFacts
  <2> QED  BY <2>1, <1>2 DEF Prior
<1> QED  BY <1>1, <1>2

(* A positive shift reaches the earlier row k ranks back, if there are as many. *)
LEMMA LagFacts ==
  ASSUME NEW n \in Nat, NEW key, DOMAIN key = 1..n, NEW i \in 1..n, NEW k \in Nat, k >= 1
  PROVE  /\ Shift(key, k, i) # NaN <=> Cardinality(Prior(key, i)) >= k
         /\ Shift(key, k, i) # NaN =>
              {Shift(key, k, i)} = {j \in Prior(key, i) : Rank(key, i) - Rank(key, j) = k}
<1> DEFINE x == Shift(key, k, i)
           r == Rank(key, i)
<1>1. Cardinality(Prior(key, i)) = r - 1 /\ r \in Nat /\ r >= 1
  BY PriorFacts, RankFacts
<1>2. \A j \in 1..n : Rank(key, j) \in Nat /\ Rank(key, j) >= 1
  BY RankFacts
<1>3. ASSUME x # NaN  PROVE x \in Prior(key, i) /\ r - Rank(key, x) = k /\ r - 1 >= k
  <2>1. x \in 1..n /\ key[x] = key[i] /\ Rank(key, x) = r - k
    BY <1>3, ShiftFacts
  <2> HIDE DEF x, r
  <2>2. Rank(key, x) < r /\ r - Rank(key, x) = k /\ r - 1 >= k
    BY <2>1, <1>1, <1>2
  <2>3. x \in Prior(key, i)
    BY <2>1, <2>2, PriorRanks DEF r
  <2> QED  BY <2>2, <2>3
<1>4. ASSUME NEW j \in Prior(key, i), r - Rank(key, j) = k  PROVE j = x
  <2>1. j \in 1..n /\ key[j] = key[i] /\ Rank(key, j) < r
    BY PriorRanks
  <2>2. Rank(key, j) = r - k
    BY <2>1, <1>1, <1>2, <1>4
  <2> QED  BY <2>1, <2>2, ShiftFinds
<1>5. ASSUME r - 1 >= k  PROVE x # NaN
  <2> DEFINE m == r - k
  <2>1. m \in Nat /\ m >= 1 /\ m <= r
    <3> HIDE DEF r
    <3> QED  BY <1>1, <1>5
  <2>2. PICK j \in 1..n : key[j] = key[i] /\ Rank(key, j) = m
    <3> HIDE DEF m
    <3> QED  BY <2>1, RankTaken
  <2>3. x = j
    BY <2>2, ShiftFinds
  <2> QED  BY <2>3 DEF NaN
<1> HIDE DEF x, r
<1>6. x # NaN <=> Cardinality(Prior(key, i)) >= k
  BY <1>1, <1>3, <1>5
<1>7. x # NaN => {x} = {j \in Prior(key, i) : r - Rank(key, j) = k}
  BY <1>3, <1>4
<1> QED  BY <1>6, <1>7 DEF x, r

Later(key, i) == {j \in (i + 1)..Len(key) : key[j] = key[i]}

(* The shift the other way reaches the next row of the group, if there is one. *)
LEMMA LeadFacts ==
  ASSUME NEW n \in Nat, NEW key, DOMAIN key = 1..n, Len(key) = n, NEW i \in 1..n
  PROVE  /\ Shift(key, -1, i) # NaN <=> Later(key, i) # {}
         /\ Shift(key, -1, i) # NaN =>
              /\ Shift(key, -1, i) \in Later(key, i)
              /\ \A j \in Later(key, i) : Shift(key, -1, i) <= j
<1> DEFINE x == Shift(key, -1, i)
           r == Rank(key, i)
<1>1. \A j \in 1..n : Rank(key, j) \in Nat /\ Rank(key, j) >= 1
  BY RankFacts
<1>2. -1 \in Int /\ r \in Nat
  BY <1>1
<1>3. ASSUME NEW j \in Later(key, i)
      PROVE  /\ j \in 1..n /\ key[j] = key[i] /\ r < Rank(key, j)
             /\ \E y \in 1..n : key[y] = key[i] /\ Rank(key, y) = r + 1
  <2>1. j \in 1..n /\ key[j] = key[i] /\ i < j
    BY DEF Later
  <2>2. r < Rank(key, j)
    BY <2>1, RankFacts
  <2> DEFINE m == r + 1
  <2>3. m \in Nat /\ m >= 1 /\ m <= Rank(key, j)
    <3> HIDE DEF r
    <3> QED  BY <2>1, <2>2, <1>1, <1>2
  <2>4. PICK y \in 1..n : key[y] = key[j] /\ Rank(key, y) = m
    <3> HIDE DEF m
    <3> QED  BY <2>1, <2>3, RankTaken
  <2> QED  BY <2>1, <2>2, <2>4
<1>4. ASSUME x # NaN
      PROVE  x \in 1..n /\ key[x] = key[i] /\ Rank(key, x) = r + 1 /\ x \in Later(key, i)
  <2>1. x \in 1..n /\ key[x] = key[i] /\ Rank(key, x) = r - (-1)
    BY <1>2, <1>4, ShiftFacts
  <2>2. Rank(key, x) = r + 1 /\ r < Rank(key, x)
    <3> HIDE DEF r
    <3> QED  BY <2>1, <1>1, <1>2
  <2>3. i < x
    BY <2>1, <2>2, RankFacts
  <2> QED  BY <2>1, <2>2, <2>3 DEF Later
<1>5. ASSUME Later(key, i) # {}  PROVE x # NaN
  <2>1. PICK y \in 1..n : key[y] = key[i] /\ Rank(key, y) = r + 1
    BY <1>3, <1>5
  <2>2. Rank(key, y) = r - (-1)
    <3> HIDE DEF r
    <3> QED  BY <2>1, <1>2
  <2>3. x = y
    BY <1>2, <2>1, <2>2, ShiftFinds
  <2> QED  BY <2>3 DEF NaN
<1>6. ASSUME x # NaN, NEW j \in Later(key, i)  PROVE x <= j
  <2>1. x \in 1..n /\ key[x] = key[i] /\ Rank(key, x) = r + 1
    BY <1>4, <1>6
  <2>2. j \in 1..n /\ key[j] = key[i] /\ r < Rank(key, j)
    BY <1>3
  <2> HIDE DEF x, r
  <2>3. ~(Rank(key, j) < Rank(key, x))
    BY <2>1, <2>2, <1>1, <1>2
  <2>4. ~(j < x)
    BY <2>1, <2>2, <2>3, RankFacts
  <2> QED  BY <2>1, <2>2, <2>4
<1> HIDE DEF x
<1> QED  BY <1>4, <1>5, <1>6 DEF x

LEMMA PairIsTwo ==
  ASSUME NEW x, NEW y, x # y
  PROVE  IsFiniteSet({x, y}) /\ Cardinality({x, y}) = 2
<1>1. IsFiniteSet({x}) /\ Cardinality({x}) = 1
  BY FS_Singleton
<1>2. IsFiniteSet({x} \cup {y}) /\ Cardinality({x} \cup {y}) = Cardinality({x}) + 1
  BY <1>1, FS_AddElement
<1>3. {x} \cup {y} = {x, y}
  OBVIOUS
<1> QED  BY <1>1, <1>2, <1>3

(* Two earlier rows are enough for a window of two values or more. *)
LEMMA RollingOfTwo ==
  ASSUME NEW n \in Nat, NEW key, DOMAIN key = 1..n, NEW i \in 1..n,
         NEW w \in Nat, w >= 2, Cardinality(Prior(key, i)) >= 2
  PROVE  Rolling(key, w, 2, i) = Recent(key, w, i) /\ Recent(key, w, i) # {}
<1> DEFINE T == Recent(key, w, i)
           r == Rank(key, i)
<1>1. Rolling(key, w, 2, i) = IF Cardinality(T) < 2 THEN {} ELSE T
  BY RollingIsRecent
<1>2. IsFiniteSet(T) /\ Cardinality(T) \in Nat
  BY PriorFacts
<1>3. r \in Nat /\ r >= 3
  <2>1. Cardinality(Prior(key, i)) = r - 1 /\ r \in Nat
    BY PriorFacts, RankFacts
  <2> HIDE DEF r
  <2> QED  BY <2>1
<1>4. \A k \in 1..2 : \E j \in T : Rank(key, j) = r - k
  <2> SUFFICES ASSUME NEW k \in 1..2  PROVE \E j \in T : Rank(key, j) = r - k
    OBVIOUS
  <2> DEFINE m == r - k
  <2>1. m \in Nat /\ m >= 1 /\ m <= r /\ m < r /\ r - m <= w
    <3> HIDE DEF r
    <3> QED  BY <1>3
  <2>2. PICK j \in 1..n : key[j] = key[i] /\ Rank(key, j) = m
    <3> HIDE DEF m
    <3> QED  BY <2>1, RankTaken
  <2>3. j \in Prior(key, i)
    BY <2>1, <2>2, PriorRanks
  <2>4. j \in T
    BY <2>1, <2>2, <2>3 DEF Recent
  <2> QED  BY <2>2, <2>4
<1>5. PICK x \in T : Rank(key, x) = r - 1
  BY <1>4
<1>6. PICK y \in T : Rank(key, y) = r - 2
  BY <1>4
<1>7. x # y
  <2> HIDE DEF r
  <2> QED  BY <1>3, <1>5, <1>6
<1>8. Cardinality({x, y}) = 2
  BY <1>7, PairIsTwo
<1> HIDE DEF T
<1>9. {x, y} \in SUBSET T
  OBVIOUS
<1>10. Cardinality({x, y}) <= Cardinality(T)
  BY <1>2, <1>9, FS_Subset
<1>11. ~(Cardinality(T) < 2)
  BY <1>2, <1>8, <1>10
<1> QED  BY <1>1, <1>5, <1>11 DEF T

(* What a row of the features is computed from, zone and hour being the two
   groupings of the frame. *)
LEMMA RowFacts ==
  ASSUME NEW n \in Nat,
         NEW zone, DOMAIN zone = 1..n, Len(zone) = n,
         NEW hour, DOMAIN hour = 1..n, Len(hour) = n,
         NEW i \in 1..n
  PROVE  /\ Complete(RowOf(zone, hour, i)) <=>
              /\ Cardinality(Prior(zone, i)) >= 3
              /\ Prior(hour, i) # {}
              /\ Later(zone, i) # {}
         /\ Complete(RowOf(zone, hour, i)) =>
              LET r == RowOf(zone, hour, i)
                  prior == Prior(zone, i)
              IN  /\ {r.lag1} = Newest(1, prior)
                  /\ {r.lag3} = Newest(3, prior) \ Newest(2, prior)
                  /\ r.mean3 = Newest(3, prior)
                  /\ r.mean6 = Newest(6, prior) /\ r.std6 = Newest(6, prior)
                  /\ r.zoneHour = Prior(hour, i)
                  /\ r.target \in Later(zone, i)
                  /\ \A j \in Later(zone, i) : r.target <= j
<1> DEFINE r == RowOf(zone, hour, i)
           P == Prior(zone, i)
           c == Cardinality(P)
<1>1. /\ r.lag1 = Shift(zone, 1, i) /\ r.lag3 = Shift(zone, 3, i)
      /\ r.mean3 = Rolling(zone, 3, 1, i) /\ r.mean6 = Rolling(zone, 6, 1, i)
      /\ r.std6 = Rolling(zone, 6, 2, i)
      /\ r.zoneHour = Expanding(hour, i)
      /\ r.target = Shift(zone, -1, i)
  BY DEF RowOf
<1>2. Complete(r) <=> /\ r.lag1 # NaN /\ r.lag3 # NaN /\ r.target # NaN
                      /\ r.mean3 # {} /\ r.mean6 # {} /\ r.std6 # {} /\ r.zoneHour # {}
  BY DEF Complete
<1>3. /\ r.mean3 = Recent(zone, 3, i) /\ r.mean6 = Recent(zone, 6, i)
      /\ r.zoneHour = Prior(hour, i)
  BY <1>1, RollingOfOne, ExpandingIsPrior
<1>4. /\ Recent(zone, 1, i) = Newest(1, P) /\ Recent(zone, 2, i) = Newest(2, P)
      /\ Recent(zone, 3, i) = Newest(3, P) /\ Recent(zone, 6, i) = Newest(6, P)
  BY RecentIsNewest
<1>5. r.lag1 # NaN <=> c >= 1
  BY <1>1, LagFacts
<1>6. r.lag3 # NaN <=> c >= 3
  BY <1>1, LagFacts
<1>7. r.target # NaN <=> Later(zone, i) # {}
  BY <1>1, LeadFacts
<1>8. c \in Nat
  BY PriorFacts, FS_CardinalityType
<1>9. \A j \in P : Rank(zone, j) < Rank(zone, i) /\ Rank(zone, j) \in Nat /\ Rank(zone, i) \in Nat
  BY PriorRanks, RankFacts
<1>10. r.lag1 # NaN => {r.lag1} = Recent(zone, 1, i)
  <2>1. r.lag1 # NaN => {r.lag1} = {j \in P : Rank(zone, i) - Rank(zone, j) = 1}
    BY <1>1, LagFacts
  <2>2. \A j \in P : Rank(zone, i) - Rank(zone, j) = 1 <=> Rank(zone, i) - Rank(zone, j) <= 1
    BY <1>9
  <2>3. {j \in P : Rank(zone, i) - Rank(zone, j) = 1} = Recent(zone, 1, i)
    BY <2>2 DEF Recent
  <2> QED  BY <2>1, <2>3
<1>11. r.lag3 # NaN => {r.lag3} = Recent(zone, 3, i) \ Recent(zone, 2, i)
  <2>1. r.lag3 # NaN => {r.lag3} = {j \in P : Rank(zone, i) - Rank(zone, j) = 3}
    BY <1>1, LagFacts
  <2>2. \A j \in P : Rank(zone, i) - Rank(zone, j) = 3 <=>
           /\ Rank(zone, i) - Rank(zone, j) <= 3
           /\ ~(Rank(zone, i) - Rank(zone, j) <= 2)
    BY <1>9
  <2>3. {j \in P : Rank(zone, i) - Rank(zone, j) = 3} = Recent(zone, 3, i) \ Recent(zone, 2, i)
    BY <2>2 DEF Recent
  <2> QED  BY <2>1, <2>3
<1>12. c >= 3 => r.std6 = Recent(zone, 6, i) /\ r.std6 # {}
  <2> SUFFICES ASSUME c >= 3  PROVE r.std6 = Recent(zone, 6, i) /\ r.std6 # {}
    OBVIOUS
  <2>1. c >= 2
    <3> HIDE DEF c
    <3> QED  BY <1>8
  <2>2. Rolling(zone, 6, 2, i) = Recent(zone, 6, i) /\ Recent(zone, 6, i) # {}
    BY <2>1, RollingOfTwo
  <2> QED  BY <1>1, <2>2
<1>13. c >= 3 => r.mean3 # {} /\ r.mean6 # {} /\ c >= 1
  <2> SUFFICES ASSUME c >= 3  PROVE r.mean3 # {} /\ r.mean6 # {} /\ c >= 1
    OBVIOUS
  <2>1. c >= 1
    <3> HIDE DEF c
    <3> QED  BY <1>8
  <2>2. \E j \in Recent(zone, 1, i) : TRUE
    BY <2>1, <1>5, <1>10
  <2>3. PICK j \in Recent(zone, 1, i) : TRUE
    BY <2>2
  <2>4. j \in P /\ Rank(zone, i) - Rank(zone, j) <= 1
    BY <2>3 DEF Recent
  <2>5. Rank(zone, i) - Rank(zone, j) <= 3 /\ Rank(zone, i) - Rank(zone, j) <= 6
    BY <2>4, <1>9
  <2>6. j \in Recent(zone, 3, i) /\ j \in Recent(zone, 6, i)
    BY <2>4, <2>5 DEF Recent
  <2> QED  BY <2>1, <2>6, <1>3
<1> HIDE DEF r, c, P
<1>14. Complete(r) <=> c >= 3 /\ Prior(hour, i) # {} /\ Later(zone, i) # {}
  BY <1>2, <1>3, <1>5, <1>6, <1>7, <1>12, <1>13
<1>15. Complete(r) =>
         /\ {r.lag1} = Newest(1, P)
         /\ {r.lag3} = Newest(3, P) \ Newest(2, P)
         /\ r.mean3 = Newest(3, P)
         /\ r.mean6 = Newest(6, P) /\ r.std6 = Newest(6, P)
         /\ r.zoneHour = Prior(hour, i)
  BY <1>2, <1>3, <1>4, <1>10, <1>11, <1>12, <1>14
<1>16. Complete(r) => /\ r.target \in Later(zone, i)
                      /\ \A j \in Later(zone, i) : r.target <= j
  BY <1>1, <1>2, LeadFacts
<1> QED  BY <1>14, <1>15, <1>16 DEF r, c, P

-----------------------------------------------------------------------------
(* The rows of a frame *)

LEMMA LengthIs ==
  ASSUME NEW n \in Nat, NEW s, s = [k \in 1..n |-> s[k]]
  PROVE  /\ s \in Seq({s[k] : k \in 1..n})
         /\ Len(s) = n
         /\ DOMAIN s = 1..n
<1>1. s \in Seq({s[k] : k \in 1..n})
  <2> DEFINE T == {s[k] : k \in 1..n}
  <2>1. \A k \in 1..n : s[k] \in T
    OBVIOUS
  <2> HIDE DEF T
  <2>2. [k \in 1..n |-> s[k]] \in Seq(T)
    BY <2>1
  <2>3. s \in Seq(T)
    BY <2>2
  <2> QED  BY <2>3 DEF T
<1>2. DOMAIN s = 1..n
  OBVIOUS
<1> QED  BY <1>1, <1>2

LEMMA KeyFacts ==
  ASSUME NEW n \in Nat, NEW f, DOMAIN f = 1..n
  PROVE  /\ DOMAIN ZoneKey(f) = 1..n /\ Len(ZoneKey(f)) = n
         /\ DOMAIN ZoneHourKey(f) = 1..n /\ Len(ZoneHourKey(f)) = n
<1>1. ZoneKey(f) = [i \in 1..n |-> f[i].zone]
  BY DEF ZoneKey
<1>2. ZoneHourKey(f) = [i \in 1..n |-> <<f[i].zone, Hour(f[i].minute)>>]
  BY DEF ZoneHourKey
<1>3. ZoneKey(f) = [i \in 1..n |-> ZoneKey(f)[i]]
  BY <1>1
<1>4. ZoneHourKey(f) = [i \in 1..n |-> ZoneHourKey(f)[i]]
  BY <1>2
<1> QED  BY <1>3, <1>4, LengthIs

FrameRow(f, i) == RowOf(ZoneKey(f), ZoneHourKey(f), i)
Kept(f) == {i \in DOMAIN f : Complete(FrameRow(f, i))}

(* The rows built are those of the events kept, one each and in their order. *)
LEMMA BuildFacts ==
  ASSUME NEW n \in Nat, NEW f, DOMAIN f = 1..n
  PROVE  LET rows == BuildOffline(f)
             c == Cardinality(Kept(f))
         IN  /\ c \in Nat
             /\ rows = [a \in 1..c |-> rows[a]]
             /\ \A a \in 1..c : rows[a].at \in Kept(f) /\ rows[a] = FrameRow(f, rows[a].at)
             /\ \A i \in Kept(f) : \E a \in 1..c : rows[a] = FrameRow(f, i)
             /\ \A a, b \in 1..c : a < b => rows[a].at < rows[b].at
<1> DEFINE rows == BuildOffline(f)
           K == Kept(f)
           c == Cardinality(K)
           place(a) == CHOOSE i \in K : Cardinality({j \in K : j < i}) = a - 1
<1>1. K \in SUBSET (1..n) /\ IsFiniteSet(1..n)
  BY FS_Interval DEF Kept
<1>2. K \in SUBSET Nat /\ IsFiniteSet(K)
  BY <1>1, FS_Subset
<1>3. c \in Nat
  BY <1>2, FS_CardinalityType
<1>4. rows = [a \in 1..c |-> FrameRow(f, place(a))]
  BY Zenon DEF BuildOffline, Kept, FrameRow
<1>5. ASSUME NEW a \in 1..c
      PROVE  place(a) \in K /\ Pos(K, place(a)) = a - 1
  <2>1. a - 1 \in 0..(c - 1)
    <3> HIDE DEF c
    <3> QED  BY <1>3
  <2>2. \A x \in 0..(Cardinality(K) - 1) : \E i \in K : Pos(K, i) = x
    <3> HIDE DEF K
    <3> QED  BY <1>2, Positions
  <2>3. \E i \in K : Pos(K, i) = a - 1
    BY <2>1, <2>2
  <2>4. \E i \in K : Cardinality({j \in K : j < i}) = a - 1
    BY <2>3 DEF Pos
  <2>5. place(a) \in K /\ Cardinality({j \in K : j < place(a)}) = a - 1
    <3> HIDE DEF K
    <3> QED  BY <2>4, Zenon
  <2> QED  BY <2>5 DEF Pos
<1> HIDE DEF place
<1>6. \A i : FrameRow(f, i).at = i
  BY DEF FrameRow, RowOf
<1>7. \A a \in 1..c : rows[a] = FrameRow(f, place(a)) /\ rows[a].at = place(a)
  BY <1>4, <1>6
<1> HIDE DEF rows, K
<1>8. \A a \in 1..c : rows[a].at \in K /\ rows[a] = FrameRow(f, rows[a].at)
  BY <1>5, <1>7
<1>9. ASSUME NEW i \in K  PROVE \E a \in 1..c : rows[a] = FrameRow(f, i)
  <2> DEFINE a == Pos(K, i) + 1
  <2>1. Pos(K, i) \in 0..(c - 1)
    BY <1>2, Positions
  <2>2. a \in 1..c /\ a - 1 = Pos(K, i)
    <3> HIDE DEF c
    <3> QED  BY <2>1, <1>3
  <2> HIDE DEF a
  <2>3. place(a) \in K /\ Pos(K, place(a)) = Pos(K, i)
    BY <1>5, <2>2
  <2>4. place(a) = i
    BY <1>2, <2>3, Positions
  <2>5. rows[a] = FrameRow(f, i)
    BY <1>7, <2>2, <2>4
  <2> QED  BY <2>2, <2>5
<1>10. ASSUME NEW a \in 1..c, NEW b \in 1..c, a < b
       PROVE  rows[a].at < rows[b].at
  <2>1. place(a) \in K /\ place(b) \in K /\ Pos(K, place(a)) = a - 1 /\ Pos(K, place(b)) = b - 1
    BY <1>5
  <2>2. a - 1 < b - 1
    BY <1>10
  <2>3. Pos(K, place(a)) < Pos(K, place(b))
    BY <2>1, <2>2
  <2>4. place(a) < place(b)
    BY <1>2, <2>1, <2>3, Positions
  <2> QED  BY <1>7, <2>4
<1>11. rows = [a \in 1..c |-> rows[a]]
  BY <1>4
<1>12. \A i \in K : \E a \in 1..c : rows[a] = FrameRow(f, i)
  BY <1>9
<1>13. \A a, b \in 1..c : a < b => rows[a].at < rows[b].at
  BY <1>10
<1> QED  BY <1>3, <1>8, <1>11, <1>12, <1>13 DEF rows, K

-----------------------------------------------------------------------------
(* The frame *)

InTime(s, n) ==
  /\ s \in [1..n -> Event]
  /\ \A a, b \in 1..n : s[a].id = s[b].id => a = b
  /\ \A a, b \in 1..n : s[a].id < s[b].id =>
       /\ s[a].minute <= s[b].minute
       /\ s[a].zone = s[b].zone => s[a].minute < s[b].minute

Timeline(f, n) ==
  /\ f \in [1..n -> Event]
  /\ \A a, b \in 1..n : a < b =>
       /\ f[a].minute <= f[b].minute
       /\ f[a].zone = f[b].zone => f[a].minute < f[b].minute

LEMMA BeforeIsAnOrder ==
  /\ \A e \in Event : ~Before(e, e)
  /\ \A e, f, g \in Event : Before(e, f) /\ Before(f, g) => Before(e, g)
  /\ \A e, f \in Event : e.id # f.id => Before(e, f) \/ Before(f, e)
<1>1. \A e \in Event : e.id \in Nat /\ e.minute \in Nat /\ e.zone \in Nat
  BY DEF Event
<1>2. \A e \in Event : ~Before(e, e)
  BY <1>1 DEF Before
<1>3. ASSUME NEW e \in Event, NEW f \in Event, NEW g \in Event, Before(e, f), Before(f, g)
      PROVE  Before(e, g)
  BY <1>1, <1>3 DEF Before
<1>4. ASSUME NEW e \in Event, NEW f \in Event, e.id # f.id
      PROVE  Before(e, f) \/ Before(f, e)
  BY <1>1, <1>4 DEF Before
<1> QED  BY <1>2, <1>3, <1>4

(* Sorted, the events are in the order of time, those of a zone strictly. *)
LEMMA NormalizeSorts ==
  ASSUME NEW n \in Nat, NEW s, InTime(s, n)
  PROVE  Timeline(Normalize(s), n)
<1> DEFINE S == 1..n
           R == {e \in S \X S : Before(s[e[1]], s[e[2]])}
           earlier(i) == {j \in DOMAIN s : Before(s[j], s[i])}
           place(m) == CHOOSE i \in DOMAIN s : Cardinality(earlier(i)) = m - 1
           f == Normalize(s)
<1>1. DOMAIN s = S
  BY DEF InTime
<1>2. \A i, j \in S : <<i, j>> \in R <=> Before(s[i], s[j])
  <2> HIDE DEF S
  <2> QED  OBVIOUS
<1>3. \A i \in S : s[i] \in Event
  BY DEF InTime
<1>4. Ordered(R, S)
  <2>1. \A i, j \in S : i # j => s[i].id # s[j].id
    BY DEF InTime
  <2> HIDE DEF R, S
  <2>2. \A i \in S : <<i, i>> \notin R
    BY <1>2, <1>3, BeforeIsAnOrder
  <2>3. \A i, j, k \in S : <<i, j>> \in R /\ <<j, k>> \in R => <<i, k>> \in R
    BY <1>2, <1>3, BeforeIsAnOrder
  <2>4. \A i, j \in S : i # j => <<i, j>> \in R \/ <<j, i>> \in R
    BY <2>1, <1>2, <1>3, BeforeIsAnOrder
  <2> QED  BY <2>2, <2>3, <2>4 DEF Ordered
<1>5. IsFiniteSet(S) /\ Cardinality(S) = n
  <2>1. IsFiniteSet(1..n) /\ Cardinality(1..n) = IF 1 > n THEN 0 ELSE n - 1 + 1
    BY FS_Interval
  <2> QED  BY <2>1
<1>6. \A i \in S : Below(R, S, i) = earlier(i)
  BY <1>1, <1>2 DEF Below
<1>7. f = [m \in S |-> s[place(m)]]
  BY <1>1, Zenon DEF Normalize
<1>8. ASSUME NEW m \in S
      PROVE  place(m) \in S /\ Cardinality(Below(R, S, place(m))) = m - 1
  <2> DEFINE x == m - 1
  <2>1. x \in Nat /\ x < n
    OBVIOUS
  <2>2. \E i \in S : Cardinality(Below(R, S, i)) = x
    <3>1. PICK T : T = S
      OBVIOUS
    <3>2. IsFiniteSet(T) /\ Ordered(R, T) /\ x < Cardinality(T)
      BY <3>1, <2>1, <1>4, <1>5
    <3> HIDE DEF R, x
    <3>3. \E i \in T : Cardinality(Below(R, T, i)) = x
      BY <3>2, <2>1, EveryPlaceTaken
    <3> QED  BY <3>1, <3>3
  <2>3. \E i \in DOMAIN s : Cardinality(earlier(i)) = m - 1
    <3>1. PICK i \in S : Cardinality(Below(R, S, i)) = x
      BY <2>2
    <3>2. Cardinality(earlier(i)) = m - 1
      BY <3>1, <1>6
    <3> QED  BY <3>2, <1>1
  <2>4. place(m) \in DOMAIN s /\ Cardinality(earlier(place(m))) = m - 1
    <3> HIDE DEF earlier
    <3> QED  BY <2>3, Zenon
  <2>5. place(m) \in S /\ Below(R, S, place(m)) = earlier(place(m))
    BY <2>4, <1>1, <1>6
  <2> QED  BY <2>4, <2>5
<1> HIDE DEF place, f
<1>9. ASSUME NEW a \in S, NEW b \in S, a < b
      PROVE  Before(f[a], f[b])
  <2> DEFINE i == place(a)
             j == place(b)
  <2>1. i \in S /\ j \in S
        /\ Cardinality(Below(R, S, i)) = a - 1 /\ Cardinality(Below(R, S, j)) = b - 1
    BY <1>8
  <2>2. a - 1 < b - 1
    BY <1>9
  <2> HIDE DEF i, j
  <2>3. Cardinality(Below(R, S, i)) < Cardinality(Below(R, S, j))
    BY <2>1, <2>2
  <2>4. <<i, j>> \in R
    <3> HIDE DEF R, S
    <3> QED  BY <1>4, <1>5, <2>1, <2>3, Ranking
  <2>5. Before(s[i], s[j])
    BY <1>2, <2>1, <2>4
  <2>6. f[a] = s[i] /\ f[b] = s[j]
    BY <1>7 DEF i, j
  <2> QED  BY <2>5, <2>6
<1>10. \A a \in S : \E i \in S : f[a] = s[i]
  BY <1>7, <1>8
<1>11. \A a \in S : f[a] \in Event
  BY <1>3, <1>10
<1>12. ASSUME NEW a \in S, NEW b \in S, a < b
       PROVE  /\ f[a].minute <= f[b].minute
              /\ f[a].zone = f[b].zone => f[a].minute < f[b].minute
  <2>1. Before(f[a], f[b])
    BY <1>9, <1>12
  <2>2. PICK i \in S : f[a] = s[i]
    BY <1>10
  <2>3. PICK j \in S : f[b] = s[j]
    BY <1>10
  <2>4. s[i] \in Event /\ s[j] \in Event
    BY <1>3
  <2>5. /\ s[i].minute \in Nat /\ s[j].minute \in Nat /\ s[i].id \in Nat /\ s[j].id \in Nat
        /\ s[i].zone \in Nat /\ s[j].zone \in Nat
    BY <2>4 DEF Event
  <2>6. s[i].id < s[j].id /\ s[i].zone = s[j].zone => s[i].minute < s[j].minute
    BY DEF InTime
  <2> QED  BY <2>1, <2>2, <2>3, <2>5, <2>6 DEF Before
<1>13. f \in [S -> Event]
  BY <1>7, <1>11
<1>14. \A a, b \in S : a < b =>
         /\ f[a].minute <= f[b].minute
         /\ f[a].zone = f[b].zone => f[a].minute < f[b].minute
  BY <1>12
<1> QED  BY <1>13, <1>14 DEF Timeline, f

-----------------------------------------------------------------------------
(* The events generated *)

LEMMA ExpectedRowsType ==
  ASSUME NEW c \in Configs, Valid(c)
  PROVE  ExpectedRows(c) \in Nat
<1>1. c.rows \in Int /\ c.rows > 0 /\ c.zones \in Int /\ c.zones > 0
  BY OptionsAssumption DEF Valid
<1>2. CASE UsesGrid(c)
  <2>1. c.days \in Nat /\ c.perDay \in Nat /\ c.zones \in Nat
    BY <1>1, <1>2, ValidGrid, OptionsAssumption, ClockAssumption
       DEF Valid, UsesGrid, GridOptions, MinutesPerDay
  <2>2. c.zones * c.days * c.perDay \in Nat
    BY <2>1
  <2> QED  BY <2>2, <1>2 DEF ExpectedRows
<1>3. CASE ~UsesGrid(c)
  BY <1>1, <1>3 DEF ExpectedRows
<1> QED  BY <1>2, <1>3

(* A later event is no earlier, and later if it is of the same zone or drawn. *)
LEMMA MinutesInOrder ==
  ASSUME NEW c \in Configs, Valid(c), NEW j \in Nat, NEW k \in Nat, j < k
  PROVE  /\ Minute(c, j) \in Nat /\ Minute(c, k) \in Nat
         /\ Minute(c, j) <= Minute(c, k)
         /\ ~UsesGrid(c) \/ j % c.zones = k % c.zones => Minute(c, j) < Minute(c, k)
<1>1. CASE UsesGrid(c)
  <2>1. GridOptions(c)
    BY <1>1, ValidGrid
  <2> QED  BY <1>1, <2>1, GridInOrder
<1>2. CASE ~UsesGrid(c)
  <2> DEFINE t == c.interval
             a == t * j
             b == t * k
  <2>1. t \in Nat \ {0} /\ c.start \in Nat
    BY OptionsAssumption DEF Valid
  <2>2. Minute(c, j) = c.start + a /\ Minute(c, k) = c.start + b
    BY <1>2 DEF Minute
  <2>3. a \in Nat /\ b \in Nat
    BY <2>1
  <2>4. a + t <= b
    <3> HIDE DEF t
    <3> QED  BY <2>1, ProductStrict
  <2> HIDE DEF a, b, t
  <2> QED  BY <2>1, <2>2, <2>3, <2>4
<1> QED  BY <1>1, <1>2

LEMMA EventsInTime ==
  ASSUME NEW c \in Configs, Valid(c), NEW zoneOf \in Draws(c)
  PROVE  InTime(EventsOf(c, zoneOf), ExpectedRows(c))
<1> DEFINE n == ExpectedRows(c)
           s == EventsOf(c, zoneOf)
<1>1. n \in Nat
  BY ExpectedRowsType
<1>2. DOMAIN s = 1..n
  BY DEF EventsOf
<1>3. \A k \in 1..n : s[k] = [id |-> k, minute |-> Minute(c, k - 1), zone |-> zoneOf[k]]
  BY DEF EventsOf
<1>0. s = [k \in 1..n |-> s[k]]
  BY DEF EventsOf
<1> HIDE DEF s
<1>4. ASSUME NEW k \in 1..n
      PROVE  s[k].id = k /\ s[k].minute = Minute(c, k - 1) /\ s[k].zone = zoneOf[k]
  <2> DEFINE m == Minute(c, k - 1)
             z == zoneOf[k]
  <2>1. s[k] = [id |-> k, minute |-> m, zone |-> z]
    BY <1>3
  <2> HIDE DEF m, z, n
  <2>2. s[k].id = k /\ s[k].minute = m /\ s[k].zone = z
    BY <2>1
  <2> QED  BY <2>2 DEF m, z
<1>5. UsesGrid(c) => GridOptions(c)
  BY ValidGrid
<1>6. ASSUME NEW k \in 1..n
      PROVE  /\ zoneOf[k] \in Nat \ {0}
             /\ UsesGrid(c) => zoneOf[k] = ((k - 1) % c.zones) + 1 /\ (k - 1) % c.zones \in Nat
  <2>1. CASE UsesGrid(c)
    <3>1. zoneOf = [x \in 1..n |-> ((x - 1) % c.zones) + 1]
      BY <2>1 DEF Draws
    <3>2. zoneOf[k] = ((k - 1) % c.zones) + 1
      BY <3>1
    <3>3. k - 1 \in Nat /\ c.zones \in Nat \ {0}
      BY <1>1, <1>5, <2>1 DEF GridOptions
    <3>4. (k - 1) % c.zones \in 0..(c.zones - 1)
      BY <3>3, Division
    <3>5. (k - 1) % c.zones \in Nat
      BY <3>3, <3>4
    <3> QED  BY <3>2, <3>5
  <2>2. CASE ~UsesGrid(c)
    <3>1. zoneOf \in [1..n -> 1..c.zones]
      BY <2>2 DEF Draws
    <3>2. zoneOf[k] \in 1..c.zones /\ c.zones \in Int
      BY <3>1, OptionsAssumption
    <3> QED  BY <2>2, <3>2
  <2> QED  BY <2>1, <2>2
<1>7. ASSUME NEW a \in 1..n, NEW b \in 1..n, a < b
      PROVE  /\ Minute(c, a - 1) \in Nat /\ Minute(c, b - 1) \in Nat
             /\ Minute(c, a - 1) <= Minute(c, b - 1)
             /\ zoneOf[a] = zoneOf[b] => Minute(c, a - 1) < Minute(c, b - 1)
  <2> DEFINE j == a - 1
             k == b - 1
  <2>1. j \in Nat /\ k \in Nat /\ j < k
    BY <1>1, <1>7
  <2>2. UsesGrid(c) /\ zoneOf[a] = zoneOf[b] => j % c.zones = k % c.zones
    <3>1. SUFFICES ASSUME UsesGrid(c), zoneOf[a] = zoneOf[b]  PROVE j % c.zones = k % c.zones
      OBVIOUS
    <3>2. /\ zoneOf[a] = (j % c.zones) + 1 /\ j % c.zones \in Nat
          /\ zoneOf[b] = (k % c.zones) + 1 /\ k % c.zones \in Nat
      BY <1>6, <3>1
    <3> DEFINE u == j % c.zones
               v == k % c.zones
    <3>3. u + 1 = v + 1 /\ u \in Nat /\ v \in Nat
      BY <3>1, <3>2
    <3> HIDE DEF u, v
    <3>4. u = v
      BY <3>3
    <3> QED  BY <3>4 DEF u, v
  <2> HIDE DEF j, k
  <2>3. /\ Minute(c, j) \in Nat /\ Minute(c, k) \in Nat
        /\ Minute(c, j) <= Minute(c, k)
        /\ ~UsesGrid(c) \/ j % c.zones = k % c.zones => Minute(c, j) < Minute(c, k)
    BY <2>1, MinutesInOrder
  <2> QED  BY <2>2, <2>3 DEF j, k
<1>8. ASSUME NEW k \in 1..n  PROVE s[k] \in Event
  <2> DEFINE j == k - 1
  <2>1. j \in Nat /\ j + 1 \in Nat /\ j < j + 1
    BY <1>1
  <2>2. Minute(c, j) \in Nat
    <3> HIDE DEF j
    <3> QED  BY <2>1, MinutesInOrder
  <2>3. k \in Nat \ {0} /\ zoneOf[k] \in Nat \ {0}
    BY <1>6
  <2>4. s[k] = [id |-> k, minute |-> Minute(c, j), zone |-> zoneOf[k]]
    BY <1>3
  <2> HIDE DEF j
  <2> QED  BY <2>2, <2>3, <2>4 DEF Event
<1>9. ASSUME NEW a \in 1..n, NEW b \in 1..n, s[a].id < s[b].id
      PROVE  /\ s[a].minute <= s[b].minute
             /\ s[a].zone = s[b].zone => s[a].minute < s[b].minute
  <2>1. a < b
    BY <1>4, <1>9
  <2> QED  BY <2>1, <1>4, <1>7
<1>10. \A a, b \in 1..n : s[a].id = s[b].id => a = b
  BY <1>4
<1>11. \A a, b \in 1..n : s[a].id < s[b].id =>
         /\ s[a].minute <= s[b].minute
         /\ s[a].zone = s[b].zone => s[a].minute < s[b].minute
  BY <1>9
<1>12. s \in [1..n -> Event]
  BY <1>0, <1>8
<1> QED  BY <1>10, <1>11, <1>12 DEF InTime, s

(* In the opposite order they are the same events. *)
LEMMA ReversedInTime ==
  ASSUME NEW n \in Nat, NEW s, InTime(s, n)
  PROVE  InTime(Reverse(s), n)
<1>1. Len(s) = n
  <2>1. s = [k \in 1..n |-> s[k]]
    BY DEF InTime
  <2> QED  BY <2>1, LengthIs
<1> DEFINE r == Reverse(s)
<1>2. r = [a \in 1..n |-> s[n - a + 1]]
  BY <1>1 DEF Reverse
<1>3. \A a \in 1..n : n - a + 1 \in 1..n
  OBVIOUS
<1>4. \A a \in 1..n : r[a] = s[n - a + 1]
  BY <1>2
<1>5. \A a \in 1..n : s[n - a + 1] \in Event
  BY <1>3 DEF InTime
<1> HIDE DEF r
<1>6. r \in [1..n -> Event]
  BY <1>2, <1>5
<1>7. ASSUME NEW a \in 1..n, NEW b \in 1..n
      PROVE  /\ r[a].id = r[b].id => a = b
             /\ r[a].id < r[b].id =>
                  /\ r[a].minute <= r[b].minute
                  /\ r[a].zone = r[b].zone => r[a].minute < r[b].minute
  <2> DEFINE i == n - a + 1
             j == n - b + 1
  <2>1. i \in 1..n /\ j \in 1..n /\ (i = j => a = b)
    OBVIOUS
  <2>2. r[a] = s[i] /\ r[b] = s[j]
    BY <1>4
  <2> HIDE DEF i, j
  <2>3. /\ s[i].id = s[j].id => i = j
        /\ s[i].id < s[j].id =>
             /\ s[i].minute <= s[j].minute
             /\ s[i].zone = s[j].zone => s[i].minute < s[j].minute
    BY <2>1 DEF InTime
  <2> QED  BY <2>1, <2>2, <2>3
<1>8. \A a, b \in 1..n : r[a].id = r[b].id => a = b
  BY <1>7
<1>9. \A a, b \in 1..n : r[a].id < r[b].id =>
        /\ r[a].minute <= r[b].minute
        /\ r[a].zone = r[b].zone => r[a].minute < r[b].minute
  BY <1>7
<1> QED  BY <1>6, <1>8, <1>9 DEF InTime, r

-----------------------------------------------------------------------------
(* The invariant *)

FromFrame ==
  /\ \E n \in Nat : Timeline(frame, n)
  /\ features = BuildOffline(frame)

(* The file read is in time whatever its order; the rows and the splits made
   of them stay those of the frame. *)
BuiltInv ==
  /\ config \in Configs
  /\ step = "generated" => \E n \in Nat : InTime(csv, n)
  /\ step \in {"start", "generated"} => features = None /\ splits = None
  /\ step = "built" \/ features # None \/ splits # None => FromFrame
  /\ splits # None =>
       /\ Len(features) >= 3
       /\ \E p \in Fractions : \E count \in SplitCounts(Len(features), p) :
            splits = Split(features, count)

LEMMA BuiltInit == OffInit => BuiltInv
BY DEF OffInit, BuiltInv

LEMMA BuiltNext == BuiltInv /\ [OffNext]_offVars => BuiltInv'
<1> SUFFICES ASSUME BuiltInv, [OffNext]_offVars  PROVE BuiltInv'
  OBVIOUS
<1>1. CASE Generate
  <2>1. step = "start" /\ step' = "generated" /\ Valid(config)
    BY <1>1 DEF Generate
  <2>2. config' = config /\ frame' = frame /\ features' = features /\ splits' = splits
    BY <1>1 DEF Generate
  <2>3. PICK zoneOf \in Draws(config) :
          csv' \in {EventsOf(config, zoneOf), Reverse(EventsOf(config, zoneOf))}
    BY <1>1 DEF Generate
  <2> DEFINE n == ExpectedRows(config)
             s == EventsOf(config, zoneOf)
  <2>4. config \in Configs
    BY DEF BuiltInv
  <2>5. n \in Nat /\ InTime(s, n)
    BY <2>1, <2>4, ExpectedRowsType, EventsInTime
  <2>7. InTime(Reverse(s), n)
    <3> HIDE DEF n, s
    <3> QED  BY <2>5, ReversedInTime
  <2>8. \E m \in Nat : InTime(csv', m)
    <3> HIDE DEF n
    <3> QED  BY <2>3, <2>5, <2>7
  <2> QED  BY <2>1, <2>2, <2>8 DEF BuiltInv
<1>2. CASE GenerateRefused
  BY <1>2 DEF GenerateRefused, Refuse, BuiltInv, FromFrame
<1>3. CASE Build
  <2>1. step = "generated" /\ config' = config /\ splits' = splits /\ frame' = Normalize(csv)
    BY <1>3 DEF Build
  <2>2. splits = None
    BY <2>1 DEF BuiltInv
  <2>3. PICK n \in Nat : InTime(csv, n)
    BY <2>1 DEF BuiltInv
  <2>4. Timeline(frame', n)
    BY <2>1, <2>3, NormalizeSorts
  <2>5. \/ step' = "no_rows" /\ features' = None
        \/ step' = "built" /\ features' = BuildOffline(frame')
    BY <1>3 DEF Build
  <2>6. config \in Configs
    BY DEF BuiltInv
  <2> QED  BY <2>1, <2>2, <2>4, <2>5, <2>6 DEF BuiltInv, FromFrame
<1>4. CASE SplitAndSave
  <2>1. step = "built" /\ step' = "written" /\ Len(features) >= 3
    BY <1>4 DEF SplitAndSave
  <2>2. config' = config /\ csv' = csv /\ frame' = frame /\ features' = features
    BY <1>4 DEF SplitAndSave
  <2>3. \E p \in Fractions : \E count \in SplitCounts(Len(features), p) :
          splits' = Split(features, count)
    BY <1>4 DEF SplitAndSave
  <2>4. config \in Configs /\ FromFrame
    BY <2>1 DEF BuiltInv
  <2>5. FromFrame'
    BY <2>2, <2>4 DEF FromFrame
  <2> QED  BY <2>1, <2>2, <2>3, <2>4, <2>5 DEF BuiltInv
<1>5. CASE SplitRefused
  <2>1. step' \in {"bad_fractions", "too_few_rows"}
        /\ UNCHANGED <<config, csv, frame, features, splits>>
    BY <1>5 DEF SplitRefused, Refuse
  <2> QED  BY <2>1 DEF BuiltInv, FromFrame
<1>6. CASE UNCHANGED offVars
  BY <1>6 DEF offVars, BuiltInv, FromFrame
<1> QED  BY <1>1, <1>2, <1>3, <1>4, <1>5, <1>6 DEF OffNext

LEMMA AlwaysBuilt == OffSpec => []BuiltInv
BY BuiltInit, BuiltNext, PTL DEF OffSpec

-----------------------------------------------------------------------------
(* The rules of the features *)

LEMMA TimelineFacts ==
  ASSUME NEW n \in Nat, NEW f, Timeline(f, n)
  PROVE  /\ DOMAIN f = 1..n /\ Len(f) = n /\ f \in Seq(Event)
         /\ \A i \in 1..n : f[i].minute \in Nat
         /\ \A i \in 1..n : ZoneKey(f)[i] = f[i].zone
         /\ \A i \in 1..n : ZoneHourKey(f)[i] = <<f[i].zone, Hour(f[i].minute)>>
<1>1. f \in [1..n -> Event]
  BY DEF Timeline
<1>2. f = [k \in 1..n |-> f[k]]
  BY <1>1
<1>3. DOMAIN f = 1..n /\ Len(f) = n
  BY <1>2, LengthIs
<1>4. f \in Seq(Event)
  BY <1>1
<1>5. \A i \in 1..n : f[i].minute \in Nat
  BY <1>1 DEF Event
<1> QED  BY <1>3, <1>4, <1>5 DEF ZoneKey, ZoneHourKey

(* The groups of pandas are the earlier and the later events of the zone. *)
LEMMA GroupsOfFrame ==
  ASSUME NEW n \in Nat, Timeline(frame, n), NEW i \in 1..n
  PROVE  /\ ZonePrior(i) = Prior(ZoneKey(frame), i)
         /\ SameHour(i) = Prior(ZoneHourKey(frame), i)
         /\ ZoneLater(i) = Later(ZoneKey(frame), i)
<1>1. /\ \A j \in 1..n : ZoneKey(frame)[j] = frame[j].zone
      /\ \A j \in 1..n : ZoneHourKey(frame)[j] = <<frame[j].zone, Hour(frame[j].minute)>>
      /\ Len(frame) = n /\ DOMAIN frame = 1..n
  BY TimelineFacts
<1>2. Len(ZoneKey(frame)) = n
  BY <1>1, KeyFacts
<1>3. \A j \in 1..(i - 1) : j \in 1..n
  OBVIOUS
<1>4. \A j \in (i + 1)..n : j \in 1..n
  OBVIOUS
<1>5. ZonePrior(i) = Prior(ZoneKey(frame), i)
  BY <1>1, <1>3 DEF ZonePrior, Prior
<1>6. SameHour(i) = Prior(ZoneHourKey(frame), i)
  <2>1. \A j \in 1..(i - 1) : ZoneHourKey(frame)[j] = ZoneHourKey(frame)[i] <=>
          frame[j].zone = frame[i].zone /\ Hour(frame[j].minute) = Hour(frame[i].minute)
    <3> SUFFICES ASSUME NEW j \in 1..(i - 1)
                 PROVE  ZoneHourKey(frame)[j] = ZoneHourKey(frame)[i] <=>
                          /\ frame[j].zone = frame[i].zone
                          /\ Hour(frame[j].minute) = Hour(frame[i].minute)
      OBVIOUS
    <3>1. /\ ZoneHourKey(frame)[j] = <<frame[j].zone, Hour(frame[j].minute)>>
          /\ ZoneHourKey(frame)[i] = <<frame[i].zone, Hour(frame[i].minute)>>
      BY <1>1, <1>3
    <3> QED  BY <3>1
  <2> QED  BY <2>1 DEF SameHour, ZonePrior, Prior
<1>7. ZoneLater(i) = Later(ZoneKey(frame), i)
  BY <1>1, <1>2, <1>4 DEF ZoneLater, Later
<1> QED  BY <1>5, <1>6, <1>7

(* Every row is built by the rules, from earlier events of its zone alone, and
   stands in the order of its event. *)
LEMMA RowsFollowTheRules ==
  ASSUME NEW n \in Nat, Timeline(frame, n), features = BuildOffline(frame)
  PROVE  LET c == Cardinality(Kept(frame))
         IN  /\ c \in Nat /\ features = [a \in 1..c |-> features[a]]
             /\ \A i \in 1..n :
                  RowAt(i) <=> Cardinality(ZonePrior(i)) >= 3 /\ SameHour(i) # {}
                                 /\ ZoneLater(i) # {}
             /\ \A a \in 1..c :
                  LET r == features[a]
                      prior == ZonePrior(r.at)
                  IN  /\ r.at \in 1..n
                      /\ r = FrameRow(frame, r.at) /\ Complete(r)
                      /\ {r.lag1} = Newest(1, prior)
                      /\ {r.lag3} = Newest(3, prior) \ Newest(2, prior)
                      /\ r.mean3 = Newest(3, prior)
                      /\ r.mean6 = Newest(6, prior) /\ r.std6 = Newest(6, prior)
                      /\ r.zoneHour = SameHour(r.at)
                      /\ r.target \in ZoneLater(r.at)
                      /\ \A j \in ZoneLater(r.at) : r.target <= j
             /\ \A a, b \in 1..c : a < b => features[a].at < features[b].at
<1> DEFINE c == Cardinality(Kept(frame))
           zone == ZoneKey(frame)
           hour == ZoneHourKey(frame)
<1>1. DOMAIN frame = 1..n
  BY TimelineFacts
<1>2. /\ DOMAIN zone = 1..n /\ Len(zone) = n
      /\ DOMAIN hour = 1..n /\ Len(hour) = n
  BY <1>1, KeyFacts
<1>3. /\ c \in Nat
      /\ features = [a \in 1..c |-> features[a]]
      /\ \A a \in 1..c : /\ features[a].at \in Kept(frame)
                         /\ features[a] = FrameRow(frame, features[a].at)
      /\ \A i \in Kept(frame) : \E a \in 1..c : features[a] = FrameRow(frame, i)
      /\ \A a, b \in 1..c : a < b => features[a].at < features[b].at
  BY <1>1, BuildFacts
<1>4. \A i : i \in Kept(frame) <=> i \in 1..n /\ Complete(FrameRow(frame, i))
  BY <1>1 DEF Kept
<1>5. ASSUME NEW i \in 1..n
      PROVE  /\ ZonePrior(i) = Prior(zone, i)
             /\ SameHour(i) = Prior(hour, i)
             /\ ZoneLater(i) = Later(zone, i)
  BY GroupsOfFrame
<1>6. ASSUME NEW i \in 1..n
      PROVE  RowAt(i) <=> Cardinality(ZonePrior(i)) >= 3 /\ SameHour(i) # {} /\ ZoneLater(i) # {}
  <2>1. FrameRow(frame, i).at = i
    BY DEF FrameRow, RowOf
  <2>2. DOMAIN features = 1..c
    BY <1>3
  <2>3. RowAt(i) <=> Complete(FrameRow(frame, i))
    <3>1. ASSUME RowAt(i)  PROVE i \in Kept(frame)
      BY <1>3, <2>2, <3>1 DEF RowAt
    <3>2. ASSUME i \in Kept(frame)  PROVE RowAt(i)
      <4>1. PICK a \in 1..c : features[a] = FrameRow(frame, i)
        BY <1>3, <3>2
      <4> QED  BY <4>1, <2>1, <2>2 DEF RowAt
    <3> QED  BY <3>1, <3>2, <1>4
  <2> HIDE DEF zone, hour
  <2>4. Complete(RowOf(zone, hour, i)) <=>
          Cardinality(Prior(zone, i)) >= 3 /\ Prior(hour, i) # {} /\ Later(zone, i) # {}
    BY <1>2, RowFacts
  <2>5. FrameRow(frame, i) = RowOf(zone, hour, i)
    BY DEF FrameRow, zone, hour
  <2> QED  BY <2>3, <2>4, <2>5, <1>5
<1>7. ASSUME NEW a \in 1..c
      PROVE  LET r == features[a]
                 prior == ZonePrior(r.at)
             IN  /\ r.at \in 1..n
                 /\ r = FrameRow(frame, r.at) /\ Complete(r)
                 /\ {r.lag1} = Newest(1, prior)
                 /\ {r.lag3} = Newest(3, prior) \ Newest(2, prior)
                 /\ r.mean3 = Newest(3, prior)
                 /\ r.mean6 = Newest(6, prior) /\ r.std6 = Newest(6, prior)
                 /\ r.zoneHour = SameHour(r.at)
                 /\ r.target \in ZoneLater(r.at)
                 /\ \A j \in ZoneLater(r.at) : r.target <= j
  <2> DEFINE r == features[a]
             i == r.at
  <2>1. r = FrameRow(frame, i) /\ i \in Kept(frame)
    BY <1>3
  <2>2. i \in 1..n /\ Complete(r)
    BY <2>1, <1>4
  <2>3. r = RowOf(zone, hour, i)
    BY <2>1 DEF FrameRow
  <2> HIDE DEF r, i, zone, hour
  <2>4. /\ ZonePrior(i) = Prior(zone, i)
        /\ SameHour(i) = Prior(hour, i)
        /\ ZoneLater(i) = Later(zone, i)
    BY <2>2, <1>5
  <2>5. Complete(RowOf(zone, hour, i))
    BY <2>2, <2>3
  <2> DEFINE w == RowOf(zone, hour, i)
             P == Prior(zone, i)
  <2>6. /\ {w.lag1} = Newest(1, P)
        /\ {w.lag3} = Newest(3, P) \ Newest(2, P)
        /\ w.mean3 = Newest(3, P)
        /\ w.mean6 = Newest(6, P) /\ w.std6 = Newest(6, P)
        /\ w.zoneHour = Prior(hour, i)
        /\ w.target \in Later(zone, i)
        /\ \A j \in Later(zone, i) : w.target <= j
    BY <1>2, <2>2, <2>5, RowFacts
  <2>7. w = r
    BY <2>3
  <2> HIDE DEF w, P
  <2>8. ZonePrior(i) = P
    BY <2>4 DEF P
  <2> QED  BY <2>1, <2>2, <2>4, <2>6, <2>7, <2>8 DEF r, i
<1> HIDE DEF c
<1> QED  BY <1>3, <1>6, <1>7 DEF c

(* Whatever the events and their order in the file: a row is built by the
   rules the README gives, and built wherever they can be followed. *)
THEOREM RowsAreByTheRules == OffSpec => []FeaturesFollowTheRules
<1>1. BuiltInv => FeaturesFollowTheRules
  <2> SUFFICES ASSUME BuiltInv, Built  PROVE FeaturesFollowTheRules
    BY DEF FeaturesFollowTheRules
  <2>1. FromFrame
    BY DEF BuiltInv, Built
  <2>2. PICK n \in Nat : Timeline(frame, n)
    BY <2>1 DEF FromFrame
  <2>3. features = BuildOffline(frame)
    BY <2>1 DEF FromFrame
  <2>4. DOMAIN frame = 1..n
    BY <2>2, TimelineFacts
  <2> DEFINE c == Cardinality(Kept(frame))
  <2>5. c \in Nat /\ features = [a \in 1..c |-> features[a]]
    BY <2>2, <2>3, RowsFollowTheRules
  <2>6. DOMAIN features = 1..c
    BY <2>5
  <2>7. \A i \in 1..n : RowAt(i) <=>
          Cardinality(ZonePrior(i)) >= 3 /\ SameHour(i) # {} /\ ZoneLater(i) # {}
    BY <2>2, <2>3, RowsFollowTheRules
  <2>8. \A a \in 1..c :
          LET r == features[a]
              prior == ZonePrior(r.at)
          IN  /\ {r.lag1} = Newest(1, prior)
              /\ {r.lag3} = Newest(3, prior) \ Newest(2, prior)
              /\ r.mean3 = Newest(3, prior)
              /\ r.mean6 = Newest(6, prior) /\ r.std6 = Newest(6, prior)
              /\ r.zoneHour = SameHour(r.at)
              /\ r.target \in ZoneLater(r.at)
              /\ \A j \in ZoneLater(r.at) : r.target <= j
    BY <2>2, <2>3, RowsFollowTheRules
  <2> HIDE DEF c
  <2> QED  BY <2>4, <2>6, <2>7, <2>8, Zenon DEF FeaturesFollowTheRules
<1> QED  BY <1>1, AlwaysBuilt, PTL

-----------------------------------------------------------------------------
(* Rows do not depend on what comes after their target *)

(* Cut off after row m, a grouping ranks and collects the rows up to m as
   before. *)
LEMMA CutGroups ==
  ASSUME NEW key, NEW m \in Nat, NEW cut,
         \A j \in 1..m : cut[j] = key[j],
         NEW i \in 1..m
  PROVE  Rank(cut, i) = Rank(key, i) /\ Prior(cut, i) = Prior(key, i)
<1>1. \A x \in 1..i : x \in 1..m
  OBVIOUS
<1>2. {x \in 1..i : cut[x] = cut[i]} = {x \in 1..i : key[x] = key[i]}
  BY <1>1
<1>3. Rank(cut, i) = Rank(key, i)
  BY <1>2 DEF Rank
<1>4. \A x \in 1..(i - 1) : x \in 1..m
  OBVIOUS
<1>5. Prior(cut, i) = Prior(key, i)
  BY <1>4 DEF Prior
<1> QED  BY <1>3, <1>5

LEMMA CutShift ==
  ASSUME NEW n \in Nat, NEW key, DOMAIN key = 1..n,
         NEW m \in 1..n, NEW cut, DOMAIN cut = 1..m, Len(cut) = m,
         \A j \in 1..m : cut[j] = key[j],
         NEW i \in 1..m, NEW k \in Int, Shift(key, k, i) \in 1..m
  PROVE  Shift(cut, k, i) = Shift(key, k, i)
<1> DEFINE x == Shift(key, k, i)
<1>1. x # NaN /\ i \in 1..n /\ m \in Nat
  BY DEF NaN
<1>2. key[x] = key[i] /\ Rank(key, x) = Rank(key, i) - k
  BY <1>1, ShiftFacts
<1>3. x \in 1..m
  OBVIOUS
<1> HIDE DEF x
<1>4. cut[x] = cut[i]
  BY <1>2, <1>3
<1>5. Rank(cut, x) = Rank(key, x) /\ Rank(cut, i) = Rank(key, i)
  BY <1>1, <1>3, CutGroups
<1>6. Rank(cut, x) = Rank(cut, i) - k
  BY <1>2, <1>5
<1>7. Shift(cut, k, i) = x
  BY <1>1, <1>3, <1>4, <1>6, ShiftFinds
<1> QED  BY <1>7 DEF x

LEMMA CutRow ==
  ASSUME NEW n \in Nat, NEW f, DOMAIN f = 1..n, NEW m \in 1..n,
         NEW g, DOMAIN g = 1..m, \A j \in 1..m : g[j] = f[j],
         NEW i \in Kept(f), FrameRow(f, i).target <= m
  PROVE  i \in Kept(g) /\ FrameRow(g, i) = FrameRow(f, i)
<1> DEFINE z == ZoneKey(f)
           h == ZoneHourKey(f)
           y == ZoneKey(g)
           u == ZoneHourKey(g)
           r == RowOf(z, h, i)
<1>1. m \in Nat
  OBVIOUS
<1>2. /\ DOMAIN z = 1..n /\ Len(z) = n /\ DOMAIN h = 1..n /\ Len(h) = n
      /\ DOMAIN y = 1..m /\ Len(y) = m /\ DOMAIN u = 1..m /\ Len(u) = m
  BY <1>1, KeyFacts
<1>3. \A j \in 1..m : j \in 1..n
  OBVIOUS
<1>4. (\A j \in 1..m : y[j] = z[j]) /\ (\A j \in 1..m : u[j] = h[j])
  BY <1>3 DEF ZoneKey, ZoneHourKey
<1>5. i \in 1..n /\ Complete(r) /\ r.target <= m
  BY DEF Kept, FrameRow
<1> HIDE DEF z, h, y, u
<1>6. r.target \in Later(z, i)
  <2>1. Complete(r) => LET w == r IN w.target \in Later(z, i)
    BY <1>2, <1>5, RowFacts
  <2> QED  BY <2>1, <1>5
<1>7. r.target = Shift(z, -1, i) /\ r.lag1 = Shift(z, 1, i) /\ r.lag3 = Shift(z, 3, i)
  BY DEF RowOf
<1>8. r.lag1 # NaN /\ r.lag3 # NaN
  BY <1>5 DEF Complete
<1>9. i \in 1..m /\ Shift(z, -1, i) \in 1..m
  <2> DEFINE t == Shift(z, -1, i)
  <2>1. t \in (i + 1)..n /\ t <= m
    BY <1>2, <1>5, <1>6, <1>7 DEF Later
  <2> HIDE DEF t
  <2>2. i \in 1..m /\ t \in 1..m
    BY <2>1, <1>5
  <2> QED  BY <2>2 DEF t
<1>10. ASSUME NEW k \in {1, 3}, Shift(z, k, i) # NaN  PROVE Shift(z, k, i) \in 1..m
  <2> DEFINE x == Shift(z, k, i)
  <2>1. k \in Nat /\ k >= 1
    OBVIOUS
  <2>2. {x} = {j \in Prior(z, i) : Rank(z, i) - Rank(z, j) = k}
    BY <1>2, <1>5, <1>10, <2>1, LagFacts
  <2> HIDE DEF x
  <2>3. x \in Prior(z, i)
    BY <2>2
  <2>4. x \in 1..m
    BY <2>3, <1>9 DEF Prior
  <2> QED  BY <2>4 DEF x
<1>11. /\ Shift(y, 1, i) = Shift(z, 1, i)
       /\ Shift(y, 3, i) = Shift(z, 3, i)
       /\ Shift(y, -1, i) = Shift(z, -1, i)
  <2>1. Shift(z, 1, i) \in 1..m /\ Shift(z, 3, i) \in 1..m
    BY <1>7, <1>8, <1>10
  <2>2. -1 \in Int /\ 1 \in Int /\ 3 \in Int
    OBVIOUS
  <2>3. Shift(y, 1, i) = Shift(z, 1, i)
    BY <1>2, <1>4, <1>9, <2>1, CutShift
  <2>4. Shift(y, 3, i) = Shift(z, 3, i)
    BY <1>2, <1>4, <1>9, <2>1, CutShift
  <2>5. Shift(y, -1, i) = Shift(z, -1, i)
    BY <1>2, <1>4, <1>9, <2>2, CutShift
  <2> QED  BY <2>3, <2>4, <2>5
<1>12. ASSUME NEW w  PROVE Recent(y, w, i) = Recent(z, w, i)
  <2>1. \A j \in 1..m : Rank(y, j) = Rank(z, j)
    BY <1>1, <1>4, CutGroups
  <2>2. Prior(y, i) = Prior(z, i)
    BY <1>1, <1>4, <1>9, CutGroups
  <2>3. \A j \in Prior(z, i) : j \in 1..m
    BY <1>9 DEF Prior
  <2> QED  BY <1>9, <2>1, <2>2, <2>3 DEF Recent
<1>13. Prior(u, i) = Prior(h, i)
  BY <1>1, <1>4, <1>9, CutGroups
<1>14. ASSUME NEW w \in Nat, NEW least
       PROVE  Rolling(y, w, least, i) = Rolling(z, w, least, i)
  <2>1. Rolling(y, w, least, i) =
          IF Cardinality(Recent(y, w, i)) < least THEN {} ELSE Recent(y, w, i)
    BY <1>1, <1>2, <1>9, RollingIsRecent
  <2>2. Rolling(z, w, least, i) =
          IF Cardinality(Recent(z, w, i)) < least THEN {} ELSE Recent(z, w, i)
    BY <1>2, <1>5, RollingIsRecent
  <2>3. Recent(y, w, i) = Recent(z, w, i)
    BY <1>12
  <2> QED  BY <2>1, <2>2, <2>3, Zenon
<1>15. Expanding(u, i) = Expanding(h, i)
  BY <1>1, <1>2, <1>5, <1>9, <1>13, ExpandingIsPrior
<1>16. RowOf(y, u, i) = r
  <2>1. /\ Rolling(y, 3, 1, i) = Rolling(z, 3, 1, i)
        /\ Rolling(y, 6, 1, i) = Rolling(z, 6, 1, i)
        /\ Rolling(y, 6, 2, i) = Rolling(z, 6, 2, i)
    BY <1>14
  <2> QED  BY <2>1, <1>11, <1>15, Zenon DEF RowOf
<1>17. FrameRow(g, i) = FrameRow(f, i)
  BY <1>16 DEF FrameRow, y, u, z, h
<1>18. i \in DOMAIN g /\ Complete(FrameRow(g, i))
  BY <1>5, <1>9, <1>17 DEF FrameRow, z, h
<1> QED  BY <1>17, <1>18 DEF Kept

(* Whatever the events: what is built of those up to a row's target already
   has that row, the same. *)
THEOREM RowsArePointInTime == OffSpec => []LaterEventsChangeNothing
<1>1. BuiltInv => LaterEventsChangeNothing
  <2> SUFFICES ASSUME BuiltInv, Built, NEW m \in DOMAIN frame,
                      NEW a \in DOMAIN features, features[a].target <= m
               PROVE  features[a] \in ToSet(BuildOffline(SubSeq(frame, 1, m)))
    BY DEF LaterEventsChangeNothing
  <2>1. FromFrame
    BY DEF BuiltInv, Built
  <2>2. PICK n \in Nat : Timeline(frame, n)
    BY <2>1 DEF FromFrame
  <2>3. features = BuildOffline(frame)
    BY <2>1 DEF FromFrame
  <2>4. DOMAIN frame = 1..n /\ Len(frame) = n /\ frame \in Seq(Event)
    BY <2>2, TimelineFacts
  <2>5. m \in 1..n
    BY <2>4
  <2> DEFINE g == SubSeq(frame, 1, m)
             c == Cardinality(Kept(frame))
             d == Cardinality(Kept(g))
             i == features[a].at
  <2>6. DOMAIN g = 1..m /\ \A j \in 1..m : g[j] = frame[j]
    <3>1. g = [j \in 1..m |-> frame[j]]
      BY <2>4, <2>5
    <3> QED  BY <3>1
  <2>7. i \in Kept(frame) /\ features[a] = FrameRow(frame, i)
    <3>1. /\ features = [x \in 1..c |-> features[x]]
          /\ \A x \in 1..c : /\ features[x].at \in Kept(frame)
                             /\ features[x] = FrameRow(frame, features[x].at)
      BY <2>3, <2>4, BuildFacts
    <3>2. a \in 1..c
      BY <3>1
    <3> QED  BY <3>1, <3>2
  <2>8. FrameRow(frame, i).target <= m
    BY <2>7
  <2> HIDE DEF g, i
  <2>9. i \in Kept(g) /\ FrameRow(g, i) = FrameRow(frame, i)
    BY <2>4, <2>5, <2>6, <2>7, <2>8, CutRow
  <2>10. /\ BuildOffline(g) = [x \in 1..d |-> BuildOffline(g)[x]]
         /\ \A j \in Kept(g) : \E x \in 1..d : BuildOffline(g)[x] = FrameRow(g, j)
    <3>1. m \in Nat
      BY <2>5
    <3> QED  BY <3>1, <2>6, BuildFacts
  <2>11. PICK x \in 1..d : BuildOffline(g)[x] = FrameRow(g, i)
    BY <2>9, <2>10
  <2>12. x \in DOMAIN BuildOffline(g)
    BY <2>10, <2>11
  <2>13. features[a] = BuildOffline(g)[x]
    BY <2>7, <2>9, <2>11
  <2>14. features[a] \in ToSet(BuildOffline(g))
    BY <2>12, <2>13 DEF ToSet
  <2> QED  BY <2>14 DEF g
<1> QED  BY <1>1, AlwaysBuilt, PTL

-----------------------------------------------------------------------------
(* The splits *)

(* Two neighbouring stretches make one. *)
LEMMA JoinedStretches ==
  ASSUME NEW s, NEW x \in Nat, NEW y \in Nat, x <= y
  PROVE  [k \in 1..x |-> s[k]] \o [k \in 1..(y - x) |-> s[x + k]] = [k \in 1..y |-> s[k]]
<1> DEFINE a == [k \in 1..x |-> s[k]]
           b == [k \in 1..(y - x) |-> s[x + k]]
<1>1. Len(a) = x /\ Len(b) = y - x
  <2>1. y - x \in Nat
    OBVIOUS
  <2>2. a = [k \in 1..x |-> a[k]] /\ b = [k \in 1..(y - x) |-> b[k]]
    OBVIOUS
  <2> HIDE DEF a, b
  <2> QED  BY <2>1, <2>2, LengthIs
<1>2. a \o b = [k \in 1..(Len(a) + Len(b)) |-> IF k <= Len(a) THEN a[k] ELSE b[k - Len(a)]]
  OBVIOUS
<1>3. Len(a) + Len(b) = y
  <2> HIDE DEF a, b
  <2> QED  BY <1>1
<1>4. ASSUME NEW k \in 1..y
      PROVE  (IF k <= x THEN a[k] ELSE b[k - x]) = s[k]
  <2>1. CASE k <= x
    <3>1. k \in 1..x
      BY <2>1
    <3> QED  BY <2>1, <3>1
  <2>2. CASE ~(k <= x)
    <3>1. k - x \in 1..(y - x) /\ x + (k - x) = k
      BY <2>2
    <3>2. b[k - x] = s[x + (k - x)]
      BY <3>1
    <3> HIDE DEF a, b
    <3> QED  BY <2>2, <3>1, <3>2
  <2> HIDE DEF a, b
  <2> QED  BY <2>1, <2>2
<1> HIDE DEF a, b
<1>5. a \o b = [k \in 1..y |-> IF k <= x THEN a[k] ELSE b[k - x]]
  BY <1>1, <1>2, <1>3
<1>6. a \o b = [k \in 1..y |-> s[k]]
  BY <1>4, <1>5
<1> QED  BY <1>6 DEF a, b

(* The splits cut the rows in two places, none at an end. *)
LEMMA SplitFacts ==
  ASSUME BuiltInv, splits # None
  PROVE  /\ features = BuildOffline(frame)
         /\ \E n \in Nat : Timeline(frame, n)
         /\ \E c \in Nat, x \in Nat, y \in Nat :
              /\ c = Cardinality(Kept(frame))
              /\ features = [a \in 1..c |-> features[a]]
              /\ 1 <= x /\ x < y /\ y < c
              /\ splits.train = [k \in 1..x |-> features[k]]
              /\ splits.validation = [k \in 1..(y - x) |-> features[x + k]]
              /\ splits.test = [k \in 1..(c - y) |-> features[y + k]]
<1>1. FromFrame /\ Len(features) >= 3
  BY DEF BuiltInv
<1>2. PICK n \in Nat : Timeline(frame, n)
  BY <1>1 DEF FromFrame
<1>3. features = BuildOffline(frame)
  BY <1>1 DEF FromFrame
<1>4. PICK p \in Fractions : \E count \in SplitCounts(Len(features), p) :
         splits = Split(features, count)
  BY DEF BuiltInv
<1>5. PICK count \in SplitCounts(Len(features), p) : splits = Split(features, count)
  BY <1>4
<1> DEFINE c == Cardinality(Kept(frame))
<1>6. DOMAIN frame = 1..n
  BY <1>2, TimelineFacts
<1>7. c \in Nat /\ features = [a \in 1..c |-> features[a]]
  BY <1>3, <1>6, BuildFacts
<1> HIDE DEF c
<1>8. Len(features) = c
  BY <1>7, LengthIs
<1>9. p \in [train : Int, validation : Int]
  BY OptionsAssumption
<1>10. c >= 3 /\ count \in SplitCounts(c, p)
  BY <1>1, <1>5, <1>8
<1>11. /\ count \in [train : Nat, validation : Nat]
       /\ count.train >= 1 /\ count.validation >= 1
       /\ count.train + count.validation < c
  BY <1>7, <1>9, <1>10, NoSplitIsEmpty
<1>12. PICK x \in Nat, y \in Nat : x = count.train /\ y = count.train + count.validation
  BY <1>11
<1>13. 1 <= x /\ x < y /\ y < c
  BY <1>7, <1>11, <1>12
<1>14. /\ splits.train = [k \in 1..x |-> features[k]]
       /\ splits.validation = [k \in 1..(y - x) |-> features[x + k]]
       /\ splits.test = [k \in 1..(c - y) |-> features[y + k]]
  <2> DEFINE T == {features[k] : k \in 1..c}
  <2>1. features \in Seq(T)
    BY <1>7, LengthIs
  <2>2. /\ splits.train = SubSeq(features, 1, x)
        /\ splits.validation = SubSeq(features, x + 1, y)
        /\ splits.test = SubSeq(features, y + 1, c)
    BY <1>5, <1>8, <1>12 DEF Split
  <2> HIDE DEF T
  <2>3. SubSeq(features, 1, x) = [k \in 1..x |-> features[k]]
    BY <1>7, <1>8, <1>13, <2>1
  <2>4. SubSeq(features, x + 1, y) = [k \in 1..(y - x) |-> features[x + k]]
    BY <1>7, <1>8, <1>13, <2>1
  <2>5. SubSeq(features, y + 1, c) = [k \in 1..(c - y) |-> features[y + k]]
    BY <1>7, <1>8, <1>13, <2>1
  <2> QED  BY <2>2, <2>3, <2>4, <2>5
<1>15. \E u \in Nat, v \in Nat, w \in Nat :
         /\ u = Cardinality(Kept(frame))
         /\ features = [a \in 1..u |-> features[a]]
         /\ 1 <= v /\ v < w /\ w < u
         /\ splits.train = [k \in 1..v |-> features[k]]
         /\ splits.validation = [k \in 1..(w - v) |-> features[v + k]]
         /\ splits.test = [k \in 1..(u - w) |-> features[w + k]]
  <2>1. c = Cardinality(Kept(frame))
    BY DEF c
  <2> USE <1>7
  <2> WITNESS c \in Nat, x \in Nat, y \in Nat
  <2> QED  BY <2>1, <1>13, <1>14
<1> QED  BY <1>2, <1>3, <1>15

(* Whatever the events and the fractions: no split is empty, and together they
   are the rows in the order of time. *)
THEOREM SplitsAreWhole == OffSpec => []SplitsAreUsable
<1>1. BuiltInv => SplitsAreUsable
  <2> SUFFICES ASSUME BuiltInv, splits # None  PROVE SplitsAreUsable
    BY DEF SplitsAreUsable
  <2>1. features = BuildOffline(frame)
    BY SplitFacts
  <2>2. PICK n \in Nat : Timeline(frame, n)
    BY SplitFacts
  <2>3. PICK c \in Nat, x \in Nat, y \in Nat :
          /\ c = Cardinality(Kept(frame))
          /\ features = [a \in 1..c |-> features[a]]
          /\ 1 <= x /\ x < y /\ y < c
          /\ splits.train = [k \in 1..x |-> features[k]]
          /\ splits.validation = [k \in 1..(y - x) |-> features[x + k]]
          /\ splits.test = [k \in 1..(c - y) |-> features[y + k]]
    BY SplitFacts
  <2>4. << >> \notin {splits.train, splits.validation, splits.test}
    <3>1. 1 \in 1..x /\ 1 \in 1..(y - x) /\ 1 \in 1..(c - y)
      BY <2>3
    <3>2. /\ DOMAIN splits.train = 1..x
          /\ DOMAIN splits.validation = 1..(y - x)
          /\ DOMAIN splits.test = 1..(c - y)
      BY <2>3
    <3>3. 1 \in DOMAIN splits.train /\ 1 \in DOMAIN splits.validation /\ 1 \in DOMAIN splits.test
      BY <3>1, <3>2
    <3>4. 1 \notin DOMAIN << >>
      OBVIOUS
    <3> QED  BY <3>3, <3>4
  <2>5. splits.train \o splits.validation \o splits.test = features
    <3>1. splits.train \o splits.validation = [k \in 1..y |-> features[k]]
      BY <2>3, JoinedStretches
    <3>2. [k \in 1..y |-> features[k]] \o splits.test = [k \in 1..c |-> features[k]]
      BY <2>3, JoinedStretches
    <3> QED  BY <2>3, <3>1, <3>2
  <2>6. ASSUME NEW a \in DOMAIN features, NEW b \in DOMAIN features, a < b
        PROVE  frame[features[a].at].minute <= frame[features[b].at].minute
    <3>1. a \in 1..c /\ b \in 1..c
      BY <2>3
    <3> DEFINE i == features[a].at
               j == features[b].at
    <3>2. i \in 1..n /\ j \in 1..n /\ i < j
      BY <2>1, <2>2, <2>3, <2>6, <3>1, RowsFollowTheRules
    <3> QED  BY <2>2, <3>2 DEF Timeline
  <2>7. \A a, b \in DOMAIN features :
          a < b => frame[features[a].at].minute <= frame[features[b].at].minute
    BY <2>6
  <2> QED  BY <2>4, <2>5, <2>7 DEF SplitsAreUsable
<1> QED  BY <1>1, AlwaysBuilt, PTL

(* Whatever the events and the fractions: a row trained on is computed from
   events before every row held out, and its label is at most the first event
   of its zone among those. *)
THEOREM TrainingSeesOnlyThePast == OffSpec => []TrainingKnowsNothingHeldOut
<1>1. BuiltInv => TrainingKnowsNothingHeldOut
  <2> SUFFICES ASSUME BuiltInv, splits # None,
                      NEW a \in DOMAIN splits.train,
                      NEW held \in {splits.validation, splits.test}, NEW b \in DOMAIN held
               PROVE  LET r == splits.train[a]
                      IN  /\ \A j \in Inputs(r) : frame[j].minute < frame[held[b].at].minute
                          /\ frame[held[b].at].zone = frame[r.at].zone =>
                               r.target <= held[b].at
    BY DEF TrainingKnowsNothingHeldOut
  <2>1. features = BuildOffline(frame)
    BY SplitFacts
  <2>2. PICK n \in Nat : Timeline(frame, n)
    BY SplitFacts
  <2>3. PICK c \in Nat, x \in Nat, y \in Nat :
          /\ c = Cardinality(Kept(frame))
          /\ features = [k \in 1..c |-> features[k]]
          /\ 1 <= x /\ x < y /\ y < c
          /\ splits.train = [k \in 1..x |-> features[k]]
          /\ splits.validation = [k \in 1..(y - x) |-> features[x + k]]
          /\ splits.test = [k \in 1..(c - y) |-> features[y + k]]
    BY SplitFacts
  <2>4. a \in 1..c /\ a <= x /\ splits.train[a] = features[a]
    <3>1. a \in 1..x
      BY <2>3
    <3> QED  BY <2>3, <3>1
  <2>5. PICK q \in 1..c : a < q /\ held[b] = features[q]
    <3>1. CASE held = splits.validation
      <4>1. b \in 1..(y - x) /\ held[b] = features[x + b]
        BY <2>3, <3>1
      <4>2. x + b \in 1..c /\ a < x + b
        BY <2>3, <2>4, <4>1
      <4> QED  BY <4>1, <4>2
    <3>2. CASE held = splits.test
      <4>1. b \in 1..(c - y) /\ held[b] = features[y + b]
        BY <2>3, <3>2
      <4>2. y + b \in 1..c /\ a < y + b
        BY <2>3, <2>4, <4>1
      <4> QED  BY <4>1, <4>2
    <3> QED  BY <3>1, <3>2
  <2> DEFINE r == features[a]
             i == r.at
             h == features[q].at
             P == ZonePrior(i)
  <2>6. i \in 1..n /\ h \in 1..n /\ i < h
    BY <2>1, <2>2, <2>3, <2>4, <2>5, RowsFollowTheRules
  <2>7. /\ {r.lag1} = Newest(1, P)
        /\ {r.lag3} = Newest(3, P) \ Newest(2, P)
        /\ r.mean3 = Newest(3, P)
        /\ r.mean6 = Newest(6, P) /\ r.std6 = Newest(6, P)
        /\ r.zoneHour = SameHour(i)
        /\ \A j \in ZoneLater(i) : r.target <= j
    BY <2>1, <2>2, <2>3, <2>4, RowsFollowTheRules
  <2> HIDE DEF r, i, h
  <2>8. Inputs(r) \subseteq P
    <3>1. \A k : Newest(k, P) \subseteq P
      BY DEF Newest
    <3>2. SameHour(i) \subseteq P
      BY DEF SameHour
    <3> HIDE DEF P
    <3>3. r.lag1 \in P /\ r.lag3 \in P
      BY <2>7, <3>1
    <3>4. r.mean3 \subseteq P /\ r.mean6 \subseteq P /\ r.std6 \subseteq P /\ r.zoneHour \subseteq P
      BY <2>7, <3>1, <3>2
    <3> QED  BY <3>3, <3>4 DEF Inputs
  <2>9. ASSUME NEW j \in Inputs(r)  PROVE frame[j].minute < frame[h].minute
    <3>1. j \in 1..(i - 1) /\ frame[j].zone = frame[i].zone
      BY <2>8 DEF ZonePrior
    <3>2. j \in 1..n /\ j < i
      BY <2>6, <3>1
    <3>3. frame[j].minute < frame[i].minute
      BY <2>2, <2>6, <3>1, <3>2 DEF Timeline
    <3>4. frame[i].minute <= frame[h].minute
      BY <2>2, <2>6 DEF Timeline
    <3>5. frame[j].minute \in Nat /\ frame[i].minute \in Nat /\ frame[h].minute \in Nat
      BY <2>2, <2>6, <3>2, TimelineFacts
    <3> QED  BY <3>3, <3>4, <3>5
  <2>10. ASSUME frame[h].zone = frame[i].zone  PROVE r.target <= h
    <3>1. Len(frame) = n
      BY <2>2, TimelineFacts
    <3>2. h \in (i + 1)..n
      BY <2>6
    <3>3. h \in ZoneLater(i)
      BY <2>10, <3>1, <3>2 DEF ZoneLater
    <3> QED  BY <2>7, <3>3
  <2>11. splits.train[a] = r /\ held[b].at = h /\ r.at = i
    BY <2>4, <2>5 DEF r, h, i
  <2> QED  BY <2>9, <2>10, <2>11
<1> QED  BY <1>1, AlwaysBuilt, PTL
=============================================================================
