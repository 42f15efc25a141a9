--------------------------- MODULE FlightLoopProofs ---------------------------
(***************************************************************************)
(* For any number of blending fractions, cycles to the ground, speeds and  *)
(* elevations: the variables of the flight loop keep their types, blending *)
(* settles on either side, also across resets that race with a record,     *)
(* the terrain elevation is a recent one, and what is injected lies        *)
(* between PSX's elevation and the terrain's.                              *)
(***************************************************************************)
EXTENDS FlightLoop, TLAPS

\* What Min and Max choose of two.
LEMMA MinOfTwo ==
    ASSUME NEW m \in Int, NEW n \in Int
    PROVE  Min({m, n}) = IF m <= n THEN m ELSE n
<1> DEFINE least == IF m <= n THEN m ELSE n
           L(x) == x \in {m, n} /\ \A y \in {m, n} : x <= y
<1>1. L(least) /\ \A x : L(x) => x = least
  OBVIOUS
<1>2. Min({m, n}) = CHOOSE x : L(x)
  BY Zenon DEF Min
<1> HIDE DEF L, least
<1>3. L(CHOOSE x : L(x))
  BY <1>1
<1>4. Min({m, n}) = least
  BY <1>1, <1>2, <1>3
<1> QED BY <1>4 DEF least

LEMMA MaxOfTwo ==
    ASSUME NEW m \in Int, NEW n \in Int
    PROVE  Max({m, n}) = IF m <= n THEN n ELSE m
<1> DEFINE greatest == IF m <= n THEN n ELSE m
           G(x) == x \in {m, n} /\ \A y \in {m, n} : x >= y
<1>1. G(greatest) /\ \A x : G(x) => x = greatest
  OBVIOUS
<1>2. Max({m, n}) = CHOOSE x : G(x)
  BY Zenon DEF Max
<1> HIDE DEF G, greatest
<1>3. G(CHOOSE x : G(x))
  BY <1>1
<1>4. Max({m, n}) = greatest
  BY <1>1, <1>2, <1>3
<1> QED BY <1>4 DEF greatest

LEMMA CappedIs ==
    ASSUME NEW n \in Nat, NEW max \in Nat
    PROVE  Capped(n, max) = IF n <= max THEN n ELSE max
BY MinOfTwo DEF Capped

\* Factors order products.
LEMMA ProductOrder ==
    ASSUME NEW a \in Int, NEW b \in Int, NEW d \in Nat, a <= b
    PROVE  a * d \in Int /\ b * d \in Int /\ a * d <= b * d
<1> DEFINE c == b - a
<1>1. c \in Nat /\ b = a + c
  OBVIOUS
<1> HIDE DEF c
<1>2. c * d \in Nat /\ (a + c) * d = a * d + c * d /\ a * d \in Int
  BY <1>1
<1> QED BY <1>1, <1>2

\* A quotient lies between the factors its dividend lies between the products of.
LEMMA QuotientBetween ==
    ASSUME NEW d \in Nat \ {0}, NEW x \in Int, NEW lo \in Int, NEW hi \in Int,
           lo * d <= x, x <= hi * d
    PROVE  x \div d \in lo .. hi
<1> DEFINE q == x \div d
<1>1. q \in Int /\ d * q <= x /\ x < d * q + d /\ d * q \in Int
  OBVIOUS
<1> HIDE DEF q
<1>2. lo * d \in Int /\ hi * d \in Int
  OBVIOUS
<1>3. d * q = q * d /\ (q + 1) * d = q * d + d
  BY <1>1
<1>4. lo <= q
  <2> SUFFICES ASSUME q + 1 <= lo
               PROVE  FALSE
    BY <1>1
  <2>1. (q + 1) * d <= lo * d
    BY <1>1, ProductOrder
  <2> QED BY <1>1, <1>2, <1>3, <2>1
<1>5. q <= hi
  <2> SUFFICES ASSUME hi + 1 <= q
               PROVE  FALSE
    BY <1>1
  <2>1. (hi + 1) * d <= q * d /\ (hi + 1) * d = hi * d + d
    BY <1>1, ProductOrder
  <2> QED BY <1>1, <1>2, <1>3, <2>1
<1>6. q \in lo .. hi
  BY <1>1, <1>4, <1>5
<1> QED BY <1>6 DEF q

-----------------------------------------------------------------------------
Successor(i) == IF i = N - 1 THEN 0 ELSE i + 1

\* Where the next fraction of the ring goes, once a recorded one is counted.
From ==
    CASE main = "count" -> Successor(next_raw_elevation_blending_fractions_index)
      [] main = "advance" -> Successor(index)
      [] OTHER -> next_raw_elevation_blending_fractions_index

\* How many fractions are recorded from there before slot s has its turn.
Ahead(from, s) == IF s >= from THEN s - from ELSE s - from + N

\* Slot s does not tell that there is ground, or that there is not only ground.
Airborne(s) == raw_elevation_blending_fractions[s] \in {0, NAN}
Grounded(s) == raw_elevation_blending_fractions[s] \in {UNIT, NAN}

\* Consecutive cycles with contact take the counter to its maximum, those without to 0.
ContactCounted ==
    IF contact.in THEN contact.cycles <= ground_contact_cycles
    ELSE ground_contact_cycles <= MAX_GROUND_CONTACT_CYCLES - contact.cycles

\* The speed that the low speed fraction is of is still the one when that is recorded.
SpeedTaken == main = "record" => low_speed_fraction = LowSpeedFraction(calculated_ground_speed)

Recorded == main \notin {"evaluate", "record"}

\* What is not from the airborne frames recorded last is overwritten before there are N,
\* and cleared by a reset: only a cycle that is already past its snapshot records during
\* one, and if it records ground, there are no such frames.
AirborneRecorded ==
    /\ \A s \in Slots : Airborne(s) \/ Ahead(From, s) < N - settled.air
    /\ \/ clearing = NotClearing
       \/ settled.air = 0 /\ Recorded
       \/ \A s \in Slots : s < clearing => Airborne(s)

\* Likewise for the frames on the ground, of which the latest is still there.  If there
\* were no others since a reset began, they are all there is as far as it cleared.
GroundRecorded ==
    /\ \A s \in Slots : Grounded(s) \/ Ahead(From, s) < N - settled.ground
    /\ \/ clearing = NotClearing
       \/ settled.ground = 0 /\ Recorded
       \/ \A s \in Slots : s < clearing => Grounded(s)
    /\ settled.ground > 0 => \E s \in Slots : raw_elevation_blending_fractions[s] = UNIT
    /\ settled.pure => \A s \in Slots : (clearing # NotClearing => s < clearing) => Grounded(s)

\* The index moves between its read and the record only if all slots were cleared.
ReadBeforeReset ==
    main = "record" /\ index # next_raw_elevation_blending_fractions_index
    => \A s \in Slots : raw_elevation_blending_fractions[s] = NAN

\* The average of the slots so far is as settled as the frames are; if a slot is cleared
\* meanwhile, there are no frames on the ground.
AverageSettles ==
    main \in {"average", "inject"} =>
        /\ settled.air = N => average.sum = 0
        /\ (\/ settled.ground = N
            \/ settled.pure /\ settled.ground > 0 /\ clearing \notin Slots)
           => average.sum = UNIT * average.count
        /\ settled.ground > 0 =>
             \/ average.count > 0
             \/ /\ main = "average"
                /\ \E s \in Slots : s >= index /\ raw_elevation_blending_fractions[s] = UNIT

\* The latest average is that of the ring until more is recorded; locals start over.
Averaged ==
    /\ main \in {"idle", "evaluate", "record"} => AirborneUnadjusted /\ GroundPinned
    /\ main \notin {"average", "inject"} => average = None
    /\ main \in {"idle", "evaluate", "inject"} => index = 0

\* Cycles since the terrain was probed and those its elevation is still good for.
TerrainExpires ==
    terrain_elevation_meters # NAN =>
        /\ terrain_elevation_remaining_cycles >= 0
        /\ probed_ago <= TERRAIN_ELEVATION_MAX_AGE_CYCLES - terrain_elevation_remaining_cycles

IInv == TypeOK /\ ContactCounted /\ SpeedTaken /\ AirborneRecorded /\ GroundRecorded
        /\ ReadBeforeReset /\ AverageSettles /\ Averaged /\ TerrainExpires

-----------------------------------------------------------------------------
\* An elevation that is there before any frame.
LEMMA NoFrameIs == NoFrame \in Frame
<1>1. PICK least \in Elevations : \A e \in Elevations : least <= e
  BY FlightLoopAssumption
<1>2. Min(Elevations) \in Elevations
  BY <1>1 DEF Min
<1> QED BY <1>2 DEF NoFrame, Frame

\* Firm up to one speed, airborne from another, in between something in between.
LEMMA LowSpeedFractionIs ==
    ASSUME NEW speed \in Nat
    PROVE  /\ LowSpeedFraction(speed) \in Fraction
           /\ speed <= firm_ground_speed => LowSpeedFraction(speed) = UNIT
<1>1. UNIT \in Nat \ {0} /\ firm_ground_speed \in Nat /\ lift_ground_speed \in Nat
  BY FlightLoopAssumption
<1>2. CASE speed <= firm_ground_speed
  BY <1>1, <1>2 DEF LowSpeedFraction, Fraction
<1>3. CASE speed >= lift_ground_speed /\ ~(speed <= firm_ground_speed)
  BY <1>1, <1>3 DEF LowSpeedFraction, Fraction
<1>4. CASE ~(speed >= lift_ground_speed) /\ ~(speed <= firm_ground_speed)
  <2> DEFINE a == speed - firm_ground_speed
             d == lift_ground_speed - firm_ground_speed
             x == a * UNIT
             q == x \div d
  <2>1. a \in Nat /\ d \in Nat \ {0} /\ a <= d
    BY <1>1, <1>4
  <2>2. x \in Int /\ 0 * d <= x /\ x <= UNIT * d
    <3> HIDE DEF a, d
    <3>1. a * UNIT \in Nat /\ a * UNIT <= d * UNIT /\ d * UNIT = UNIT * d
      BY <1>1, <2>1, ProductOrder
    <3> QED BY <2>1, <3>1
  <2>3. q \in 0 .. UNIT
    <3> HIDE DEF x, d
    <3> QED BY <1>1, <2>1, <2>2, QuotientBetween
  <2>4. LowSpeedFraction(speed) = UNIT - q
    BY <1>4 DEF LowSpeedFraction
  <2> HIDE DEF q
  <2> QED BY <1>1, <1>4, <2>3, <2>4 DEF Fraction
<1> QED BY <1>2, <1>3, <1>4

\* A count of cycles as share of the maximum.
LEMMA ContactShare ==
    ASSUME NEW cycles \in 0 .. MAX_GROUND_CONTACT_CYCLES
    PROVE  LET share == (cycles * UNIT) \div MAX_GROUND_CONTACT_CYCLES
           IN  /\ share \in Fraction
               /\ cycles = 0 => share = 0
               /\ cycles = MAX_GROUND_CONTACT_CYCLES => share = UNIT
<1> DEFINE max == MAX_GROUND_CONTACT_CYCLES
           x == cycles * UNIT
           share == x \div max
<1>1. UNIT \in Nat \ {0} /\ max \in Nat \ {0} /\ cycles \in Nat /\ cycles <= max
  BY FlightLoopAssumption
<1> HIDE DEF max
<1>2. x \in Nat /\ 0 * max <= x /\ x <= UNIT * max
  <2>1. cycles * UNIT \in Nat /\ cycles * UNIT <= max * UNIT /\ max * UNIT = UNIT * max
    BY <1>1, ProductOrder
  <2> QED BY <1>1, <2>1
<1>3. cycles = 0 => x <= 0 * max
  BY <1>1
<1>4. cycles = max => UNIT * max <= x
  BY <1>1
<1> HIDE DEF x
<1>5. share \in 0 .. UNIT
  BY <1>1, <1>2, QuotientBetween
<1>6. cycles = 0 => share \in 0 .. 0
  BY <1>1, <1>2, <1>3, QuotientBetween
<1>7. cycles = max => share \in UNIT .. UNIT
  BY <1>1, <1>2, <1>4, QuotientBetween
<1>8. share \in 0 .. UNIT /\ (cycles = 0 => share = 0) /\ (cycles = max => share = UNIT)
  <2> HIDE DEF share
  <2> QED BY <1>1, <1>5, <1>6, <1>7
<1> QED BY <1>8 DEF Fraction, x, max

LEMMA ContactCyclesIs ==
    ASSUME ground_contact_cycles \in 0 .. MAX_GROUND_CONTACT_CYCLES,
           NEW ground_contact \in BOOLEAN
    PROVE  ContactCycles(ground_contact) =
             IF ground_contact
             THEN IF ground_contact_cycles + 1 <= MAX_GROUND_CONTACT_CYCLES
                  THEN ground_contact_cycles + 1 ELSE MAX_GROUND_CONTACT_CYCLES
             ELSE IF ground_contact_cycles = 0 THEN 0 ELSE ground_contact_cycles - 1
<1>1. ground_contact_cycles \in Nat /\ MAX_GROUND_CONTACT_CYCLES \in Nat
  BY FlightLoopAssumption
<1>2. Capped(ground_contact_cycles + 1, MAX_GROUND_CONTACT_CYCLES) =
        IF ground_contact_cycles + 1 <= MAX_GROUND_CONTACT_CYCLES
        THEN ground_contact_cycles + 1 ELSE MAX_GROUND_CONTACT_CYCLES
  BY <1>1, CappedIs
<1>3. Max({ground_contact_cycles - 1, 0}) =
        IF ground_contact_cycles = 0 THEN 0 ELSE ground_contact_cycles - 1
  <2>1. Max({ground_contact_cycles - 1, 0}) =
          IF ground_contact_cycles - 1 <= 0 THEN 0 ELSE ground_contact_cycles - 1
    BY <1>1, MaxOfTwo
  <2> QED BY <1>1, <2>1
<1> QED BY <1>2, <1>3 DEF ContactCycles

\* Without contact for long enough there is no ground, however slow; with contact for long
\* enough there is nothing else, at a speed that leaves it firm.
LEMMA RawFractionIs ==
    ASSUME NEW low_speed \in Fraction, NEW contact_fraction \in Fraction
    PROVE  /\ RawFraction(low_speed, contact_fraction) \in Fraction
           /\ contact_fraction = 0 => RawFraction(low_speed, contact_fraction) = 0
           /\ (/\ contact_fraction = UNIT /\ low_speed = UNIT
               /\ ~settings["suspend_terrain_blending"])
              => RawFraction(low_speed, contact_fraction) = UNIT
<1> DEFINE a == UNIT - low_speed
           x == a * low_speed_fraction_factor
           q == x \div UNIT
           none == \/ low_speed = 0 /\ contact_fraction = 0
                   \/ settings["suspend_terrain_blending"]
<1>1. UNIT \in Nat \ {0} /\ low_speed_fraction_factor \in Nat
      /\ low_speed \in 0 .. UNIT /\ contact_fraction \in 0 .. UNIT
  BY FlightLoopAssumption DEF Fraction
<1>2. RawFraction(low_speed, contact_fraction) =
        IF none THEN 0 ELSE Max({contact_fraction - q, 0})
  BY DEF RawFraction
<1>3. a \in Nat /\ (low_speed = UNIT => a = 0)
  BY <1>1
<1> HIDE DEF a
<1>4. x \in Nat /\ (a = 0 => x = 0)
  BY <1>1, <1>3
<1> HIDE DEF x
<1>5. q \in Nat /\ (x = 0 => q = 0)
  BY <1>1, <1>4
<1> HIDE DEF q
<1>6. Max({contact_fraction - q, 0}) =
        IF contact_fraction - q <= 0 THEN 0 ELSE contact_fraction - q
  BY <1>1, <1>5, MaxOfTwo
<1>7. CASE none
  BY <1>1, <1>2, <1>7 DEF Fraction
<1>8. CASE ~none
  BY <1>1, <1>2, <1>3, <1>4, <1>5, <1>6, <1>8 DEF Fraction
<1> QED BY <1>7, <1>8

Raw == raw_elevation_blending_fractions

\* One more fraction in the average: of flight it stays flight, of ground all ground.
LEMMA AveragedWithIs ==
    ASSUME NEW count \in 0 .. N - 1, average \in Average, average.count <= count,
           NEW fraction \in Fraction \cup {NAN}
    PROVE  /\ AveragedWith(fraction) \in Average
           /\ AveragedWith(fraction).count <= count + 1
           /\ average.count > 0 \/ fraction = UNIT => AveragedWith(fraction).count > 0
           /\ fraction \in {0, NAN} /\ average.sum = 0 => AveragedWith(fraction).sum = 0
           /\ (fraction \in {UNIT, NAN} /\ average.sum = UNIT * average.count)
              => AveragedWith(fraction).sum = UNIT * AveragedWith(fraction).count
<1> DEFINE sum == average.sum
           n == average.count
           product == UNIT * n
<1>1. /\ UNIT \in Nat \ {0} /\ N \in Nat \ {0} /\ NAN \notin Int
      /\ sum \in Nat /\ n \in Nat /\ n <= count /\ sum <= product
  BY FlightLoopAssumption DEF Average
<1>2. product \in Nat /\ UNIT * (n + 1) = product + UNIT
  <2> HIDE DEF n
  <2> QED BY <1>1
<1>3. CASE fraction = NAN
  <2>1. AveragedWith(fraction) = average
    BY <1>3 DEF AveragedWith
  <2> QED BY <1>1, <1>3, <2>1
<1>4. CASE fraction # NAN
  <2>1. AveragedWith(fraction) = [sum |-> sum + fraction, count |-> n + 1]
    BY <1>4 DEF AveragedWith
  <2>2. fraction \in 0 .. UNIT
    BY <1>4 DEF Fraction
  <2>3. /\ AveragedWith(fraction).sum = sum + fraction /\ AveragedWith(fraction).count = n + 1
        /\ sum + fraction \in Nat /\ n + 1 \in 0 .. N
        /\ sum + fraction <= UNIT * (n + 1)
    <3> HIDE DEF sum, n, product
    <3> QED BY <1>1, <1>2, <2>1, <2>2
  <2>4. AveragedWith(fraction) \in Average
    BY <2>1, <2>3 DEF Average
  <2> HIDE DEF product
  <2> QED BY <1>1, <1>2, <1>4, <2>2, <2>3, <2>4 DEF product
<1> QED BY <1>3, <1>4

-----------------------------------------------------------------------------
\* What is recorded is a fraction: without contact none, with all of it and slow all.
LEMMA RecordedFraction ==
    ASSUME TypeOK
    PROVE  /\ raw_elevation_blending_fraction \in Fraction
           /\ ground_contact_cycles = 0 => raw_elevation_blending_fraction = 0
           /\ (/\ ground_contact_cycles = MAX_GROUND_CONTACT_CYCLES /\ low_speed_fraction = UNIT
               /\ ~settings["suspend_terrain_blending"])
              => raw_elevation_blending_fraction = UNIT
<1> DEFINE share == (ground_contact_cycles * UNIT) \div MAX_GROUND_CONTACT_CYCLES
<1>1. ground_contact_cycles \in 0 .. MAX_GROUND_CONTACT_CYCLES /\ low_speed_fraction \in Fraction
  BY DEF TypeOK
<1>2. /\ share \in Fraction
      /\ ground_contact_cycles = 0 => share = 0
      /\ ground_contact_cycles = MAX_GROUND_CONTACT_CYCLES => share = UNIT
  BY <1>1, ContactShare
<1>3. raw_elevation_blending_fraction = RawFraction(low_speed_fraction, share)
  BY DEF raw_elevation_blending_fraction
<1> HIDE DEF share
<1> QED BY <1>1, <1>2, <1>3, RawFractionIs

LEMMA TypeInit == Init => TypeOK
<1> SUFFICES ASSUME Init
             PROVE  TypeOK
  OBVIOUS
<1>1. NoFrame \in Frame /\ NoFrame.elevation = Min(Elevations) /\ NoFrame.elevation \in Elevations
  BY NoFrameIs DEF NoFrame, Frame
<1>2. elevation_blending_fraction \in Average /\ average \in Average /\ index \in Slots
      /\ main = "idle" /\ clearing \in 0 .. NotClearing
  BY FlightLoopAssumption DEF Init, None, Average, Slots, NotClearing
<1>3. contact \in [in : BOOLEAN, cycles : 0 .. MAX_GROUND_CONTACT_CYCLES]
      /\ settled \in [air : 0 .. N, ground : 0 .. N, pure : BOOLEAN]
  BY FlightLoopAssumption DEF Init
<1>4. local_y \in Int
  BY <1>1, FlightLoopAssumption DEF Init
<1>5. settings \in [Flags -> BOOLEAN] /\ Raw \in [Slots -> Fraction \cup {NAN}]
      /\ next_raw_elevation_blending_fractions_index \in Slots
  BY FlightLoopAssumption DEF Init, Raw, Slots
<1> QED
  BY <1>1, <1>2, <1>3, <1>4, <1>5, FlightLoopAssumption
     DEF Init, TypeOK, Raw, NotClearing, Fraction

LEMMA BetweenIs ==
    ASSUME NEW a \in Int, NEW b \in Int, NEW y \in Int,
           (a <= y /\ y <= b) \/ (b <= y /\ y <= a)
    PROVE  y \in Between(a, b)
BY MinOfTwo, MaxOfTwo DEF Between

\* A blended elevation lies between PSX's and the terrain's, and but for the ground is
\* PSX's with an offset.
LEMMA AdjustedBetween ==
    ASSUME NEW fraction \in Average, NEW elevation \in Int, NEW terrain \in Int \cup {NAN}
    PROVE  LET adjusted == Adjusted(fraction, elevation, terrain)
               offset == Offset(fraction, elevation, terrain)
           IN  /\ adjusted \in Int /\ offset \in Int
               /\ terrain = NAN => adjusted = elevation
               /\ terrain # NAN => adjusted \in Between(elevation, terrain)
               /\ ~IsGround(fraction) => adjusted = elevation + offset
<1> DEFINE adjusted == Adjusted(fraction, elevation, terrain)
           offset == Offset(fraction, elevation, terrain)
           blended == ~(IsFlight(fraction) \/ IsGround(fraction) \/ terrain = NAN)
<1>1. UNIT \in Nat \ {0} /\ N \in Nat \ {0} /\ NAN \notin Int
  BY FlightLoopAssumption
<1>3. ASSUME blended
      PROVE  /\ offset \in Int
             /\ elevation + offset \in Int
             /\ elevation + offset \in Between(elevation, terrain)
  <2> DEFINE s == fraction.sum
             c == fraction.count
             delta == elevation - terrain
             x == s * delta
             d == c * UNIT
             q == x \div d
  <2>1. terrain \in Int /\ delta \in Int /\ s \in Nat /\ s # 0 /\ c \in Nat /\ s <= UNIT * c
    BY <1>1, <1>3 DEF IsFlight, Average
  <2>2. d \in Nat \ {0} /\ s <= d
    <3>1. c # 0
      BY <1>1, <2>1
    <3> HIDE DEF s, c
    <3> QED BY <1>1, <2>1, <3>1
  <2>3. offset = -q
    BY <1>3 DEF Offset
  <2>4. CASE delta >= 0
    <3>1. x \in Int /\ 0 * d <= x /\ x <= delta * d
      <4> HIDE DEF s, d, delta
      <4>1. s * delta \in Nat /\ s * delta <= d * delta /\ d * delta = delta * d
        BY <2>1, <2>2, <2>4, ProductOrder
      <4> QED BY <2>2, <4>1
    <3>2. q \in 0 .. delta
      <4> HIDE DEF x, d, delta
      <4> QED BY <2>1, <2>2, <3>1, QuotientBetween
    <3> HIDE DEF q
    <3>3. /\ elevation + (-q) \in Int /\ -q \in Int
          /\ terrain <= elevation + (-q) /\ elevation + (-q) <= elevation
      BY <2>1, <3>2
    <3> QED BY BetweenIs, <2>1, <2>3, <3>3
  <2>5. CASE ~(delta >= 0)
    <3> DEFINE m == -delta
    <3>1. m \in Nat /\ delta = -m
      BY <2>1, <2>5
    <3>2. x \in Int /\ delta * d <= x /\ x <= 0 * d
      <4> HIDE DEF s, d, delta, m
      <4>1. s * m \in Nat /\ s * m <= d * m /\ d * m \in Nat
        BY <2>1, <2>2, <3>1, ProductOrder
      <4>2. s * (-m) = -(s * m) /\ (-m) * d = -(d * m)
        BY <2>1, <2>2, <3>1
      <4> QED BY <2>2, <3>1, <4>1, <4>2
    <3>3. q \in delta .. 0
      <4> HIDE DEF x, d, delta
      <4> QED BY <2>1, <2>2, <3>2, QuotientBetween
    <3> HIDE DEF q, m
    <3>4. /\ elevation + (-q) \in Int /\ -q \in Int
          /\ elevation <= elevation + (-q) /\ elevation + (-q) <= terrain
      BY <2>1, <3>3
    <3>5. elevation + (-q) \in Between(elevation, terrain)
      <4> DEFINE y == elevation + (-q)
      <4>1. y \in Int /\ elevation <= y /\ y <= terrain
        BY <3>4
      <4> HIDE DEF y
      <4>2. y \in Between(elevation, terrain)
        BY BetweenIs, <2>1, <4>1
      <4> QED BY <4>2 DEF y
    <3> QED BY <2>3, <3>4, <3>5
  <2> QED BY <2>4, <2>5
<1>4. CASE blended
  <2>1. adjusted = elevation + offset /\ terrain # NAN
    BY <1>4 DEF Adjusted
  <2> QED BY <1>3, <1>4, <2>1
<1>5. CASE ~blended
  <2>1. offset = 0 /\ elevation + 0 = elevation
    BY <1>5 DEF Offset
  <2>2. adjusted = IF IsGround(fraction) /\ terrain # NAN THEN terrain ELSE elevation
    BY <2>1 DEF Adjusted
  <2>3. CASE terrain = NAN
    BY <2>1, <2>2, <2>3
  <2>4. CASE terrain \in Int
    <3>1. elevation <= terrain \/ terrain <= elevation
      BY <2>4
    <3>2. terrain \in Between(elevation, terrain) /\ elevation \in Between(elevation, terrain)
      BY <2>4, <3>1, BetweenIs
    <3> QED BY <2>1, <2>2, <2>4, <3>2
  <2> QED BY <2>3, <2>4
<1> QED BY <1>4, <1>5

LEMMA TypeStep == TypeOK /\ Averaged /\ [Next]_vars => TypeOK'
<1> SUFFICES ASSUME TypeOK, Averaged, [Next]_vars
             PROVE  TypeOK'
  OBVIOUS
<1> USE FlightLoopAssumption DEF planepathVars, frameVars, copyVars, speedVars, ringVars,
     terrainVars, outputVars, contactVars, localVars
<1>1. CASE Receive
  BY <1>1 DEF Receive, TypeOK
<1>2. CASE ResetBegin
  <2>1. clearing' \in 0 .. NotClearing
    BY <1>2 DEF ResetBegin, NotClearing
  <2>2. settled' \in [air : 0 .. N, ground : 0 .. N, pure : BOOLEAN]
    BY <1>2 DEF ResetBegin, TypeOK
  <2> QED BY <1>2, <2>1, <2>2 DEF ResetBegin, TypeOK
<1>3. CASE ResetSlot
  <2>1. clearing \in Slots /\ clearing' \in 0 .. NotClearing
    BY <1>3 DEF ResetSlot, Slots, NotClearing
  <2>2. settled' \in [air : 0 .. N, ground : 0 .. N, pure : BOOLEAN]
    BY <1>3 DEF ResetSlot, TypeOK
  <2>3. raw_elevation_blending_fractions' \in [Slots -> Fraction \cup {NAN}]
    BY <1>3, <2>1 DEF ResetSlot, TypeOK
  <2> QED BY <1>3, <2>1, <2>2, <2>3 DEF ResetSlot, TypeOK
<1>4. CASE ResetIndex
  BY <1>4 DEF ResetIndex, TypeOK, Slots, NotClearing
<1>5. CASE WriteFlag
  BY <1>5 DEF WriteFlag, TypeOK
<1>6. CASE MoveAircraft
  BY <1>6 DEF MoveAircraft, TypeOK
<1>7. CASE Begin
  <2>1. cycles_to_override_plane_path' \in -1 .. INIT_CYCLES_TO_OVERRIDE_PLANE_PATH
        /\ planepath_overridden' \in BOOLEAN
    BY <1>7 DEF Begin, OverridePlanepath, TypeOK
  <2>2. /\ terrain_elevation_meters' \in Elevations \cup {NAN}
        /\ terrain_elevation_remaining_cycles' \in -1 .. TERRAIN_ELEVATION_MAX_AGE_CYCLES
    BY <1>7 DEF Begin, ExpireTerrain, TypeOK
  <2>3. probed_ago' \in 0 .. TERRAIN_ELEVATION_MAX_AGE_CYCLES + 1
    <3>1. probed_ago + 1 \in Nat /\ TERRAIN_ELEVATION_MAX_AGE_CYCLES + 1 \in Nat
      BY DEF TypeOK
    <3>2. probed_ago' = IF probed_ago + 1 <= TERRAIN_ELEVATION_MAX_AGE_CYCLES + 1
                        THEN probed_ago + 1 ELSE TERRAIN_ELEVATION_MAX_AGE_CYCLES + 1
      BY <1>7, <3>1, CappedIs DEF Begin, ExpireTerrain
    <3> QED BY <3>1, <3>2
  <2>4. /\ main' \in {"idle", "evaluate"}
        /\ boost_frame_copy' \in Frame /\ is_new_boost_frame' \in BOOLEAN
    BY <1>7 DEF Begin, TypeOK
  <2>5. psx_elevation' \in Int \cup {NAN} /\ pose_elevation' \in Elevations
    BY <1>7, NoFrameIs DEF Begin, NoFrame, Frame
  <2>6. boost_frame_applied' \in BOOLEAN /\ local_y' = local_y
    BY <1>7 DEF Begin
  <2> QED BY <1>7, <2>1, <2>2, <2>3, <2>4, <2>5, <2>6 DEF Begin, TypeOK
<1>8. CASE Evaluate
  <2>1. calculated_ground_speed' \in 0 .. MAX_ACCELERATED_GROUND_SPEED
    <3>1. PICK speed \in Speeds \cup {calculated_ground_speed} :
            calculated_ground_speed' = Capped(speed, MAX_ACCELERATED_GROUND_SPEED)
      BY <1>8 DEF Evaluate
    <3>2. speed \in Nat
      BY DEF TypeOK
    <3> QED BY <3>1, <3>2, CappedIs
  <2>2. low_speed_fraction' \in Fraction
    <3>1. low_speed_fraction' = LowSpeedFraction(calculated_ground_speed')
      BY <1>8 DEF Evaluate
    <3> QED BY <2>1, <3>1, LowSpeedFractionIs
  <2>3. boost_frame_copy.ground_contact \in BOOLEAN
    BY DEF TypeOK, Frame
  <2>4. ground_contact_cycles' \in 0 .. MAX_GROUND_CONTACT_CYCLES
    <3>1. ground_contact_cycles \in 0 .. MAX_GROUND_CONTACT_CYCLES
      BY DEF TypeOK
    <3>2. ground_contact_cycles' = ContactCycles(boost_frame_copy.ground_contact)
      BY <1>8 DEF Evaluate
    <3> QED BY <2>3, <3>1, <3>2, ContactCyclesIs
  <2>5. contact' \in [in : BOOLEAN, cycles : 0 .. MAX_GROUND_CONTACT_CYCLES]
    <3>1. contact.cycles + 1 \in Nat /\ MAX_GROUND_CONTACT_CYCLES \in Nat
      BY DEF TypeOK
    <3>2. Capped(contact.cycles + 1, MAX_GROUND_CONTACT_CYCLES)
            \in 0 .. MAX_GROUND_CONTACT_CYCLES
      BY <3>1, CappedIs
    <3> QED BY <1>8, <2>3, <3>2 DEF Evaluate
  <2>6. /\ main' \in {"record", "average"} /\ index' \in Slots
        /\ main' = "average" => average.count <= index'
    <3>1. average.count = 0
      BY <1>8 DEF Evaluate, Averaged, None
    <3> QED BY <1>8, <3>1 DEF Evaluate, TypeOK, Slots
  <2> QED BY <1>8, <2>1, <2>2, <2>4, <2>5, <2>6 DEF Evaluate, TypeOK
<1>9. CASE Record
  <2>1. raw_elevation_blending_fractions' \in [Slots -> Fraction \cup {NAN}]
    <3>1. raw_elevation_blending_fraction \in Fraction
      BY RecordedFraction
    <3> QED BY <1>9, <3>1 DEF Record, TypeOK
  <2>2. settled' \in [air : 0 .. N, ground : 0 .. N, pure : BOOLEAN]
    <3>1. settled.air \in 0 .. N /\ settled.ground \in 0 .. N /\ settled.pure \in BOOLEAN
      BY DEF TypeOK
    <3>2. Capped(settled.air + 1, N) \in 0 .. N /\ Capped(settled.ground + 1, N) \in 0 .. N
      BY <3>1, CappedIs
    <3> DEFINE long == contact.cycles = MAX_GROUND_CONTACT_CYCLES
               ground == /\ long /\ contact.in
                         /\ calculated_ground_speed <= firm_ground_speed
                         /\ ~settings["suspend_terrain_blending"]
               air_frames == IF long /\ ~contact.in THEN Capped(settled.air + 1, N) ELSE 0
               ground_frames == IF ground THEN Capped(settled.ground + 1, N) ELSE 0
               pure == settled.pure /\ ground
    <3>3. settled' = [air |-> air_frames, ground |-> ground_frames, pure |-> pure]
      BY <1>9 DEF Record
    <3>4. air_frames \in 0 .. N /\ ground_frames \in 0 .. N
      BY <3>2
    <3>5. pure \in BOOLEAN
      BY Zenon
    <3> HIDE DEF air_frames, ground_frames, pure
    <3> QED BY <3>3, <3>4, <3>5
  <2> QED BY <1>9, <2>1, <2>2 DEF Record, TypeOK, Slots
<1>10. CASE Count
  BY <1>10 DEF Count, TypeOK
<1>11. CASE Advance
  <2>1. average.count = 0
    BY <1>11 DEF Advance, Averaged, None
  <2> QED BY <1>11, <2>1 DEF Advance, TypeOK, Slots
<1>12. CASE AverageSlot
  <2>1. /\ index \in 0 .. N - 1 /\ average \in Average /\ average.count <= index
        /\ raw_elevation_blending_fractions[index] \in Fraction \cup {NAN}
    BY <1>12 DEF AverageSlot, TypeOK, Slots
  <2>2. average' \in Average /\ average'.count <= index + 1
    BY <1>12, <2>1, AveragedWithIs DEF AverageSlot
  <2>3. /\ main' \in {"average", "inject"} /\ index' \in Slots
        /\ main' = "average" => average'.count <= index'
    BY <1>12, <2>1, <2>2 DEF AverageSlot, Slots
  <2> QED BY <1>12, <2>2, <2>3 DEF AverageSlot, TypeOK
<1>13. CASE Inject
  <2>1. elevation_blending_fraction' \in Average /\ average' \in Average
    BY <1>13 DEF Inject, TypeOK, None, Average
  <2>2. /\ terrain_elevation_meters' \in Elevations \cup {NAN}
        /\ terrain_elevation_remaining_cycles' \in -1 .. TERRAIN_ELEVATION_MAX_AGE_CYCLES
        /\ probed_ago' \in 0 .. TERRAIN_ELEVATION_MAX_AGE_CYCLES + 1
    BY <1>13 DEF Inject, Probe, TypeOK
  <2>3. pose_elevation' \in Elevations /\ boost_frame_copy.elevation \in Elevations
    BY <1>13 DEF Inject, TypeOK, Frame
  <2>4. pose_elevation' \in Int /\ terrain_elevation_meters' \in Int \cup {NAN}
    BY <2>2, <2>3
  <2> DEFINE adjusted == Adjusted(elevation_blending_fraction', pose_elevation',
                                  terrain_elevation_meters')
             offset == Offset(elevation_blending_fraction', pose_elevation',
                              terrain_elevation_meters')
  <2>5. adjusted \in Int /\ offset \in Int
    BY Zenon, <2>1, <2>4, AdjustedBetween
  <2>6. local_y' \in {adjusted, local_y}
        /\ psx_elevation' \in {boost_frame_copy.elevation, local_y - offset, psx_elevation}
    BY <1>13 DEF Inject, Reversed
  <2> HIDE DEF adjusted, offset
  <2>7. local_y' \in Int /\ psx_elevation' \in Int \cup {NAN}
    <3>1. /\ local_y \in Int /\ boost_frame_copy.elevation \in Int
          /\ psx_elevation \in Int \cup {NAN}
      BY <2>3 DEF TypeOK
    <3>2. local_y - offset \in Int
      BY <2>5, <3>1
    <3> QED BY <2>5, <2>6, <3>1, <3>2
  <2>8. boost_frame_copy' \in Frame /\ is_new_boost_frame' \in BOOLEAN
        /\ main' = "idle"
    BY <1>13, NoFrameIs DEF Inject
  <2> QED BY <1>13, <2>1, <2>2, <2>3, <2>7, <2>8 DEF Inject, TypeOK
<1>14. CASE UNCHANGED vars
  BY <1>14 DEF vars, TypeOK
<1> QED
  BY <1>1, <1>2, <1>3, <1>4, <1>5, <1>6, <1>7, <1>8, <1>9, <1>10, <1>11, <1>12, <1>13, <1>14
     DEF Next, ConnectionNext, XPlaneNext, FlightLoopNext
-----------------------------------------------------------------------------
\* The terrain: each cycle takes one from those left, a probe starts again.
LEMMA TerrainStep == TypeOK /\ TerrainExpires /\ [Next]_vars => TerrainExpires'
<1> SUFFICES ASSUME TypeOK, TerrainExpires, [Next]_vars
             PROVE  TerrainExpires'
  OBVIOUS
<1>1. /\ TERRAIN_ELEVATION_MAX_AGE_CYCLES \in Nat /\ NAN \notin Int
      /\ probed_ago \in Nat /\ terrain_elevation_remaining_cycles \in Int
  BY FlightLoopAssumption DEF TypeOK
<1>2. CASE Begin
  <2>1. probed_ago + 1 \in Nat /\ TERRAIN_ELEVATION_MAX_AGE_CYCLES + 1 \in Nat
    BY <1>1
  <2>2. probed_ago' <= probed_ago + 1
    BY <1>2, <2>1, CappedIs DEF Begin, ExpireTerrain
  <2>3. probed_ago' \in Nat
    BY <1>2, <2>1, CappedIs DEF Begin, ExpireTerrain
  <2> QED BY <1>1, <1>2, <2>2, <2>3 DEF Begin, ExpireTerrain, TerrainExpires
<1>3. CASE Inject
  BY <1>1, <1>3 DEF Inject, Probe, terrainVars, TerrainExpires
<1>4. ASSUME UNCHANGED terrainVars
      PROVE  TerrainExpires'
  BY <1>4 DEF terrainVars, TerrainExpires
<1> QED
  BY <1>2, <1>3, <1>4
     DEF Next, ConnectionNext, XPlaneNext, FlightLoopNext, Receive, ResetBegin, ResetSlot,
         ResetIndex, WriteFlag, MoveAircraft, Evaluate, Record, Count, Advance, AverageSlot, vars

\* The contact counter.
LEMMA ContactStep == TypeOK /\ ContactCounted /\ [Next]_vars => ContactCounted'
<1> SUFFICES ASSUME TypeOK, ContactCounted, [Next]_vars
             PROVE  ContactCounted'
  OBVIOUS
<1>1. CASE Evaluate
  <2> DEFINE max == MAX_GROUND_CONTACT_CYCLES
             in == boost_frame_copy.ground_contact
  <2>1. /\ max \in Nat \ {0} /\ in \in BOOLEAN
        /\ ground_contact_cycles \in 0 .. max /\ contact.cycles \in 0 .. max
        /\ contact.in \in BOOLEAN
    BY FlightLoopAssumption DEF TypeOK, Frame
  <2>2. ground_contact_cycles' =
          IF in THEN IF ground_contact_cycles + 1 <= max THEN ground_contact_cycles + 1 ELSE max
          ELSE IF ground_contact_cycles = 0 THEN 0 ELSE ground_contact_cycles - 1
    <3>1. ground_contact_cycles' = ContactCycles(in)
      BY <1>1 DEF Evaluate
    <3> QED BY <2>1, <3>1, ContactCyclesIs
  <2>3. contact'.in = in
        /\ contact'.cycles = IF contact.in = in THEN Capped(contact.cycles + 1, max) ELSE 1
    BY <1>1 DEF Evaluate
  <2>4. Capped(contact.cycles + 1, max) =
          IF contact.cycles + 1 <= max THEN contact.cycles + 1 ELSE max
    BY <2>1, CappedIs
  <2> HIDE DEF max, in
  <2>5. CASE in
    <3>1. CASE contact.in
      BY <2>1, <2>2, <2>3, <2>4, <2>5, <3>1 DEF ContactCounted, max
    <3>2. CASE ~contact.in
      <4>1. contact.in = FALSE /\ in = TRUE
        BY Zenon, <2>1, <2>5, <3>2
      <4>2. contact'.cycles = 1 /\ contact'.in = TRUE
        BY Zenon, <2>3, <4>1
      <4>3. ground_contact_cycles' >= 1
        BY <2>1, <2>2, <2>5
      <4> QED BY <4>2, <4>3 DEF ContactCounted
    <3> QED BY <3>1, <3>2
  <2>6. CASE ~in
    BY <2>1, <2>2, <2>3, <2>4, <2>6 DEF ContactCounted, max
  <2> QED BY <2>5, <2>6
<1>2. ASSUME UNCHANGED contactVars
      PROVE  ContactCounted'
  BY <1>2 DEF contactVars, ContactCounted
<1> QED
  BY <1>1, <1>2
     DEF Next, ConnectionNext, XPlaneNext, FlightLoopNext, Receive, ResetBegin, ResetSlot,
         ResetIndex, WriteFlag, MoveAircraft, Begin, Record, Count, Advance, AverageSlot, Inject,
         vars
-----------------------------------------------------------------------------
\* A turn of the ring: the slot that was next is the last one now.
LEMMA RingTurn ==
    ASSUME NEW from \in Slots, NEW to, to = (IF from = N - 1 THEN 0 ELSE from + 1), NEW s \in Slots
    PROVE  /\ to \in Slots /\ Ahead(to, s) \in 0 .. N - 1 /\ Ahead(from, s) \in 0 .. N - 1
           /\ s = from => Ahead(to, s) = N - 1
           /\ s # from => Ahead(from, s) = Ahead(to, s) + 1
BY FlightLoopAssumption DEF Slots, Ahead

\* A frame that counts as settled records the fraction of its side.
LEMMA RecordedIs ==
    ASSUME TypeOK, ContactCounted, SpeedTaken, Record
    PROVE  \E value \in Fraction :
             /\ Raw' = [Raw EXCEPT ![index] = value]
             /\ settled'.air # 0 => value = 0 /\ settled'.air <= settled.air + 1
                                    /\ settled'.air \in Nat
             /\ settled'.ground # 0 => value = UNIT /\ settled'.ground <= settled.ground + 1
                                       /\ settled'.ground \in Nat
             /\ settled'.pure => settled.pure /\ value = UNIT
<1> DEFINE max == MAX_GROUND_CONTACT_CYCLES
           value == raw_elevation_blending_fraction
           long == contact.cycles = MAX_GROUND_CONTACT_CYCLES
           ground == /\ long /\ contact.in
                     /\ calculated_ground_speed <= firm_ground_speed
                     /\ ~settings["suspend_terrain_blending"]
           air == long /\ ~contact.in
<1>1. /\ ground_contact_cycles \in 0 .. max /\ calculated_ground_speed \in Nat /\ max \in Nat
  BY FlightLoopAssumption DEF TypeOK
<1>2. calculated_ground_speed <= firm_ground_speed => low_speed_fraction = UNIT
  BY <1>1, LowSpeedFractionIs DEF SpeedTaken, Record
<1>3. air => ground_contact_cycles = 0
  BY <1>1 DEF ContactCounted
<1>4. ground => ground_contact_cycles = max
  BY <1>1 DEF ContactCounted
<1>5. Raw' = [Raw EXCEPT ![index] = value]
  BY DEF Record, Raw
<1>6. settled' = [air |-> IF air THEN Capped(settled.air + 1, N) ELSE 0,
                  ground |-> IF ground THEN Capped(settled.ground + 1, N) ELSE 0,
                  pure |-> settled.pure /\ ground]
  BY DEF Record
<1>7. value \in Fraction /\ (air => value = 0) /\ (ground => value = UNIT)
  BY <1>2, <1>3, <1>4, RecordedFraction
<1> HIDE DEF value, air, ground
<1>8. /\ Capped(settled.air + 1, N) <= settled.air + 1 /\ Capped(settled.air + 1, N) \in Nat
      /\ Capped(settled.ground + 1, N) <= settled.ground + 1
      /\ Capped(settled.ground + 1, N) \in Nat
  <2>1. settled.air \in Nat /\ settled.ground \in Nat /\ N \in Nat
    BY FlightLoopAssumption DEF TypeOK
  <2> QED BY <2>1, CappedIs
<1>9. /\ settled'.air = IF air THEN Capped(settled.air + 1, N) ELSE 0
      /\ settled'.ground = IF ground THEN Capped(settled.ground + 1, N) ELSE 0
      /\ settled'.pure = (settled.pure /\ ground)
  BY Zenon, <1>6
<1> QED BY <1>5, <1>7, <1>8, <1>9

RingInv == AirborneRecorded /\ GroundRecorded /\ ReadBeforeReset /\ AverageSettles /\ Averaged

\* What the lemmas on single steps take of the types.
LEMMA RingTypes ==
    ASSUME TypeOK
    PROVE  /\ N \in Nat \ {0} /\ Slots = 0 .. N - 1 /\ UNIT \in Nat \ {0} /\ NAN \notin Int
           /\ NotClearing = N + 1 /\ clearing \in 0 .. N + 1
           /\ settled.air \in 0 .. N /\ settled.ground \in 0 .. N /\ settled.pure \in BOOLEAN
           /\ Raw \in [Slots -> Fraction \cup {NAN}]
           /\ next_raw_elevation_blending_fractions_index \in Slots /\ index \in Slots
           /\ From \in Slots /\ \A s \in Slots : Ahead(From, s) \in 0 .. N - 1
           /\ average \in Average
<1>1. /\ N \in Nat \ {0} /\ UNIT \in Nat \ {0} /\ NAN \notin Int
      /\ next_raw_elevation_blending_fractions_index \in Slots /\ index \in Slots
  BY FlightLoopAssumption DEF TypeOK
<1>2. From \in Slots
  BY <1>1 DEF From, Successor, Slots
<1>3. \A s \in Slots : Ahead(From, s) \in 0 .. N - 1
  BY <1>2, RingTurn
<1> QED BY <1>1, <1>2, <1>3 DEF TypeOK, Slots, NotClearing, Raw

\* Nothing of the ring changes.
LEMMA RingKept ==
    ASSUME RingInv,
           UNCHANGED <<main, clearing, ringVars, localVars, elevation_blending_fraction, settled>>
    PROVE  RingInv'
BY DEF RingInv, AirborneRecorded, GroundRecorded, ReadBeforeReset, AverageSettles, Averaged,
       AirborneUnadjusted, GroundPinned, From, Airborne, Grounded, Recorded, ringVars, localVars

LEMMA RingBegin == RingInv /\ Begin => RingInv'
<1> SUFFICES ASSUME RingInv, Begin
             PROVE  RingInv'
  OBVIOUS
<1>1. /\ main = "idle" /\ main' \in {"idle", "evaluate"} /\ clearing = NotClearing
      /\ UNCHANGED <<clearing, ringVars, localVars, elevation_blending_fraction, settled>>
  BY DEF Begin
<1>2. From' = From
  BY <1>1 DEF From, ringVars
<1> QED BY <1>1, <1>2
        DEF RingInv, AirborneRecorded, GroundRecorded, ReadBeforeReset, AverageSettles, Averaged,
            AirborneUnadjusted, GroundPinned, Airborne, Grounded, Recorded, ringVars, localVars,
            NotClearing

LEMMA RingEvaluate == TypeOK /\ RingInv /\ Evaluate => RingInv'
<1> SUFFICES ASSUME TypeOK, RingInv, Evaluate
             PROVE  RingInv'
  OBVIOUS
<1>1. /\ main = "evaluate" /\ index = 0 /\ average = None
      /\ UNCHANGED <<clearing, ringVars, average, elevation_blending_fraction, settled>>
  BY DEF Evaluate, RingInv, Averaged
<1>2. \/ main' = "record" /\ index' = next_raw_elevation_blending_fractions_index
      \/ main' = "average" /\ index' = 0
  BY <1>1 DEF Evaluate
<1>3. From' = From
  BY <1>1, <1>2 DEF From, ringVars
<1>4. AirborneRecorded' /\ GroundRecorded'
  BY <1>1, <1>2, <1>3
     DEF RingInv, AirborneRecorded, GroundRecorded, Airborne, Grounded, Recorded, ringVars,
         NotClearing
<1>5. ReadBeforeReset' /\ Averaged'
  BY <1>1, <1>2
     DEF RingInv, ReadBeforeReset, Averaged, AirborneUnadjusted, GroundPinned, ringVars
<1>6. AverageSettles'
  <2>1. average'.sum = 0 /\ UNIT * 0 = 0 /\ average'.count = 0
    BY <1>1, FlightLoopAssumption DEF None
  <2>2. settled'.ground > 0 =>
          \E s \in Slots : s >= 0 /\ raw_elevation_blending_fractions'[s] = UNIT
    BY <1>1 DEF RingInv, GroundRecorded, ringVars, Slots
  <2> QED BY <1>1, <1>2, <2>1, <2>2 DEF AverageSettles
<1> QED BY <1>4, <1>5, <1>6 DEF RingInv

\* The record, where the index is or, after a reset, where it was in a ring that is empty.
LEMMA RingRecord ==
    ASSUME TypeOK, ContactCounted, SpeedTaken, RingInv, Record
    PROVE  RingInv'
<1> DEFINE next == next_raw_elevation_blending_fractions_index
           to == Successor(next)
<1>1. PICK value \in Fraction :
        /\ Raw' = [Raw EXCEPT ![index] = value]
        /\ settled'.air # 0 => value = 0 /\ settled'.air <= settled.air + 1
                               /\ settled'.air \in Nat
        /\ settled'.ground # 0 => value = UNIT /\ settled'.ground <= settled.ground + 1
                                  /\ settled'.ground \in Nat
        /\ settled'.pure => settled.pure /\ value = UNIT
  BY RecordedIs
<1>2. /\ main = "record" /\ main' = "count" /\ From = next /\ From' = to
      /\ UNCHANGED <<clearing, average>> /\ average = None
  BY DEF Record, From, RingInv, Averaged
<1>3. /\ N \in Nat \ {0} /\ UNIT \in Nat \ {0} /\ NAN \notin Int
      /\ settled.air \in 0 .. N /\ settled.ground \in 0 .. N
      /\ Raw \in [Slots -> Fraction \cup {NAN}] /\ index \in Slots /\ next \in Slots
  BY RingTypes
<1>4. \A s \in Slots : Raw'[s] = IF s = index THEN value ELSE Raw[s]
  BY <1>1, <1>3
<1>5. \A s \in Slots : /\ Ahead(to, s) \in 0 .. N - 1
                       /\ s # next => Ahead(next, s) = Ahead(to, s) + 1
  BY <1>3, RingTurn DEF Successor
<1>6. index # next => \A s \in Slots : Raw[s] = NAN
  BY <1>2 DEF RingInv, ReadBeforeReset, Raw
<1> HIDE DEF to, next
<1>7. ASSUME NEW s \in Slots
      PROVE  Raw'[s] \in {0, NAN} \/ Ahead(to, s) < N - settled'.air
  <2>1. Raw[s] \in {0, NAN} \/ Ahead(next, s) < N - settled.air
    BY <1>2 DEF RingInv, AirborneRecorded, Airborne, Raw
  <2>2. CASE settled'.air = 0
    BY <1>3, <1>5, <2>2
  <2>3. CASE settled'.air # 0
    BY <1>1, <1>3, <1>4, <1>5, <1>6, <2>1, <2>3
  <2> QED BY <2>2, <2>3
<1>8. AirborneRecorded'
  <2>1. clearing # NotClearing => \A s \in Slots : s < clearing => Raw[s] \in {0, NAN}
    BY <1>2 DEF RingInv, AirborneRecorded, Airborne, Raw, Recorded
  <2>2. settled'.air # 0 /\ clearing # NotClearing =>
          \A s \in Slots : s < clearing => Raw'[s] \in {0, NAN}
    BY <1>1, <1>4, <2>1
  <2> QED BY <1>2, <1>7, <2>2 DEF AirborneRecorded, Airborne, Raw, Recorded, NotClearing
<1>9. ASSUME NEW s \in Slots
      PROVE  Raw'[s] \in {UNIT, NAN} \/ Ahead(to, s) < N - settled'.ground
  <2>1. Raw[s] \in {UNIT, NAN} \/ Ahead(next, s) < N - settled.ground
    BY <1>2 DEF RingInv, GroundRecorded, Grounded, Raw
  <2>2. CASE settled'.ground = 0
    BY <1>3, <1>5, <2>2
  <2>3. CASE settled'.ground # 0
    BY <1>1, <1>3, <1>4, <1>5, <1>6, <2>1, <2>3
  <2> QED BY <2>2, <2>3
<1>10. GroundRecorded'
  <2>1. clearing # NotClearing => \A s \in Slots : s < clearing => Raw[s] \in {UNIT, NAN}
    BY <1>2 DEF RingInv, GroundRecorded, Grounded, Raw, Recorded
  <2>2. settled'.ground # 0 /\ clearing # NotClearing =>
          \A s \in Slots : s < clearing => Raw'[s] \in {UNIT, NAN}
    BY <1>1, <1>4, <2>1
  <2>3. settled'.ground > 0 => \E s \in Slots : Raw'[s] = UNIT
    <3>1. CASE settled'.ground = 0
      BY <3>1
    <3>2. CASE settled'.ground # 0
      BY <1>1, <1>3, <1>4, <3>2
    <3> QED BY <3>1, <3>2
  <2>4. ASSUME settled'.pure, NEW s \in Slots, clearing # NotClearing => s < clearing
        PROVE  Raw'[s] \in {UNIT, NAN}
    <3>1. Raw[s] \in {UNIT, NAN}
      BY <1>1, <2>4 DEF RingInv, GroundRecorded, Grounded, Raw
    <3> QED BY <1>1, <1>4, <2>4, <3>1
  <2> QED BY <1>2, <1>9, <2>2, <2>3, <2>4
          DEF GroundRecorded, Grounded, Raw, Recorded, NotClearing
<1> QED BY <1>2, <1>8, <1>10 DEF RingInv, ReadBeforeReset, AverageSettles, Averaged

LEMMA RingCount == TypeOK /\ RingInv /\ Count => RingInv'
<1> SUFFICES ASSUME TypeOK, RingInv, Count
             PROVE  RingInv'
  OBVIOUS
<1>1. /\ main = "count" /\ main' = "advance"
      /\ index' = next_raw_elevation_blending_fractions_index
      /\ UNCHANGED <<clearing, ringVars, average, settled>>
  BY DEF Count
<1>2. From' = From
  BY <1>1 DEF From, Successor
<1> QED BY <1>1, <1>2
        DEF RingInv, AirborneRecorded, GroundRecorded, ReadBeforeReset, AverageSettles, Averaged,
            Airborne, Grounded, Recorded, ringVars, NotClearing

LEMMA RingAdvance == TypeOK /\ RingInv /\ Advance => RingInv'
<1> SUFFICES ASSUME TypeOK, RingInv, Advance
             PROVE  RingInv'
  OBVIOUS
<1>1. /\ main = "advance" /\ main' = "average" /\ index' = 0
      /\ next_raw_elevation_blending_fractions_index' = (index + 1) % N
      /\ UNCHANGED <<clearing, raw_elevation_blending_fractions, average, settled>>
      /\ average = None
  BY DEF Advance, RingInv, Averaged
<1>2. From' = From
  <2>1. index \in 0 .. N - 1 /\ N \in Nat \ {0}
    BY RingTypes
  <2>2. (index + 1) % N = IF index = N - 1 THEN 0 ELSE index + 1
    BY <2>1
  <2> QED BY <1>1, <2>2 DEF From, Successor
<1>3. AirborneRecorded' /\ GroundRecorded'
  BY <1>1, <1>2
     DEF RingInv, AirborneRecorded, GroundRecorded, Airborne, Grounded, Recorded, NotClearing
<1>4. AverageSettles'
  <2>1. average'.sum = 0 /\ UNIT * 0 = 0 /\ average'.count = 0
    BY <1>1, FlightLoopAssumption DEF None
  <2>2. settled'.ground > 0 =>
          \E s \in Slots : s >= 0 /\ raw_elevation_blending_fractions'[s] = UNIT
    BY <1>1 DEF RingInv, GroundRecorded, Slots
  <2> QED BY <1>1, <2>1, <2>2 DEF AverageSettles
<1> QED BY <1>1, <1>3, <1>4 DEF RingInv, ReadBeforeReset, Averaged

\* One slot more: it is on the side that all of the ring is on.
LEMMA RingAverageSlot == TypeOK /\ RingInv /\ AverageSlot => RingInv'
<1> SUFFICES ASSUME TypeOK, RingInv, AverageSlot
             PROVE  RingInv'
  OBVIOUS
<1> DEFINE fraction == raw_elevation_blending_fractions[index]
           pinned == \/ settled.ground = N
                     \/ settled.pure /\ settled.ground > 0 /\ clearing \notin Slots
<1>1. /\ main = "average" /\ main' \in {"average", "inject"}
      /\ average' = AveragedWith(fraction)
      /\ index = N - 1 => main' = "inject" /\ index' = 0
      /\ index # N - 1 => main' = "average" /\ index' = index + 1
      /\ UNCHANGED <<clearing, ringVars, settled>>
  BY DEF AverageSlot
<1>2. /\ N \in Nat \ {0} /\ Slots = 0 .. N - 1 /\ index \in 0 .. N - 1
      /\ average \in Average /\ average.count <= index /\ fraction \in Fraction \cup {NAN}
      /\ settled.air \in 0 .. N /\ settled.ground \in 0 .. N
      /\ clearing \in 0 .. N + 1 /\ NotClearing = N + 1
      /\ \A s \in Slots : Ahead(From, s) \in 0 .. N - 1
  <2>1. average.count <= index
    BY <1>1 DEF TypeOK
  <2> QED BY <2>1, RingTypes DEF Raw
<1>3. /\ average.count > 0 \/ fraction = UNIT => average'.count > 0
      /\ fraction \in {0, NAN} /\ average.sum = 0 => average'.sum = 0
      /\ (fraction \in {UNIT, NAN} /\ average.sum = UNIT * average.count)
         => average'.sum = UNIT * average'.count
      /\ average' \in Average
  <2> HIDE DEF fraction
  <2> QED BY <1>1, <1>2, AveragedWithIs
<1>4. From' = From
  BY <1>1 DEF From, ringVars
<1>5. settled.air = N => fraction \in {0, NAN}
  BY <1>2 DEF RingInv, AirborneRecorded, Airborne
<1>6. pinned => fraction \in {UNIT, NAN}
  <2>1. settled.ground = N => fraction \in {UNIT, NAN}
    BY <1>2 DEF RingInv, GroundRecorded, Grounded
  <2>2. settled.pure /\ clearing \notin Slots => fraction \in {UNIT, NAN}
    <3>1. clearing \notin Slots => (clearing # NotClearing => index < clearing)
      BY <1>2
    <3> QED BY <1>2, <3>1 DEF RingInv, GroundRecorded, Grounded
  <2> QED BY <2>1, <2>2
<1>7. AverageSettles'
  <2>1. settled'.air = N => average'.sum = 0
    BY <1>1, <1>3, <1>5 DEF RingInv, AverageSettles
  <2>2. pinned => average'.sum = UNIT * average'.count
    <3> HIDE DEF fraction
    <3> QED BY <1>1, <1>3, <1>6 DEF RingInv, AverageSettles
  <2>3. ASSUME settled.ground > 0, ~(average'.count > 0)
        PROVE  /\ main' = "average"
               /\ \E s \in Slots : s >= index' /\ raw_elevation_blending_fractions[s] = UNIT
    <3>1. fraction # UNIT /\ ~(average.count > 0)
      BY <1>3, <2>3
    <3>2. PICK s \in Slots : s >= index /\ raw_elevation_blending_fractions[s] = UNIT
      BY <1>1, <2>3, <3>1 DEF RingInv, AverageSettles
    <3>3. s # index
      BY <3>1, <3>2
    <3>4. index # N - 1 /\ s >= index + 1
      BY <1>2, <3>2, <3>3
    <3> QED BY <1>1, <3>2, <3>4
  <2> QED BY <1>1, <2>1, <2>2, <2>3 DEF AverageSettles, ringVars
<1>8. AirborneRecorded' /\ GroundRecorded'
  BY <1>1, <1>4
     DEF RingInv, AirborneRecorded, GroundRecorded, Airborne, Grounded, Recorded, ringVars,
         NotClearing
<1> QED BY <1>1, <1>7, <1>8 DEF RingInv, ReadBeforeReset, Averaged

\* What is averaged is as settled as is said.
LEMMA RingInject == TypeOK /\ RingInv /\ Inject => RingInv'
<1> SUFFICES ASSUME TypeOK, RingInv, Inject
             PROVE  RingInv'
  OBVIOUS
<1>1. /\ main' = "idle" /\ main = "inject"
      /\ elevation_blending_fraction' = average /\ average' = None
      /\ UNCHANGED <<clearing, ringVars, index, settled>>
  BY DEF Inject
<1>2. /\ N \in Nat \ {0} /\ UNIT \in Nat \ {0} /\ average \in Average
      /\ settled.ground \in 0 .. N
  BY RingTypes
<1>3. From' = From
  BY <1>1 DEF From, ringVars
<1>4. settled.air = N => IsFlight(average)
  BY <1>1 DEF RingInv, AverageSettles, IsFlight
<1>5. \/ settled.ground = N
      \/ settled.pure /\ settled.ground > 0 /\ clearing \notin Slots
      => IsGround(average)
  <2> SUFFICES ASSUME \/ settled.ground = N
                      \/ settled.pure /\ settled.ground > 0 /\ clearing \notin Slots
               PROVE  IsGround(average)
    OBVIOUS
  <2> DEFINE count == average.count
  <2>1. average.sum = UNIT * count
    BY <1>1 DEF RingInv, AverageSettles
  <2>2. count > 0 /\ count \in Nat
    BY <1>1, <1>2 DEF RingInv, AverageSettles, Average
  <2>3. UNIT * count # 0
    <3> HIDE DEF count
    <3> QED BY <1>2, <2>2
  <2> QED BY <2>1, <2>3 DEF IsGround, IsFlight
<1>6. Averaged'
  <2>1. index' = 0
    BY <1>1 DEF RingInv, Averaged
  <2> QED BY <1>1, <1>4, <1>5, <2>1
          DEF Averaged, AirborneUnadjusted, GroundPinned, IsFlight, IsGround
<1> QED BY <1>1, <1>3, <1>6
        DEF RingInv, AirborneRecorded, GroundRecorded, ReadBeforeReset, AverageSettles, Airborne,
            Grounded, Recorded, ringVars, NotClearing

LEMMA RingResetBegin == TypeOK /\ RingInv /\ ResetBegin => RingInv'
<1> SUFFICES ASSUME TypeOK, RingInv, ResetBegin
             PROVE  RingInv'
  OBVIOUS
<1>1. /\ clearing' = 0 /\ clearing' \in Slots /\ N \in Nat \ {0}
      /\ UNCHANGED <<main, ringVars, localVars, elevation_blending_fraction>>
      /\ settled'.air = settled.air /\ settled'.ground = settled.ground
  <2>1. clearing' = 0 /\ 0 \in Slots /\ N \in Nat \ {0}
    BY RingTypes DEF ResetBegin
  <2> QED BY <2>1 DEF ResetBegin, TypeOK
<1>2. From' = From /\ \A s \in Slots : ~(s < clearing')
  BY <1>1 DEF From, ringVars, localVars, Slots
<1>3. AirborneRecorded' /\ GroundRecorded'
  BY <1>1, <1>2
     DEF RingInv, AirborneRecorded, GroundRecorded, Airborne, Grounded, ringVars, NotClearing
<1> QED BY <1>1, <1>3
        DEF RingInv, ReadBeforeReset, AverageSettles, Averaged, AirborneUnadjusted, GroundPinned,
            ringVars, localVars

\* One slot less, while the index and what the flight loop read of it stay.
LEMMA RingResetSlot == TypeOK /\ RingInv /\ ResetSlot => RingInv'
<1> SUFFICES ASSUME TypeOK, RingInv, ResetSlot
             PROVE  RingInv'
  OBVIOUS
<1>1. /\ clearing \in 0 .. N - 1 /\ clearing' = clearing + 1 /\ N \in Nat \ {0}
      /\ NotClearing = N + 1 /\ Slots = 0 .. N - 1
      /\ UNCHANGED <<main, next_raw_elevation_blending_fractions_index, localVars,
                     elevation_blending_fraction>>
      /\ settled.air \in 0 .. N /\ settled'.air = settled.air
      /\ settled'.ground = 0 /\ settled'.pure = settled.pure
      /\ Raw' = [Raw EXCEPT ![clearing] = NAN] /\ Raw \in [Slots -> Fraction \cup {NAN}]
  BY RingTypes DEF ResetSlot, TypeOK, Raw
<1>2. \A s \in Slots : Raw'[s] = IF s = clearing THEN NAN ELSE Raw[s]
  BY <1>1
<1>3. From' = From /\ \A s \in Slots : Ahead(From', s) \in 0 .. N - 1
  <2>1. From' = From
    BY <1>1 DEF From, localVars
  <2> QED BY <2>1, RingTypes
<1>4. AirborneRecorded'
  <2>1. \A s \in Slots : Raw'[s] \in {0, NAN} \/ Ahead(From', s) < N - settled'.air
    BY <1>1, <1>2, <1>3 DEF RingInv, AirborneRecorded, Airborne, Raw
  <2>2. (settled.air = 0 /\ Recorded) \/ \A r \in Slots : r < clearing => Raw[r] \in {0, NAN}
    BY <1>1 DEF RingInv, AirborneRecorded, Airborne, Raw
  <2>3. (settled'.air = 0 /\ Recorded')
        \/ \A r \in Slots : r < clearing' => Raw'[r] \in {0, NAN}
    BY <1>1, <1>2, <2>2 DEF Recorded
  <2> QED BY <2>1, <2>3 DEF AirborneRecorded, Airborne, Raw
<1>5. GroundRecorded'
  <2>1. \A s \in Slots : Ahead(From', s) < N - settled'.ground
    BY <1>1, <1>3
  <2>2. (settled.ground = 0 /\ Recorded)
        \/ \A r \in Slots : r < clearing => Raw[r] \in {UNIT, NAN}
    BY <1>1 DEF RingInv, GroundRecorded, Grounded, Raw
  <2>3. (settled'.ground = 0 /\ Recorded')
        \/ \A r \in Slots : r < clearing' => Raw'[r] \in {UNIT, NAN}
    BY <1>1, <1>2, <2>2 DEF Recorded
  <2>4. ASSUME settled'.pure, NEW s \in Slots, s < clearing'
        PROVE  Raw'[s] \in {UNIT, NAN}
    <3>1. s < clearing \/ s = clearing
      BY <1>1, <2>4
    <3>2. s < clearing => Raw[s] \in {UNIT, NAN}
      BY <1>1, <2>4 DEF RingInv, GroundRecorded, Grounded, Raw
    <3> QED BY <1>1, <1>2, <3>1, <3>2
  <2>5. clearing' # NotClearing
    BY <1>1
  <2> QED BY <1>1, <2>1, <2>3, <2>4, <2>5 DEF GroundRecorded, Grounded, Raw, NotClearing
<1>6. ReadBeforeReset'
  BY <1>1, <1>2 DEF RingInv, ReadBeforeReset, Raw, localVars
<1>7. AverageSettles' /\ Averaged'
  BY <1>1
     DEF RingInv, AverageSettles, Averaged, AirborneUnadjusted, GroundPinned, localVars
<1> QED BY <1>4, <1>5, <1>6, <1>7 DEF RingInv

\* The ring is all on the side of frames that are still to be settled, wherever its index
\* goes, and empty if none was recorded meanwhile.
LEMMA RingResetIndex == TypeOK /\ RingInv /\ ResetIndex => RingInv'
<1> SUFFICES ASSUME TypeOK, RingInv, ResetIndex
             PROVE  RingInv'
  OBVIOUS
<1>1. /\ clearing = N /\ clearing' = NotClearing /\ NotClearing = N + 1
      /\ clearing \notin Slots /\ clearing' \notin Slots
      /\ N \in Nat \ {0} /\ UNIT \in Nat \ {0} /\ Slots = 0 .. N - 1
      /\ settled.air \in 0 .. N /\ settled.ground \in 0 .. N
      /\ UNCHANGED <<main, raw_elevation_blending_fractions, localVars,
                     elevation_blending_fraction, settled>>
  BY RingTypes DEF ResetIndex
<1>2. \A s \in Slots : Ahead(From', s) \in 0 .. N - 1
  <2>1. From' \in Slots
    <3>1. next_raw_elevation_blending_fractions_index' = 0 /\ index' \in Slots
      BY <1>1, RingTypes DEF ResetIndex, localVars
    <3> QED BY <1>1, <3>1 DEF From, Successor
  <2> QED BY <2>1, RingTurn
<1>3. \A s \in Slots : s < clearing
  BY <1>1
<1>4. (settled.air = 0 /\ Recorded) \/ \A s \in Slots : Airborne(s)
  BY <1>1, <1>3 DEF RingInv, AirborneRecorded
<1>5. (settled.ground = 0 /\ Recorded) \/ \A s \in Slots : Grounded(s)
  BY <1>1, <1>3 DEF RingInv, GroundRecorded
<1>6. AirborneRecorded'
  <2>1. \A s \in Slots : Airborne(s)' = Airborne(s)
    BY <1>1 DEF Airborne
  <2>2. ASSUME NEW s \in Slots
        PROVE  Airborne(s)' \/ Ahead(From', s) < N - settled'.air
    <3>1. CASE settled.air = 0
      BY <1>1, <1>2, <3>1
    <3>2. CASE settled.air # 0
      BY <1>4, <2>1, <3>2
    <3> QED BY <3>1, <3>2
  <2>3. clearing' = NotClearing'
    BY <1>1 DEF NotClearing
  <2> QED BY ONLY <2>2, <2>3 DEF AirborneRecorded
<1>7. GroundRecorded'
  <2>1. \A s \in Slots : Grounded(s)' = Grounded(s)
    BY <1>1 DEF Grounded
  <2>2. settled.pure => \A s \in Slots : Grounded(s)
    BY <1>3 DEF RingInv, GroundRecorded
  <2>3. settled.ground > 0 => \E s \in Slots : raw_elevation_blending_fractions[s] = UNIT
    BY DEF RingInv, GroundRecorded
  <2>4. ASSUME NEW s \in Slots
        PROVE  Grounded(s)' \/ Ahead(From', s) < N - settled'.ground
    <3>1. CASE settled.ground = 0
      BY <1>1, <1>2, <3>1
    <3>2. CASE settled.ground # 0
      BY <1>5, <2>1, <3>2
    <3> QED BY <3>1, <3>2
  <2>5. clearing' = NotClearing'
    BY <1>1 DEF NotClearing
  <2>6. settled'.ground > 0 => \E s \in Slots : raw_elevation_blending_fractions'[s] = UNIT
    BY ONLY <1>1, <2>3
  <2>7. settled'.pure => \A s \in Slots : Grounded(s)'
    BY ONLY <1>1, <2>1, <2>2
  <2> QED BY ONLY <2>4, <2>5, <2>6, <2>7 DEF GroundRecorded
<1>8. ReadBeforeReset'
  <2>1. ~Recorded => \A s \in Slots : raw_elevation_blending_fractions[s] = NAN
    BY <1>1, <1>4, <1>5 DEF Airborne, Grounded
  <2> QED BY <1>1, <2>1 DEF ReadBeforeReset, Recorded
<1>9. AverageSettles' /\ Averaged'
  BY <1>1
     DEF RingInv, AverageSettles, Averaged, AirborneUnadjusted, GroundPinned, localVars
<1> QED BY <1>6, <1>7, <1>8, <1>9 DEF RingInv

LEMMA RingInit == Init => RingInv
<1> SUFFICES ASSUME Init
             PROVE  RingInv
  OBVIOUS
<1>1. /\ \A s \in Slots : raw_elevation_blending_fractions[s] = NAN
      /\ clearing = NotClearing /\ N \in Nat \ {0} /\ main = "idle" /\ index = 0
      /\ average = None /\ settled.air = 0 /\ settled.ground = 0
  BY FlightLoopAssumption DEF Init
<1> QED BY <1>1
        DEF RingInv, AirborneRecorded, GroundRecorded, ReadBeforeReset, AverageSettles, Averaged,
            AirborneUnadjusted, GroundPinned, Airborne, Grounded

\* The speed that the low speed fraction is of is still the one when it is recorded.
LEMMA SpeedStep == TypeOK /\ SpeedTaken /\ [Next]_vars => SpeedTaken'
<1> SUFFICES ASSUME SpeedTaken, [Next]_vars
             PROVE  SpeedTaken'
  OBVIOUS
<1>1. CASE Evaluate
  BY <1>1 DEF Evaluate, SpeedTaken, LowSpeedFraction
<1>2. CASE UNCHANGED <<main, speedVars>>
  BY <1>2 DEF speedVars, SpeedTaken, LowSpeedFraction
<1>3. CASE main' # "record"
  BY <1>3 DEF SpeedTaken
<1> QED
  BY <1>1, <1>2, <1>3
     DEF Next, ConnectionNext, XPlaneNext, FlightLoopNext, Receive, ResetBegin, ResetSlot,
         ResetIndex, WriteFlag, MoveAircraft, Begin, Record, Count, Advance, AverageSlot, Inject,
         vars

LEMMA Inductive == IInv /\ [Next]_vars => IInv'
<1> SUFFICES ASSUME IInv, [Next]_vars
             PROVE  IInv'
  OBVIOUS
<1>1. TypeOK' /\ ContactCounted' /\ SpeedTaken' /\ TerrainExpires'
  BY TypeStep, ContactStep, SpeedStep, TerrainStep DEF IInv
<1>2. RingInv'
  <2>1. TypeOK /\ ContactCounted /\ SpeedTaken /\ RingInv
    BY DEF IInv, RingInv
  <2>2. CASE Receive \/ WriteFlag \/ MoveAircraft \/ UNCHANGED vars
    <3>1. UNCHANGED <<main, clearing, ringVars, localVars, elevation_blending_fraction, settled>>
      BY <2>2 DEF Receive, WriteFlag, MoveAircraft, vars
    <3> QED BY <2>1, <3>1, RingKept
  <2> QED
    BY <2>1, <2>2, RingBegin, RingEvaluate, RingRecord, RingCount, RingAdvance, RingAverageSlot,
       RingInject, RingResetBegin, RingResetSlot, RingResetIndex
       DEF Next, ConnectionNext, XPlaneNext, FlightLoopNext
<1> QED BY <1>1, <1>2 DEF IInv, RingInv

LEMMA Invariance == Spec => []IInv
<1>1. Init => IInv
  <2>1. Init => ContactCounted /\ SpeedTaken /\ TerrainExpires
    BY FlightLoopAssumption DEF Init, ContactCounted, SpeedTaken, TerrainExpires
  <2> QED BY <2>1, TypeInit, RingInit DEF IInv, RingInv
<1> QED
  BY <1>1, Inductive, PTL DEF Spec

-----------------------------------------------------------------------------
\* The variables stay within their types: counters are capped, fractions are fractions and
\* what is injected is a number.
THEOREM FlightLoopTypeCorrect == Spec => []TypeOK
<1>1. IInv => TypeOK
  BY DEF IInv
<1> QED
  BY <1>1, Invariance, PTL

\* A terrain elevation is dropped in time, whatever happens to frames and probes.
THEOREM TerrainIsRecent == Spec => []NoStaleTerrain
<1>1. IInv => NoStaleTerrain
  BY FlightLoopAssumption DEF IInv, TypeOK, TerrainExpires, NoStaleTerrain
<1> QED
  BY <1>1, Invariance, PTL

\* For a ring of any size, which is cleared slot by slot at any time and also between any
\* two accesses of the flight loop, so that a reset of its index may be lost:
\* as many frames as it holds end the blending on either side, and a reset leaves nothing
\* of what was before it.
THEOREM BlendingEnds == Spec => []BlendingSettles
<1>1. IInv => BlendingSettles
  BY DEF IInv, Averaged, BlendingSettles
<1> QED
  BY <1>1, Invariance, PTL

\* For any elevations: what is injected lies between PSX's and the terrain's, and what is
\* calculated back undoes it.
THEOREM ElevationIsTranslated == Spec => ElevationTranslated
<1>1. IInv /\ [Next]_vars => [Inject => InjectedBetween /\ CalculatedBack]_vars
  <2> SUFFICES ASSUME IInv, Inject
               PROVE  InjectedBetween /\ CalculatedBack
    OBVIOUS
  <2> DEFINE fraction == elevation_blending_fraction'
             pose == pose_elevation'
             terrain == terrain_elevation_meters'
             offset == Offset(fraction, pose, terrain)
  <2>1. TypeOK' /\ NAN \notin Int
    BY TypeStep, FlightLoopAssumption DEF IInv, Next, FlightLoopNext
  <2>2. /\ fraction \in Average /\ pose \in Int /\ terrain \in Int \cup {NAN}
    BY <2>1, FlightLoopAssumption DEF TypeOK
  <2>3. /\ Target \in Int /\ offset \in Int
        /\ terrain = NAN => Target = pose
        /\ terrain # NAN => Target \in Between(pose, terrain)
        /\ ~IsGround(fraction) => Target = pose + offset
    BY Zenon, <2>2, AdjustedBetween DEF Target
  <2> HIDE DEF offset
  <2>4. InjectedBetween
    <3>1. ~settings["suspend_injection"] => local_y' = Target
      BY DEF Inject, Target
    <3> QED BY <2>3, <3>1 DEF InjectedBetween
  <2>5. CalculatedBack
    <3>1. settings["suspend_injection"] /\ is_new_boost_frame => psx_elevation' = local_y - offset
      BY DEF Inject, Reversed, offset
    <3>2. local_y = Target /\ ~IsGround(fraction) => local_y - offset = pose
      <4> HIDE DEF fraction, pose
      <4> QED BY <2>2, <2>3
    <3> QED BY <3>1, <3>2 DEF CalculatedBack
  <2> QED BY <2>4, <2>5
<1> QED
  BY <1>1, Invariance, PTL DEF Spec, ElevationTranslated
===============================================================================
