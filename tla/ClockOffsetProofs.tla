------------------------- MODULE ClockOffsetProofs --------------------------
(***************************************************************************)
(* For every length of the second and of the ring: as long as frames never *)
(* seem to come from the future nor from more than half of a second ago,   *)
(* each recorded difference is exact, and the query that the flight loop   *)
(* makes of their average trails PSX by the buffer and at most by what the *)
(* network delayed.                                                        *)
(*                                                                         *)
(* The average is a sum over the records there are.  That it exists, and   *)
(* lies between the least and the greatest record, is shown by the least   *)
(* set for which it would not.                                             *)
(***************************************************************************)
EXTENDS ClockOffset, FiniteSetTheorems, WellFoundedInduction, TLAPS

\* Taking the milliseconds of a time within two seconds.
LEMMA MillisOfTwoSeconds ==
    ASSUME NEW t \in 0 .. 2 * SECOND - 1
    PROVE  MillisPart(t) = IF t < SECOND THEN t ELSE t - SECOND
<1>1. SECOND \in Nat \ {0}
  BY ClockAssumption DEF SECOND
<1>2. CASE t < SECOND
  BY <1>1, <1>2 DEF MillisPart
<1>3. CASE t >= SECOND
  BY <1>1, <1>3 DEF MillisPart
<1> QED BY <1>1, <1>2, <1>3

\* The wrap of plugin.c, 353-356, undoes both seconds for a frame that is at most
\* half of a second old.
LEMMA DiffIsExact ==
    ASSUME NEW psx \in Millis, NEW d \in 0 .. HALF_SECOND
    PROVE  Diff(MillisPart(psx + d), psx) = d
<1> DEFINE t == psx + d
<1>1. HALF_SECOND \in Nat \ {0} /\ t \in 0 .. 2 * SECOND - 1
  BY ClockAssumption DEF Millis, SECOND
<1>2. MillisPart(t) = IF t < SECOND THEN t ELSE t - SECOND
  <2> HIDE DEF t
  <2> QED BY <1>1, MillisOfTwoSeconds
<1> QED BY <1>1, <1>2 DEF Diff, Millis, SECOND

\* The ring is filled in order, so that the next record is the first free one.
RingOK ==
    /\ diff_receive_timestamp_millis \in [Records -> Int]
    /\ num_diff_receive_timestamp_millis \in 0 .. MAX_NUM_TIME_DIFFERENCE_RECORDS
    /\ next_diff_receive_timestamp_millis \in Records
    /\ num_diff_receive_timestamp_millis < MAX_NUM_TIME_DIFFERENCE_RECORDS
         => next_diff_receive_timestamp_millis = num_diff_receive_timestamp_millis
    /\ offset \in Offsets
    /\ actual \in [Records -> [offset : Offsets, latency : Latencies]]

IInv == RingOK /\ DiffsExact

\* The local clock is ahead, by less than half of a second minus the latency.
Ahead == \A o \in Offsets, l \in Latencies : o + l \in 0 .. HALF_SECOND

LEMMA RecordDiffKeeps ==
    ASSUME Ahead, IInv, NEW psx \in Millis, NEW latency \in Latencies,
           RecordDiff(psx, latency), offset' = offset
    PROVE  IInv'
<1> DEFINE next == next_diff_receive_timestamp_millis
           num == num_diff_receive_timestamp_millis
           measured == Diff(MillisPart(psx + offset + latency), psx)
<1>1. /\ offset \in Offsets /\ offset \in Int /\ latency \in Int /\ psx \in Int
      /\ MAX_NUM_TIME_DIFFERENCE_RECORDS \in Nat \ {0}
  BY ClockAssumption DEF IInv, RingOK, Millis, SECOND
<1>2. measured = offset + latency /\ measured \in Int
  <2>1. offset + latency \in 0 .. HALF_SECOND
    BY <1>1 DEF Ahead
  <2>2. psx + offset + latency = psx + (offset + latency)
    BY <1>1
  <2>3. Diff(MillisPart(psx + (offset + latency)), psx) = offset + latency
    BY <2>1, DiffIsExact
  <2> QED BY <1>1, <2>2, <2>3
<1>3. /\ diff_receive_timestamp_millis' = [diff_receive_timestamp_millis EXCEPT ![next] = measured]
      /\ actual' = [actual EXCEPT ![next] = [offset |-> offset, latency |-> latency]]
  BY DEF RecordDiff
<1>4. /\ num' = IF num < MAX_NUM_TIME_DIFFERENCE_RECORDS THEN num + 1 ELSE num
      /\ next' = IF next + 1 = MAX_NUM_TIME_DIFFERENCE_RECORDS THEN 0 ELSE next + 1
  BY DEF RecordDiff, MoreRecords, NextRecord
<1>5. RingOK'
  <2>1. diff_receive_timestamp_millis' \in [Records -> Int]
    BY <1>2, <1>3 DEF IInv, RingOK
  <2>2. actual' \in [Records -> [offset : Offsets, latency : Latencies]]
    BY <1>1, <1>3 DEF IInv, RingOK
  <2>3. /\ num' \in 0 .. MAX_NUM_TIME_DIFFERENCE_RECORDS
        /\ next' \in Records
        /\ num' < MAX_NUM_TIME_DIFFERENCE_RECORDS => next' = num'
    BY <1>1, <1>4 DEF IInv, RingOK, Records
  <2> QED BY <1>1, <2>1, <2>2, <2>3 DEF RingOK
<1>6. DiffsExact'
  <2> SUFFICES ASSUME NEW r \in Recorded'
               PROVE  diff_receive_timestamp_millis'[r] = actual'[r].offset + actual'[r].latency
    BY DEF DiffsExact
  <2>1. r \in Records
    BY <1>1, <1>4 DEF IInv, RingOK, Recorded, Records
  <2>2. CASE r = next
    BY <1>2, <1>3, <2>1, <2>2 DEF IInv, RingOK
  <2>3. CASE r # next
    <3>1. r \in Recorded
      BY <1>1, <1>4, <2>3 DEF IInv, RingOK, Recorded, Records
    <3>2. diff_receive_timestamp_millis[r] = actual[r].offset + actual[r].latency
      BY <3>1 DEF IInv, DiffsExact
    <3> QED BY <1>3, <2>1, <2>3, <3>2 DEF IInv, RingOK
  <2> QED BY <2>2, <2>3
<1> QED BY <1>5, <1>6 DEF IInv

LEMMA IInvStep ==
    ASSUME Ahead, IInv, [Next]_vars
    PROVE  IInv'
<1> USE DEF IInv, RingOK, DiffsExact, Recorded, ringVars
<1>1. CASE FrameReceived
  <2>1. CASE \E psx \in Millis, latency \in Latencies : RecordDiff(psx, latency)
    BY <1>1, <2>1, RecordDiffKeeps DEF FrameReceived
  <2>2. CASE UNCHANGED ringVars
    BY <1>1, <2>2 DEF FrameReceived
  <2> QED BY <1>1, <2>1, <2>2 DEF FrameReceived
<1>2. CASE CallbackLock
  BY <1>2 DEF CallbackLock
<1>3. CASE CallbackWrite
  BY <1>3 DEF CallbackWrite
<1>4. CASE SetTimeSource
  BY <1>4 DEF SetTimeSource
<1>5. CASE FlightLoopBegin
  BY <1>5 DEF FlightLoopBegin
<1>6. CASE FlightLoopQuery
  BY <1>6 DEF FlightLoopQuery
<1>7. CASE ChangeHost
  BY <1>7 DEF ChangeHost
<1>8. CASE UNCHANGED vars
  BY <1>8 DEF vars
<1> QED BY <1>1, <1>2, <1>3, <1>4, <1>5, <1>6, <1>7, <1>8 DEF Next, CallbackNext

LEMMA IInvInit == Init => IInv
<1> SUFFICES ASSUME Init PROVE IInv
  OBVIOUS
<1>1. RingOK
  <2>1. PICK l \in Latencies : actual = [r \in Records |-> [offset |-> offset, latency |-> l]]
    BY DEF Init
  <2>2. 0 \in Records
    BY ClockAssumption DEF Records
  <2> QED BY <2>1, <2>2, ClockAssumption DEF Init, RingOK
<1>2. Recorded = {}
  BY DEF Init, Recorded
<1> QED BY <1>1, <1>2 DEF IInv, DiffsExact

\* Whatever fails, whoever switches the source or the host: what plugin.c, 345-363,
\* records is the difference of the clocks plus the latency of that frame.
THEOREM RecordedDiffsExact ==
    ASSUME Ahead
    PROVE  Spec => []DiffsExact
<1>1. IInv /\ [Next]_vars => IInv'
  BY IInvStep
<1>2. IInv => DiffsExact
  BY DEF IInv
<1> QED BY IInvInit, <1>1, <1>2, PTL DEF Spec
-----------------------------------------------------------------------------
Below == {ss \in Nat \X Nat : ss[1] < ss[2]}

\* Natural numbers do not descend for ever.
LEMMA BelowWellFounded == IsWellFoundedOn(Below, Nat)
<1>1. Below = OpToRel(<, Nat)
  BY Zenon DEF Below, OpToRel
<1> QED
  BY <1>1, NatLessThanWellFounded

\* A set of natural numbers has a least one.
LEMMA LeastOfNat ==
    ASSUME NEW S \in SUBSET Nat, S # {}
    PROVE  \E least \in S : \A n \in S : least <= n
<1>1. PICK least \in S : \A n \in S : <<n, least>> \notin Below
  BY BelowWellFounded, WFMin
<1>2. ASSUME NEW n \in S
      PROVE  least <= n
  <2>1. n \in Nat /\ least \in Nat
    OBVIOUS
  <2>2. <<n, least>> \in Nat \X Nat /\ <<n, least>>[1] = n /\ <<n, least>>[2] = least
    BY <2>1
  <2>3. ~(n < least)
    BY <1>1, <2>2 DEF Below
  <2> QED
    BY <2>1, <2>3
<1> QED
  BY <1>2

AnyOf(s) == CHOOSE x \in s : TRUE

\* One turn of the sum over a set, with what was summed up so far.
Turn(f, g, s) == IF s = {} THEN 0 ELSE f[AnyOf(s)] + g[s \ {AnyOf(s)}]

\* The sums over all subsets of a finite set exist.
LEMMA SumsExist ==
    ASSUME NEW S, IsFiniteSet(S), NEW f
    PROVE  \E g : g = [s \in SUBSET S |-> Turn(f, g, s)]
<1> DEFINE Small(n) == {s \in SUBSET S : Cardinality(s) <= n}
           Sums(g, n) == g = [s \in Small(n) |-> Turn(f, g, s)]
<1>1. ASSUME NEW s \in SUBSET S
      PROVE  /\ IsFiniteSet(s) /\ Cardinality(s) \in Nat /\ Cardinality(s) <= Cardinality(S)
             /\ Cardinality(s) = 0 <=> s = {}
             /\ s # {} => /\ s \ {AnyOf(s)} \in SUBSET S
                          /\ Cardinality(s \ {AnyOf(s)}) = Cardinality(s) - 1
  <2>1. IsFiniteSet(s) /\ Cardinality(s) <= Cardinality(S)
    BY FS_Subset
  <2>2. s # {} => AnyOf(s) \in s
    BY DEF AnyOf
  <2> QED BY <2>1, <2>2, FS_CardinalityType, FS_EmptySet, FS_RemoveElement
<1>2. \E g : Sums(g, 0)
  <2> DEFINE g == [s \in Small(0) |-> 0]
  <2>1. ASSUME NEW s \in Small(0)
        PROVE  Turn(f, g, s) = 0
    <3>1. s \in SUBSET S /\ Cardinality(s) <= 0
      OBVIOUS
    <3>2. Cardinality(s) \in Nat /\ (Cardinality(s) = 0 <=> s = {})
      BY ONLY <1>1, <3>1
    <3>3. Cardinality(s) = 0
      BY ONLY <3>1, <3>2
    <3>4. s = {}
      BY ONLY <3>2, <3>3
    <3> QED BY <3>4 DEF Turn
  <2>2. g = [s \in Small(0) |-> Turn(f, g, s)]
    BY <2>1
  <2> QED BY <2>2
<1>3. ASSUME NEW n \in Nat, NEW g, Sums(g, n)
      PROVE  \E h : Sums(h, n + 1)
  <2> DEFINE h == [s \in Small(n + 1) |-> Turn(f, g, s)]
  <2>1. ASSUME NEW s \in Small(n + 1)
        PROVE  Turn(f, h, s) = Turn(f, g, s)
    <3>1. CASE s = {}
      BY <3>1 DEF Turn
    <3>2. CASE s # {}
      <4> DEFINE r == s \ {AnyOf(s)}
      <4>1. r \in Small(n) /\ r \in Small(n + 1)
        BY <1>1, <3>2
      <4>2. h[r] = Turn(f, g, r) /\ g[r] = Turn(f, g, r)
        <5> HIDE DEF r, Small
        <5> QED BY <1>3, <4>1
      <4> QED BY <3>2, <4>2 DEF Turn
    <3> QED BY <3>1, <3>2
  <2>2. h = [s \in Small(n + 1) |-> Turn(f, h, s)]
    BY <2>1
  <2> QED BY <2>2
<1>4. ASSUME NEW n \in Nat
      PROVE  \E g : Sums(g, n)
  <2> DEFINE Bad == {k \in Nat : ~\E g : Sums(g, k)}
  <2> HIDE DEF Sums
  <2>1. SUFFICES ASSUME Bad # {}
                 PROVE  FALSE
    OBVIOUS
  <2>2. PICK k \in Bad : \A j \in Bad : k <= j
    BY <2>1, LeastOfNat
  <2>3. k # 0
    BY <1>2, <2>2
  <2>4. k - 1 \in Nat /\ k - 1 \notin Bad
    BY <2>2, <2>3
  <2>5. PICK g : Sums(g, k - 1)
    BY <2>4
  <2>6. \E h : Sums(h, (k - 1) + 1)
    BY <1>3, <2>4, <2>5
  <2> QED BY <2>2, <2>6
<1>5. Small(Cardinality(S)) = SUBSET S /\ Cardinality(S) \in Nat
  BY <1>1, FS_CardinalityType
<1> QED BY <1>4, <1>5

Sums(S, f) == CHOOSE iter : iter = [s \in SUBSET S |-> Turn(f, iter, s)]

SumOver(f, S) == FoldFunctionOnSet(+, 0, f, S)

\* It is what the library's fold adds up.
LEMMA SumIs == ASSUME NEW S, NEW f
  PROVE SumOver(f, S) = Sums(S, f)[S]
BY Zenon DEF SumOver, FoldFunctionOnSet, MapThenFoldSet, Sums, Turn, AnyOf

\* A sum lies between as many of the least and as many of the greatest value.
LEMMA SumBounded ==
    ASSUME NEW S, IsFiniteSet(S), NEW f, NEW lo \in Int, NEW hi \in Int,
           \A x \in S : f[x] \in lo .. hi
    PROVE  /\ SumOver(f, S) \in Int
           /\ lo * Cardinality(S) <= SumOver(f, S)
           /\ SumOver(f, S) <= hi * Cardinality(S)
<1> DEFINE g == Sums(S, f)
           Within(s) == g[s] \in Int /\ lo * Cardinality(s) <= g[s] /\ g[s] <= hi * Cardinality(s)
<1>1. \A s \in SUBSET S : g[s] = Turn(f, g, s)
  <2>1. g = [s \in SUBSET S |-> Turn(f, g, s)]
    BY SumsExist DEF Sums
  <2> HIDE DEF g
  <2> QED BY <2>1
<1>2. ASSUME NEW s \in SUBSET S
      PROVE  /\ Cardinality(s) \in Nat
             /\ Cardinality(s) = 0 <=> s = {}
             /\ s # {} => /\ s \ {AnyOf(s)} \in SUBSET S /\ AnyOf(s) \in s
                          /\ Cardinality(s \ {AnyOf(s)}) = Cardinality(s) - 1
  <2>1. IsFiniteSet(s)
    BY FS_Subset
  <2>2. s # {} => AnyOf(s) \in s
    BY DEF AnyOf
  <2> QED BY <2>1, <2>2, FS_CardinalityType, FS_EmptySet, FS_RemoveElement
<1> HIDE DEF g
<1>3. \A s \in SUBSET S : Within(s)
  <2> DEFINE Bad == {k \in Nat : \E s \in SUBSET S : Cardinality(s) = k /\ ~Within(s)}
  <2>1. SUFFICES ASSUME Bad # {}
                 PROVE  FALSE
    BY <1>2
  <2>2. PICK k \in Bad : \A j \in Bad : k <= j
    BY <2>1, LeastOfNat
  <2>3. PICK s \in SUBSET S : Cardinality(s) = k /\ ~Within(s)
    BY <2>2
  <2>4. s # {}
    <3> SUFFICES ASSUME s = {}
                 PROVE  Within(s)
      BY <2>3
    <3>1. g[s] = 0 /\ Cardinality(s) = 0
      BY <1>1, <1>2 DEF Turn
    <3> QED BY <3>1
  <2> DEFINE r == s \ {AnyOf(s)}
             last == f[AnyOf(s)]
             c == Cardinality(r)
  <2>5. r \in SUBSET S /\ c = k - 1 /\ c \in Nat /\ last \in lo .. hi
        /\ g[s] = last + g[r] /\ k \in Nat
    BY <1>1, <1>2, <2>2, <2>3, <2>4 DEF Turn
  <2>6. Within(r)
    BY <2>2, <2>5
  <2>7. lo * (c + 1) = lo * c + lo /\ hi * (c + 1) = hi * c + hi /\ lo * c \in Int /\ hi * c \in Int
    <3> HIDE DEF c
    <3> QED BY <2>5
  <2>8. Within(s)
    <3> DEFINE a == lo * c
               b == hi * c
    <3>1. /\ lo * Cardinality(s) = a + lo /\ hi * Cardinality(s) = b + hi
          /\ a \in Int /\ b \in Int /\ g[r] \in Int /\ a <= g[r] /\ g[r] <= b
      BY <2>3, <2>5, <2>6, <2>7
    <3> HIDE DEF a, b, r, last
    <3> QED BY <2>5, <3>1
  <2> QED BY <2>3, <2>8
<1>4. S \in SUBSET S /\ SumOver(f, S) = g[S]
  BY SumIs DEF g
<1> QED BY <1>3, <1>4
-----------------------------------------------------------------------------

LEMMA ProductOrder ==
    ASSUME NEW a \in Int, NEW b \in Int, NEW d \in Nat, a <= b
    PROVE  a * d \in Int /\ b * d \in Int /\ a * d <= b * d
<1> DEFINE c == b - a
<1>1. c \in Nat /\ b = a + c
  OBVIOUS
<1> HIDE DEF c
<1>2. c * d \in Nat /\ (a + c) * d = a * d + c * d /\ a * d \in Int
  BY <1>1
<1> QED BY <1>1, <1>2

LEMMA RemainderOf ==
    ASSUME NEW d \in Nat \ {0}, NEW q \in Int, NEW r \in 0 .. d - 1
    PROVE  (d * q + r) % d = r
OBVIOUS

\* What is left from subtracting a remainder.
LEMMA BackFromRemainder ==
    ASSUME NEW m \in Nat \ {0}, NEW x \in Int, NEW lag \in 0 .. m - 1, NEW k \in Int
    PROVE  (x - ((x - lag - m * k) % m)) % m = lag
<1> DEFINE y == x - lag - m * k
           q == y \div m
           p == k + q
<1>1. m * k \in Int
  OBVIOUS
<1>2. y \in Int /\ x = y + lag + m * k
  BY <1>1
<1> HIDE DEF y
<1>3. q \in Int /\ y % m = y - m * q /\ m * q \in Int
  BY <1>2
<1> HIDE DEF q
<1>4. p \in Int /\ m * p = m * k + m * q
  BY <1>3
<1>5. x - (y % m) = m * p + lag
  BY <1>1, <1>2, <1>3, <1>4
<1> HIDE DEF p
<1>6. (x - (y % m)) % m = lag
  BY <1>4, <1>5, RemainderOf
<1> QED BY <1>6 DEF y
-----------------------------------------------------------------------------
num == num_diff_receive_timestamp_millis

MeanOfRing == Mean(diff_receive_timestamp_millis, num)

\* The callback's local variable and the average that is taken from it are the mean of
\* the ring, which does not change before the callback ends.
AveragesRing ==
    /\ avg_time_diff_millis # NAN =>
         callback # "none" /\ num # 0 /\ avg_time_diff_millis = MeanOfRing
    /\ average_of = "ring" => num # 0 /\ average_psx_time_difference = MeanOfRing

LEMMA AveragesRingStep ==
    ASSUME IInv, AveragesRing, [Next]_vars
    PROVE  AveragesRing'
<1> USE DEF AveragesRing, MeanOfRing, num, ringVars, averageVars
<1>1. CASE FrameReceived
  <2>1. CASE \E psx \in Millis, latency \in Latencies : RecordDiff(psx, latency)
    <3>1. num' # 0 /\ avg_time_diff_millis' = MeanOfRing' /\ average_of' # "ring"
      <4>1. PICK psx \in Millis, latency \in Latencies : RecordDiff(psx, latency)
        BY <2>1
      <4>2. num' = IF num < MAX_NUM_TIME_DIFFERENCE_RECORDS THEN num + 1 ELSE num
        BY <4>1 DEF RecordDiff, MoreRecords
      <4>3. num \in 0 .. MAX_NUM_TIME_DIFFERENCE_RECORDS
        BY DEF IInv, RingOK
      <4>4. num' # 0
        <5> HIDE DEF num
        <5> QED BY <4>2, <4>3, ClockAssumption
      <4>5. avg_time_diff_millis' = MeanOfRing' /\ average_of' # "ring"
        BY <4>1 DEF RecordDiff
      <4> QED BY <4>4, <4>5
    <3> QED BY <1>1, <3>1 DEF FrameReceived
  <2>2. CASE avg_time_diff_millis' = NAN /\ UNCHANGED <<ringVars, average_of>>
    BY <1>1, <2>2 DEF FrameReceived
  <2> QED BY <1>1, <2>1, <2>2 DEF FrameReceived
<1>2. CASE CallbackLock
  BY <1>2 DEF CallbackLock
<1>3. CASE CallbackWrite
  BY <1>3 DEF CallbackWrite
<1>4. CASE SetTimeSource
  BY <1>4 DEF SetTimeSource
<1>5. CASE FlightLoopBegin
  BY <1>5 DEF FlightLoopBegin
<1>6. CASE FlightLoopQuery
  BY <1>6 DEF FlightLoopQuery
<1>7. CASE ChangeHost
  BY <1>7 DEF ChangeHost
<1>8. CASE UNCHANGED vars
  BY <1>8 DEF vars
<1> QED BY <1>1, <1>2, <1>3, <1>4, <1>5, <1>6, <1>7, <1>8 DEF Next, CallbackNext

\* Records of one host average to its offset and a latency between the least and the
\* greatest one of them.
LEMMA SettledMean ==
    ASSUME Ahead, IInv, AveragesRing, Settled
    PROVE  /\ num \in Nat \ {0}
           /\ average_psx_time_difference = MeanOfRing
           /\ MeanOfRing.num = num /\ MeanOfRing.sum \in Int
           /\ \E low, high \in Latencies :
                /\ (offset + low) * num <= MeanOfRing.sum
                /\ MeanOfRing.sum <= (offset + high) * num
<1> DEFINE diffs == diff_receive_timestamp_millis
           sum == SumOver(diffs, Recorded)
           Short(r) == HALF_SECOND - diffs[r]
<1>1. /\ num \in Nat \ {0} /\ average_psx_time_difference = MeanOfRing
      /\ Recorded = 0 .. num - 1 /\ Recorded \subseteq Records
      /\ offset \in Int /\ offset \in Offsets /\ HALF_SECOND \in Nat /\ Latencies \subseteq Nat
  BY ClockAssumption DEF IInv, RingOK, AveragesRing, Settled, num, Recorded, Records
<1>2. MeanOfRing.num = num /\ MeanOfRing.sum = sum
  BY Zenon, <1>1 DEF MeanOfRing, Mean, SumOver
<1>3. IsFiniteSet(Recorded) /\ Cardinality(Recorded) = num
  BY <1>1, FS_Interval
<1>4. \A r \in Recorded : /\ actual[r].latency \in Latencies
                          /\ diffs[r] = offset + actual[r].latency
                          /\ diffs[r] \in 0 .. HALF_SECOND
  <2> SUFFICES ASSUME NEW r \in Recorded
               PROVE  /\ actual[r].latency \in Latencies
                      /\ diffs[r] = offset + actual[r].latency
                      /\ diffs[r] \in 0 .. HALF_SECOND
    OBVIOUS
  <2>1. actual[r].latency \in Latencies /\ actual[r].offset = offset
    BY <1>1 DEF IInv, RingOK, Settled
  <2>2. diffs[r] = offset + actual[r].latency
    BY <2>1 DEF IInv, DiffsExact
  <2>3. offset + actual[r].latency \in 0 .. HALF_SECOND
    BY <1>1, <2>1 DEF Ahead
  <2> QED BY <2>1, <2>2, <2>3
<1>5. PICK first \in Recorded : \A r \in Recorded : diffs[first] <= diffs[r]
  <2> DEFINE D == {diffs[r] : r \in Recorded}
  <2>1. D \in SUBSET Nat /\ D # {}
    BY <1>1, <1>4
  <2>2. PICK least \in D : \A d \in D : least <= d
    <3> HIDE DEF D
    <3> QED BY <2>1, LeastOfNat
  <2> QED BY <2>2
<1>6. PICK last \in Recorded : \A r \in Recorded : diffs[r] <= diffs[last]
  <2> DEFINE D == {Short(r) : r \in Recorded}
  <2>1. D \in SUBSET Nat /\ D # {}
    BY <1>1, <1>4
  <2>2. PICK least \in D : \A d \in D : least <= d
    <3> HIDE DEF D
    <3> QED BY <2>1, LeastOfNat
  <2>3. PICK r \in Recorded : \A s \in Recorded : Short(r) <= Short(s)
    BY <2>2
  <2>4. \A s \in Recorded : diffs[s] <= diffs[r]
    BY <1>1, <1>4, <2>3
  <2> QED BY <2>4
<1> DEFINE low == diffs[first]
           high == diffs[last]
<1>7. low \in Int /\ high \in Int /\ \A r \in Recorded : diffs[r] \in low .. high
  BY <1>4, <1>5, <1>6
<1>8. sum \in Int /\ low * num <= sum /\ sum <= high * num
  <2> HIDE DEF low, high, diffs
  <2> QED BY Zenon, <1>3, <1>7, SumBounded
<1>9. /\ actual[first].latency \in Latencies /\ low = offset + actual[first].latency
      /\ actual[last].latency \in Latencies /\ high = offset + actual[last].latency
  BY <1>4
<1> HIDE DEF low, high, sum
<1> QED BY <1>1, <1>2, <1>8, <1>9

\* A mean of differences is the difference of the clocks and a latency again, and the
\* flight loop's loops bring the time it queries into the second from there.
LEMMA SettledQuery ==
    ASSUME Ahead, IInv, AveragesRing
    PROVE  QueryTrailsPsx
<1> SUFFICES ASSUME Settled, NEW psx \in Millis, NEW buffer \in Millis,
                    \A l \in Latencies : buffer + l < SECOND
             PROVE  LET n == average_psx_time_difference.num
                        lag == (psx * n - Query(MillisPart(psx + offset), buffer)) % (SECOND * n)
                    IN  \E low, high \in Latencies :
                          (buffer + low) * n <= lag /\ lag <= (buffer + high) * n
  BY DEF QueryTrailsPsx
<1> DEFINE n == average_psx_time_difference.num
           sum == average_psx_time_difference.sum
           m == SECOND * n
           now == MillisPart(psx + offset)
           k == (psx + offset) \div SECOND
           late == sum - offset * n
           lag == buffer * n + late
           x == psx * n
<1>1. /\ psx \in Int /\ buffer \in Nat /\ offset \in Int /\ SECOND \in Nat \ {0}
      /\ Latencies \subseteq Nat
  BY ClockAssumption DEF Millis, SECOND, IInv, RingOK
<1>2. PICK low \in Latencies, high \in Latencies :
        /\ n \in Nat \ {0} /\ sum \in Int
        /\ (offset + low) * n <= sum /\ sum <= (offset + high) * n
  BY SettledMean
<1> HIDE DEF n, sum
<1>3. m \in Nat \ {0}
  BY <1>1, <1>2
<1>4. k \in Int /\ now = psx + offset - SECOND * k
  BY <1>1 DEF MillisPart
<1>5. /\ offset * n \in Int /\ psx * n \in Int /\ buffer * n \in Int
      /\ low * n \in Int /\ high * n \in Int
      /\ (offset + low) * n = offset * n + low * n
      /\ (offset + high) * n = offset * n + high * n
      /\ (buffer + low) * n = buffer * n + low * n
      /\ (buffer + high) * n = buffer * n + high * n
  BY <1>1, <1>2
<1>6. (buffer + low) * n <= lag /\ lag <= (buffer + high) * n /\ lag \in Int
  <2> DEFINE a == offset * n
             b == buffer * n
             c == low * n
             d == high * n
  <2>1. /\ a \in Int /\ b \in Int /\ c \in Int /\ d \in Int /\ sum \in Int
        /\ a + c <= sum /\ sum <= a + d /\ lag = b + (sum - a)
        /\ (buffer + low) * n = b + c /\ (buffer + high) * n = b + d
    BY <1>2, <1>5
  <2> HIDE DEF a, b, c, d, lag
  <2> QED BY <2>1
<1>7. lag \in 0 .. m - 1
  <2>1. (buffer + low) * n >= 0
    BY <1>1, <1>2
  <2>2. (buffer + high) * n < m
    <3> DEFINE e == SECOND - (buffer + high)
               f == buffer + high
    <3>1. e \in Nat \ {0} /\ f \in Nat /\ SECOND = e + f
      BY <1>1, <1>2
    <3> HIDE DEF e, f
    <3>2. (e + f) * n = e * n + f * n /\ e * n \in Nat \ {0} /\ f * n \in Nat
      BY <1>2, <3>1
    <3>3. f * n < (e + f) * n
      BY <3>2
    <3> QED BY <3>1, <3>3 DEF f
  <2>3. (buffer + low) * n \in Int /\ (buffer + high) * n \in Int
    BY <1>1, <1>2
  <2> HIDE DEF lag, m
  <2> QED BY <1>3, <1>6, <2>1, <2>2, <2>3
<1>8. (now - buffer) * n - sum = x - lag - m * k
  <2>1. (now - buffer) * n = psx * n + offset * n - (SECOND * k) * n - buffer * n
    BY <1>1, <1>2, <1>4
  <2>2. (SECOND * k) * n = m * k /\ m * k \in Int
    BY <1>1, <1>2, <1>4
  <2> DEFINE a == offset * n
             b == buffer * n
             c == psx * n
             d == (SECOND * k) * n
             e == (now - buffer) * n
  <2>3. /\ a \in Int /\ b \in Int /\ c \in Int /\ d \in Int /\ e = c + a - d - b /\ x = c
        /\ lag = b + (sum - a) /\ d = m * k
    BY <1>5, <2>1, <2>2
  <2>4. e - sum = x - lag - d
    <3> HIDE DEF a, b, c, d, e, x, lag
    <3> QED BY <1>2, <2>3
  <2> QED BY <2>2, <2>4
<1>9. Query(now, buffer) = (x - lag - m * k) % m
  BY <1>8 DEF Query, n, sum
<1>10. x \in Int
  BY <1>5
<1>11. (x - Query(now, buffer)) % m = lag
  <2> HIDE DEF x, lag, m, k, now
  <2>1. (x - ((x - lag - m * k) % m)) % m = lag
    BY <1>3, <1>4, <1>7, <1>10, BackFromRemainder
  <2> QED BY Zenon, <1>9, <2>1
<1> HIDE DEF lag, now
<1> QED BY <1>6, <1>11 DEF n, x, m, now

\* With all clocks and latencies in reach: the flight loop asks for the state of PSX as
\* old as the buffer, and older at most by what frames were under way (plugin.c,
\* 1177-1192), for every length of the second and of the ring.
THEOREM QueriesTrailPsx ==
    ASSUME Ahead
    PROVE  Spec => []QueryTrailsPsx
<1>1. Init => IInv /\ AveragesRing
  <2>1. Init => AveragesRing
    BY DEF Init, AveragesRing
  <2> QED BY <2>1, IInvInit
<1>2. IInv /\ AveragesRing /\ [Next]_vars => (IInv /\ AveragesRing)'
  BY IInvStep, AveragesRingStep
<1>3. IInv /\ AveragesRing => QueryTrailsPsx
  BY SettledQuery
<1> QED BY <1>1, <1>2, <1>3, PTL DEF Spec
=============================================================================
