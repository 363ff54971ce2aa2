------------------------- MODULE MeasurementProofs -------------------------
(***************************************************************************)
(* Proofs about Measurement: its types, the accuracy of the estimates of a *)
(* clock, and that it implements the safety part of MeasurementContract.   *)
(***************************************************************************)
EXTENDS Measurement, FiniteSetTheorems, SequenceTheorems, TLAPS

-----------------------------------------------------------------------------
(* The sorted estimates (median, engine.go:790). *)

Sorted(points) == \A i, j \in DOMAIN points : i <= j => points[i] <= points[j]

\* Any nonempty set of naturals has a least element.
LEMMA NaturalsHaveLeast ==
  ASSUME NEW S \in SUBSET Nat, S # {}
  PROVE  \E p \in S : \A q \in S : p <= q
<1>1. PICK p \in S : \A q \in S : ~(<<q, p>> \in OpToRel(<, Nat))
  BY NatLessThanWellFounded, WFMin
<1>2. ASSUME NEW q \in S PROVE p <= q
  <2>1. p \in Nat /\ q \in Nat
    OBVIOUS
  <2>2. ~(q < p)
    BY <1>1, <2>1 DEF OpToRel
  <2> QED BY <2>1, <2>2
<1> QED BY <1>2

\* A sorted sequence has a place for every estimate.
LEMMA RankExists ==
  ASSUME NEW points \in Seq(Int), Sorted(points), NEW x \in Int
  PROVE  /\ Rank(points, x) \in 1 .. Len(points) + 1
         /\ \A i \in DOMAIN points : points[i] <= x <=> i < Rank(points, x)
<1> DEFINE n == Len(points)
           After == {k \in 1 .. n + 1 : \A i \in DOMAIN points : i >= k => x < points[i]}
<1>1. n \in Nat /\ DOMAIN points = 1 .. n /\ (\A i \in 1 .. n : points[i] \in Int)
  OBVIOUS
<1>2. n + 1 \in After /\ After \subseteq Nat
  BY <1>1
<1>3. PICK k \in After : \A q \in After : k <= q
  <2> HIDE DEF After
  <2> QED BY <1>2, NaturalsHaveLeast
<1>4. k \in 1 .. n + 1 /\ (\A i \in 1 .. n : i >= k => x < points[i])
  BY <1>1, <1>3
<1>5. ASSUME k > 1 PROVE points[k - 1] <= x
  <2>1. k - 1 \notin After
    <3>1. k - 1 < k /\ k - 1 \in Nat
      BY <1>4, <1>5, <1>1
    <3> QED BY <1>3, <3>1, <1>4
  <2>2. k - 1 \in 1 .. n
    BY <1>1, <1>4, <1>5
  <2>3. PICK i \in 1 .. n : i >= k - 1 /\ ~(x < points[i])
    BY <1>1, <2>1, <2>2
  <2>4. i = k - 1
    BY <1>1, <1>4, <2>2, <2>3
  <2> QED BY <1>1, <2>2, <2>3, <2>4
<1>6. \A i \in DOMAIN points : points[i] <= x <=> i < k
  <2> TAKE i \in DOMAIN points
  <2>1. CASE i >= k
    BY <1>1, <1>4, <2>1
  <2>2. CASE i < k
    <3>1. k > 1 /\ i <= k - 1 /\ k - 1 \in 1 .. n
      BY <1>1, <1>4, <2>2
    <3>2. points[i] <= points[k - 1]
      BY <1>1, <3>1 DEF Sorted
    <3> QED BY <1>1, <1>5, <2>2, <3>1, <3>2
  <2> QED BY <1>1, <1>4, <2>1, <2>2
<1> QED BY <1>4, <1>6 DEF Rank

\* Where With puts a new estimate, and where the others go.
LEMMA WithInserts ==
  ASSUME NEW points \in Seq(Int), Sorted(points), NEW x \in Int
  PROVE  /\ With(points, x) \in Seq(Int)
         /\ Len(With(points, x)) = Len(points) + 1
         /\ \A i \in 1 .. Len(points) + 1 :
              With(points, x)[i] = IF i < Rank(points, x) THEN points[i]
                                   ELSE IF i = Rank(points, x) THEN x ELSE points[i - 1]
<1> DEFINE n == Len(points)
           k == Rank(points, x)
           low == SubSeq(points, 1, k - 1)
           high == SubSeq(points, k, n)
<1>1. n \in Nat /\ k \in 1 .. n + 1 /\ DOMAIN points = 1 .. n
  BY RankExists
<1>2. /\ low \in Seq(Int) /\ Len(low) = k - 1
      /\ \A i \in 1 .. k - 1 : low[i] = points[i]
  BY <1>1
<1>3. /\ high \in Seq(Int) /\ Len(high) = n - k + 1
      /\ \A i \in 1 .. n - k + 1 : high[i] = points[k + i - 1]
  BY <1>1, SMTT(60)
<1>4. With(points, x) = (low \o <<x>>) \o high
  BY DEF With, InsertAt
<1> HIDE DEF n, k, low, high
<1>5. /\ low \o <<x>> \in Seq(Int) /\ Len(low \o <<x>>) = k
      /\ \A i \in 1 .. k : (low \o <<x>>)[i] = IF i < k THEN low[i] ELSE x
  BY <1>1, <1>2
<1> DEFINE left == low \o <<x>>
<1> HIDE DEF left
<1>6. left \in Seq(Int) /\ Len(left) = k
      /\ (\A i \in 1 .. k : left[i] = IF i < k THEN low[i] ELSE x)
  BY <1>5 DEF left
<1> DEFINE all == left \o high
<1>7. /\ all \in Seq(Int) /\ Len(all) = Len(left) + Len(high)
      /\ \A i \in 1 .. Len(left) + Len(high) :
           all[i] = IF i <= Len(left) THEN left[i] ELSE high[i - Len(left)]
  BY <1>3, <1>6, ConcatProperties, Zenon
<1> HIDE DEF all
<1>8. /\ all \in Seq(Int) /\ Len(all) = n + 1
      /\ \A i \in 1 .. n + 1 : all[i] = IF i <= k THEN left[i] ELSE high[i - k]
  BY <1>1, <1>3, <1>6, <1>7
<1>9. ASSUME NEW i \in 1 .. n + 1
      PROVE  all[i] = IF i < k THEN points[i] ELSE IF i = k THEN x ELSE points[i - 1]
  <2>1. CASE i < k
    <3>1. i \in 1 .. k - 1 /\ i \in 1 .. k /\ i <= k
      BY <1>1, <2>1
    <3>2. all[i] = left[i] /\ left[i] = low[i] /\ low[i] = points[i]
      BY <1>2, <1>6, <1>8, <2>1, <3>1
    <3> QED BY <2>1, <3>2
  <2>2. CASE i = k
    <3>1. i \in 1 .. k /\ i <= k /\ ~(i < k)
      BY <1>1, <2>2
    <3>2. all[i] = left[i] /\ left[i] = x
      BY <1>6, <1>8, <3>1
    <3> QED BY <2>2, <3>1, <3>2
  <2>3. CASE i > k
    <3>1. /\ i - k \in 1 .. n - k + 1 /\ k + (i - k) - 1 = i - 1
          /\ ~(i < k) /\ ~(i <= k) /\ i # k
      BY <1>1, <2>3
    <3>2. all[i] = high[i - k] /\ high[i - k] = points[k + (i - k) - 1]
      BY <1>3, <1>8, <3>1
    <3> QED BY <3>1, <3>2
  <2> QED BY <1>1, <2>1, <2>2, <2>3
<1> QED BY <1>4, <1>8, <1>9 DEF all, left, n, k

\* The estimates stay sorted.
LEMMA WithSorted ==
  ASSUME NEW points \in Seq(Int), Sorted(points), NEW x \in Int
  PROVE  Sorted(With(points, x))
<1> DEFINE n == Len(points)
           k == Rank(points, x)
           w == With(points, x)
<1>0. n \in Nat /\ DOMAIN points = 1 .. n /\ (\A i \in 1 .. n : points[i] \in Int)
  OBVIOUS
<1>1. /\ n \in Nat /\ k \in 1 .. n + 1 /\ DOMAIN points = 1 .. n
      /\ \A i \in 1 .. n : points[i] \in Int /\ (points[i] <= x <=> i < k)
  BY <1>0, RankExists
<1>2. \A i, j \in 1 .. n : i <= j => points[i] <= points[j]
  BY <1>1 DEF Sorted
<1>3. DOMAIN w = 1 .. n + 1
  BY WithInserts
<1>4. \A i \in 1 .. n + 1 :
        w[i] = IF i < k THEN points[i] ELSE IF i = k THEN x ELSE points[i - 1]
  BY WithInserts
<1> HIDE DEF n, k, w
<1>5. ASSUME NEW i \in 1 .. n + 1, NEW j \in 1 .. n + 1, i <= j
      PROVE  w[i] <= w[j]
  <2>1. CASE j < k
    BY <1>1, <1>2, <1>4, <1>5, <2>1
  <2>2. CASE i < k /\ j >= k
    <3>1. i \in 1 .. n /\ points[i] <= x /\ w[i] = points[i]
      BY <1>1, <1>4, <2>2
    <3>2. j > k => j - 1 \in 1 .. n /\ i <= j - 1 /\ w[j] = points[j - 1]
      BY <1>1, <1>4, <2>2
    <3>3. j = k => w[j] = x
      BY <1>1, <1>4
    <3> QED BY <1>1, <1>2, <2>2, <3>1, <3>2, <3>3
  <2>3. CASE i = k
    <3>1. w[i] = x
      BY <1>1, <1>4, <2>3
    <3>2. j > k => j - 1 \in 1 .. n /\ ~(j - 1 < k) /\ w[j] = points[j - 1]
      BY <1>1, <1>4, <2>3
    <3> QED BY <1>1, <1>5, <2>3, <3>1, <3>2
  <2>4. CASE i > k
    <3>1. i - 1 \in 1 .. n /\ j - 1 \in 1 .. n /\ i - 1 <= j - 1
      BY <1>1, <1>5, <2>4
    <3>2. w[i] = points[i - 1] /\ w[j] = points[j - 1]
      BY <1>1, <1>4, <1>5, <2>4
    <3> QED BY <1>2, <3>1, <3>2
  <2> QED BY <1>1, <2>1, <2>2, <2>3, <2>4
<1> QED BY <1>3, <1>5 DEF Sorted, w

-----------------------------------------------------------------------------
(* Accuracy.  Everything is doubled, as the estimates are. *)

Near(x, s) == x >= 2 * Offset[s] - MaxDelay /\ x <= 2 * Offset[s] + MaxDelay

\* All but the mixed lowest estimates are high enough and all but the mixed
\* highest ones low enough, which is so when all but mixed of them are Near.
Robust(points, mixed, s) ==
  \A i \in DOMAIN points :
    /\ i > mixed => points[i] >= 2 * Offset[s] - MaxDelay
    /\ i <= Len(points) - mixed => points[i] <= 2 * Offset[s] + MaxDelay

\* One more estimate that is near costs nothing, any other costs one.
LEMMA WithRobust ==
  ASSUME NEW s \in Sessions, NEW mixed \in Nat, NEW x \in Int,
         NEW points \in Seq(Int), Sorted(points), Robust(points, mixed, s)
  PROVE  /\ Near(x, s) => Robust(With(points, x), mixed, s)
         /\ Robust(With(points, x), mixed + 1, s)
<1> DEFINE n == Len(points)
           k == Rank(points, x)
           w == With(points, x)
           L == 2 * Offset[s] - MaxDelay
           U == 2 * Offset[s] + MaxDelay
<1>1. n \in Nat /\ DOMAIN points = 1 .. n /\ (\A i \in 1 .. n : points[i] \in Int)
  OBVIOUS
<1>2. k \in 1 .. n + 1 /\ (\A i \in 1 .. n : points[i] <= x <=> i < k)
  BY <1>1, RankExists
<1>3. w \in Seq(Int) /\ Len(w) = n + 1 /\ DOMAIN w = 1 .. n + 1
  BY WithInserts
<1>4. \A i \in 1 .. n + 1 :
        w[i] = IF i < k THEN points[i] ELSE IF i = k THEN x ELSE points[i - 1]
  BY WithInserts
<1>5. L \in Int /\ U \in Int
  BY MeasurementAssumption
<1>6. \A i \in 1 .. n : (i > mixed => points[i] >= L) /\ (i <= n - mixed => points[i] <= U)
  BY <1>1 DEF Robust
<1> SUFFICES ASSUME NEW i \in 1 .. n + 1
             PROVE  /\ Near(x, s) /\ i > mixed => w[i] >= L
                    /\ Near(x, s) /\ i <= n + 1 - mixed => w[i] <= U
                    /\ i > mixed + 1 => w[i] >= L
                    /\ i <= n + 1 - (mixed + 1) => w[i] <= U
  BY <1>3 DEF Robust
<1>7. Near(x, s) <=> x >= L /\ x <= U
  BY DEF Near
<1> HIDE DEF n, k, w, L, U
<1>8. CASE i < k
  <2>1. w[i] = points[i] /\ i \in 1 .. n /\ points[i] \in Int /\ points[i] <= x
    BY <1>1, <1>2, <1>4, <1>8
  <2> QED BY <1>1, <1>2, <1>5, <1>6, <1>7, <1>8, <2>1
<1>9. CASE i = k
  <2>1. w[i] = x
    BY <1>4, <1>9
  <2>2. ASSUME i > mixed + 1 PROVE x >= L
    <3>1. i - 1 \in 1 .. n /\ i - 1 < k /\ i - 1 > mixed
      BY <1>1, <1>2, <1>9, <2>2
    <3> QED BY <1>1, <1>2, <1>5, <1>6, <3>1
  <2>3. ASSUME i <= n + 1 - (mixed + 1) PROVE x <= U
    <3>1. i \in 1 .. n /\ ~(i < k) /\ i <= n - mixed
      BY <1>1, <1>2, <1>9, <2>3
    <3> QED BY <1>1, <1>2, <1>5, <1>6, <3>1, SMTT(60)
  <2> QED BY <1>5, <1>7, <2>1, <2>2, <2>3
<1>10. CASE i > k
  <2>1. i - 1 \in 1 .. n /\ ~(i - 1 < k)
    BY <1>1, <1>2, <1>10
  <2>2. w[i] = points[i - 1]
    BY <1>2, <1>4, <1>10
  <2>3. points[i - 1] \in Int /\ x < points[i - 1]
    BY <1>1, <1>2, <2>1
  <2>4. /\ i - 1 > mixed => points[i - 1] >= L
        /\ i - 1 <= n - mixed => points[i - 1] <= U
    BY <1>6, <2>1
  <2> QED BY <1>1, <1>5, <1>7, <2>1, <2>2, <2>3, <2>4
<1> QED BY <1>1, <1>2, <1>8, <1>9, <1>10

\* The median is of the estimates in the middle, which are near when most are.
LEMMA MedianNear ==
  ASSUME NEW s \in Sessions, NEW mixed \in Nat, NEW points \in Seq(Int), Len(points) > 0
  PROVE  /\ Median(points) \in Int
         /\ Robust(points, mixed, s) /\ 2 * mixed < Len(points) =>
              /\ Median(points) >= 4 * Offset[s] - 2 * MaxDelay
              /\ Median(points) <= 4 * Offset[s] + 2 * MaxDelay
<1> DEFINE n == Len(points)
           a == (n \div 2) + 1
           b == ((n - 1) \div 2) + 1
<1>1. n \in Nat /\ n > 0 /\ DOMAIN points = 1 .. n /\ (\A i \in 1 .. n : points[i] \in Int)
  OBVIOUS
<1>2. a \in 1 .. n /\ b \in 1 .. n
  BY <1>1
<1>3. 2 * mixed < n => /\ a > mixed /\ a <= n - mixed
                       /\ b > mixed /\ b <= n - mixed
  BY <1>1
<1>4. Median(points) = points[a] + points[b]
  BY DEF Median
<1>5. Offset[s] \in Int /\ MaxDelay \in Nat
  BY MeasurementAssumption
<1>6. Robust(points, mixed, s) =>
        \A i \in 1 .. n : /\ i > mixed => points[i] >= 2 * Offset[s] - MaxDelay
                          /\ i <= n - mixed => points[i] <= 2 * Offset[s] + MaxDelay
  BY <1>1 DEF Robust
<1> HIDE DEF n, a, b
<1>7. points[a] \in Int /\ points[b] \in Int
  BY <1>1, <1>2
<1>8. ASSUME Robust(points, mixed, s), 2 * mixed < n
      PROVE  /\ points[a] >= 2 * Offset[s] - MaxDelay /\ points[a] <= 2 * Offset[s] + MaxDelay
             /\ points[b] >= 2 * Offset[s] - MaxDelay /\ points[b] <= 2 * Offset[s] + MaxDelay
  BY <1>2, <1>3, <1>6, <1>8
<1>9. ASSUME Robust(points, mixed, s), 2 * mixed < n
      PROVE  /\ points[a] + points[b] >= 4 * Offset[s] - 2 * MaxDelay
             /\ points[a] + points[b] <= 4 * Offset[s] + 2 * MaxDelay
  <2>1. /\ points[a] >= 2 * Offset[s] - MaxDelay /\ points[a] <= 2 * Offset[s] + MaxDelay
        /\ points[b] >= 2 * Offset[s] - MaxDelay /\ points[b] <= 2 * Offset[s] + MaxDelay
    BY <1>8, <1>9
  <2> DEFINE u == points[a]
             v == points[b]
             o == Offset[s]
  <2>2. u \in Int /\ v \in Int /\ o \in Int /\ MaxDelay \in Int
    BY <1>5, <1>7
  <2>3. u >= 2 * o - MaxDelay /\ u <= 2 * o + MaxDelay /\ v >= 2 * o - MaxDelay /\ v <= 2 * o + MaxDelay
    BY <2>1
  <2>4. u + v >= 4 * o - 2 * MaxDelay /\ u + v <= 4 * o + 2 * MaxDelay
    <3> HIDE DEF u, v, o
    <3> QED BY <2>2, <2>3
  <2> QED BY <2>4
<1>10. Median(points) \in Int
  BY <1>4, <1>7
<1> QED BY <1>4, <1>9, <1>10 DEF n

\* llround adds half a unit at most (finishMeasurement's argument, measurement.go:151).
LEMMA RoundNear ==
  ASSUME NEW m \in Int
  PROVE  /\ LLRound(m, 4) \in Int
         /\ \A offset \in Int, delay \in Nat :
              m >= 4 * offset - 2 * delay /\ m <= 4 * offset + 2 * delay =>
                2 * Magnitude(LLRound(m, 4) - offset) <= delay + 1
<1> DEFINE q == LLRound(m, 4)
<1>1. q \in Int /\ 8 * q <= 2 * m + 4 /\ 8 * q >= 2 * m - 4
  BY DEF LLRound
<1> HIDE DEF q
<1>2. ASSUME NEW offset \in Int, NEW delay \in Nat,
             m >= 4 * offset - 2 * delay, m <= 4 * offset + 2 * delay
      PROVE  2 * Magnitude(q - offset) <= delay + 1
  BY <1>1, <1>2 DEF Magnitude
<1> QED BY <1>1, <1>2 DEF q

-----------------------------------------------------------------------------
(* Packets, and the estimates they give. *)

\* A ghost time echoed was read at most MaxDelay before the ping that carries it.
EchoSound(prev, clock, host) ==
  prev # Absent => /\ prev - Offset[clock] <= host
                   /\ host - (prev - Offset[clock]) <= MaxDelay

PingSound(ping, time) ==
  /\ ping \in Pings
  /\ ping.host <= time /\ time - ping.host <= MaxDelay
  /\ EchoSound(ping.prev, ping.clock, ping.host)

PongSound(pong, time) ==
  /\ pong \in Pongs
  /\ pong.ghost = pong.sent + Offset[pong.session]
  /\ pong.host <= pong.sent /\ pong.sent - pong.host <= MaxDelay
  /\ pong.sent <= time /\ time - pong.sent <= MaxDelay
  /\ EchoSound(pong.prev, pong.clock, pong.host)

PacketsSound ==
  /\ \A ping \in pings : PingSound(ping, now)
  /\ \A pong \in pongs : PongSound(pong, now)

\* What a pong of the session being measured adds keeps the estimates sound
\* (handlePong, measurement.go:141-148): the first is near, and the second too
\* unless it mixes two clocks.
LEMMA EstimatesSound ==
  ASSUME NEW s \in Sessions, NEW mixed \in Nat, NEW pong, now \in Nat,
         PongSound(pong, now), pong.session = s,
         NEW points \in Seq(Int), Sorted(points), Robust(points, mixed, s)
  PROVE  /\ Estimates(points, pong) \in Seq(Int)
         /\ Sorted(Estimates(points, pong))
         /\ mixed + Mixes(pong) \in Nat
         /\ Robust(Estimates(points, pong), mixed + Mixes(pong), s)
<1> DEFINE ghost == pong.ghost
           host == pong.host
           prev == pong.prev
           sent == pong.sent
           offset == Offset[s]
           first == 2 * ghost - (now + host)
           second == ghost + prev - 2 * host
           direct == IF pong.ghost # 0 /\ pong.host # Absent THEN With(points, first) ELSE points
<1>1. /\ pong.ghost \in Int /\ pong.host \in Nat /\ pong.prev \in Int
      /\ pong.clock \in Sessions /\ pong.sent \in Nat
  BY DEF PongSound, Pongs
<1>2. Offset[s] \in Int /\ Offset[pong.clock] \in Int /\ MaxDelay \in Int /\ now \in Int
  BY <1>1, MeasurementAssumption
<1>3. /\ ghost \in Int /\ host \in Int /\ prev \in Int /\ sent \in Int /\ offset \in Int
      /\ ghost = sent + offset
      /\ host <= sent /\ sent - host <= MaxDelay
      /\ sent <= now /\ now - sent <= MaxDelay
      /\ prev # Absent /\ pong.clock = s =>
           prev - offset <= host /\ host - (prev - offset) <= MaxDelay
  BY <1>1, <1>2 DEF PongSound, EchoSound
<1>4. /\ first \in Int /\ second \in Int
      /\ first >= 2 * offset - MaxDelay /\ first <= 2 * offset + MaxDelay
      /\ prev # Absent /\ pong.clock = s =>
           second >= 2 * offset - MaxDelay /\ second <= 2 * offset + MaxDelay
  <2> HIDE DEF ghost, host, prev, sent, offset
  <2> QED BY <1>2, <1>3
<1>5. Near(first, s) /\ (pong.prev # Absent /\ pong.clock = s => Near(second, s))
  BY <1>4 DEF Near
<1>6. Estimates(points, pong) = IF pong.prev # Absent THEN With(direct, second) ELSE direct
  BY DEF Estimates
<1> HIDE DEF first, second, ghost, host, prev, sent, offset
<1>7. direct \in Seq(Int) /\ Sorted(direct) /\ Robust(direct, mixed, s)
  BY <1>4, <1>5, WithInserts, WithSorted, WithRobust
<1> HIDE DEF direct
<1>8. CASE pong.prev = Absent
  <2>1. Mixes(pong) = 0 /\ mixed + 0 = mixed
    BY <1>8 DEF Mixes
  <2> QED BY <1>6, <1>7, <1>8, <2>1
<1>9. CASE pong.prev # Absent /\ pong.clock = s
  <2>1. Mixes(pong) = 0 /\ mixed + 0 = mixed
    BY <1>9 DEF Mixes
  <2>2. Robust(With(direct, second), mixed, s)
    BY <1>4, <1>5, <1>7, <1>9, WithRobust
  <2>3. With(direct, second) \in Seq(Int) /\ Sorted(With(direct, second))
    BY <1>4, <1>7, WithInserts, WithSorted
  <2> QED BY <1>6, <1>9, <2>1, <2>2, <2>3
<1>10. CASE pong.prev # Absent /\ pong.clock # s
  <2>1. Mixes(pong) = 1 /\ mixed + 1 \in Nat
    BY <1>10 DEF Mixes
  <2>2. Robust(With(direct, second), mixed + 1, s)
    BY <1>4, <1>7, WithRobust
  <2>3. With(direct, second) \in Seq(Int) /\ Sorted(With(direct, second))
    BY <1>4, <1>7, WithInserts, WithSorted
  <2> QED BY <1>6, <1>10, <2>1, <2>2, <2>3
<1> QED BY <1>8, <1>9, <1>10

-----------------------------------------------------------------------------
(* The inductive invariant. *)

MeasurementSound(m, s) ==
  Len(m.points) <= MaxPoints /\ Sorted(m.points) /\ Robust(m.points, m.mixed, s)

MeasurersSound ==
  /\ measurer \in [Sessions -> Measurers \cup {NoMeasurer}]
  /\ \A s \in Measured : MeasurementSound(measurer[s], s)

ResultTypes == [session : Sessions \cup {NoSession}, xform : Int \cup {Failed}, mixed : Nat]

Rest ==
  /\ enabled \in BOOLEAN
  /\ heard \in [Peers -> Sessions \cup {NoSession}] /\ at \in [Peers -> Sessions]
  /\ changes \in 0 .. MaxChanges /\ now \in 0 .. MaxNow

ResultSound == result \in ResultTypes /\ EstimateAccurate

Inv == MeasurersSound /\ PacketsSound /\ Rest /\ ResultSound

\* The invariant gives the types.
LEMMA InvTypes == Inv => TypeOK
BY DEF Inv, TypeOK, MeasurersSound, MeasurementSound, PacketsSound, PingSound, PongSound, Rest,
       ResultSound, ResultTypes

\* A measurement replaced by a sound one, or removed, leaves the others as they were.
LEMMA Replaced ==
  ASSUME MeasurersSound, NEW s \in Sessions, NEW r \in Measurers \cup {NoMeasurer},
         r # NoMeasurer => MeasurementSound(r, s),
         measurer' = [measurer EXCEPT ![s] = r]
  PROVE  /\ MeasurersSound'
         /\ Measured' = IF r = NoMeasurer THEN Measured \ {s} ELSE Measured \cup {s}
<1>1. measurer' \in [Sessions -> Measurers \cup {NoMeasurer}]
  BY DEF MeasurersSound
<1>2. measurer'[s] = r /\ (\A q \in Sessions : q # s => measurer'[q] = measurer[q])
  BY DEF MeasurersSound
<1>3. Measured' = IF r = NoMeasurer THEN Measured \ {s} ELSE Measured \cup {s}
  BY <1>2 DEF Measured
<1>4. ASSUME NEW q \in Sessions, measurer'[q] # NoMeasurer
      PROVE  MeasurementSound(measurer'[q], q)
  BY <1>2, <1>4 DEF MeasurersSound, Measured
<1>5. \A q \in Measured' : MeasurementSound(measurer'[q], q)
  BY <1>4 DEF Measured
<1> QED BY <1>1, <1>3, <1>5 DEF MeasurersSound, MeasurementSound

\* A ping sent now is sound if what it echoes was just received.
LEMMA PingSent ==
  ASSUME now \in Nat, NEW p \in Peers, NEW prev \in Int, NEW clock \in Sessions,
         EchoSound(prev, clock, now)
  PROVE  PingSound(Ping(p, prev, clock), now)
BY MeasurementAssumption DEF Ping, PingSound, Pings

-----------------------------------------------------------------------------
(* The effects the handlers share. *)

\* A measurement that ends gives a sound result and keeps the contract.
LEMMA EndsSound ==
  ASSUME MeasurersSound, NEW s \in Measured, NEW xform \in Int \cup {Failed}, NEW mixed \in Nat,
         xform # Failed /\ 2 * mixed <= MaxPoints =>
           2 * Magnitude(xform - Offset[s]) <= MaxDelay + 1,
         Ends(s, xform, mixed)
  PROVE  MeasurersSound' /\ ResultSound' /\ Contract!End(s)
<1>1. s \in Sessions
  BY DEF Measured
<1>2. MeasurersSound' /\ Measured' = Measured \ {s}
  BY <1>1, Replaced DEF Ends
<1>3. result' = [session |-> s, xform |-> xform, mixed |-> mixed]
  BY DEF Ends
<1>4. result'.session = s /\ result'.xform = xform /\ result'.mixed = mixed
  BY <1>3
<1>5. result' \in ResultTypes
  BY <1>1, <1>3 DEF ResultTypes
<1>6. EstimateAccurate'
  BY <1>4 DEF EstimateAccurate
<1>7. Contract!End(s)
  BY <1>2, <1>4 DEF Contract!End
<1> QED BY <1>2, <1>5, <1>6, <1>7 DEF ResultSound, ResultTypes

\* A timer that fires or is armed again, a retry counted or not, leaves the estimates.
LEMMA MeasurerUpdates ==
  ASSUME NEW m \in Measurers
  PROVE  /\ \A timer \in {"running", "fired"} :
              LET r == [m EXCEPT !.timer = timer]
              IN  r \in Measurers /\ r.points = m.points /\ r.mixed = m.mixed
         /\ m.started < MaxStarts =>
              LET r == [m EXCEPT !.started = @ + 1, !.timer = "running"]
              IN  r \in Measurers /\ r.points = m.points /\ r.mixed = m.mixed
<1>1. m.started \in 0 .. MaxStarts /\ MaxStarts \in Nat
  BY MeasurementAssumption DEF Measurers
<1>3. ASSUME NEW timer \in {"running", "fired"}
      PROVE  LET r == [m EXCEPT !.timer = timer]
             IN  r \in Measurers /\ r.points = m.points /\ r.mixed = m.mixed
  BY DEF Measurers
<1>4. ASSUME m.started < MaxStarts
      PROVE  LET r == [m EXCEPT !.started = @ + 1, !.timer = "running"]
             IN  r \in Measurers /\ r.points = m.points /\ r.mixed = m.mixed
  <2>1. m.started + 1 \in 0 .. MaxStarts
    BY <1>1, <1>4
  <2> QED BY <2>1 DEF Measurers
<1> QED BY <1>3, <1>4

\* A measurement under way is one, with sound estimates.
LEMMA UnderWay ==
  ASSUME MeasurersSound, NEW s \in Measured
  PROVE  /\ s \in Sessions /\ measurer[s] \in Measurers /\ measurer[s] # NoMeasurer
         /\ MeasurementSound(measurer[s], s)
         /\ measurer[s].points \in Seq(Int) /\ measurer[s].mixed \in Nat
         /\ measurer[s].target \in Peers /\ measurer[s].started \in 0 .. MaxStarts
BY DEF MeasurersSound, Measured, Measurers

\* A measurement replaced by a sound one goes on, as far as its contract is concerned.
LEMMA GoesOn ==
  ASSUME MeasurersSound, NEW s \in Measured, NEW r \in Measurers, MeasurementSound(r, s),
         measurer' = [measurer EXCEPT ![s] = r]
  PROVE  MeasurersSound' /\ Measured' = Measured
<1>1. s \in Sessions /\ r # NoMeasurer
  BY NoMeasurerAssumption DEF Measured
<1>2. MeasurersSound' /\ Measured' = Measured \cup {s}
  BY <1>1, Replaced
<1> QED BY <1>2

\* Nothing happens to the measurements.
LEMMA MeasurersStay ==
  ASSUME MeasurersSound, measurer' = measurer
  PROVE  MeasurersSound' /\ Measured' = Measured
BY DEF MeasurersSound, MeasurementSound, Measured

\* Nothing happens to the result.
LEMMA ResultStays ==
  ASSUME ResultSound, result' = result
  PROVE  ResultSound'
BY DEF ResultSound, ResultTypes, EstimateAccurate

\* At most one ping more is on its way, and no pong.
LEMMA PacketsSent ==
  ASSUME PacketsSound, now' = now, pongs' \subseteq pongs, NEW ping, PingSound(ping, now),
         pings' \subseteq pings \cup {ping}
  PROVE  PacketsSound'
BY DEF PacketsSound, PingSound, PongSound

\* No packet more is on its way.
LEMMA PacketsStay ==
  ASSUME PacketsSound, now' = now, pongs' \subseteq pongs, pings' \subseteq pings
  PROVE  PacketsSound'
BY DEF PacketsSound, PingSound, PongSound

\* Sent and Answered add at most the packet.
LEMMA AtMostOneMore ==
  ASSUME NEW flight, NEW packet
  PROVE  Sent(flight, packet) \subseteq flight \cup {packet}
         /\ Answered(flight, packet) \subseteq flight \cup {packet}
BY DEF Sent, Answered

\* The estimates a pong completes a measurement with, and those it continues with.
LEMMA AcceptSound ==
  ASSUME Inv, NEW s \in Measured, NEW pong \in pongs, pong.session = s, Accept(s, pong)
  PROVE  /\ MeasurersSound' /\ ResultSound'
         /\ pings' \subseteq pings \cup {Ping(pong.peer, pong.ghost, s)}
         /\ PingSound(Ping(pong.peer, pong.ghost, s), now)
         /\ Contract!End(s) \/ UNCHANGED Contract!vars
<1> DEFINE m == measurer[s]
           points == Estimates(m.points, pong)
           mixed == m.mixed + Mixes(pong)
<1>1. /\ s \in Sessions /\ m \in Measurers /\ MeasurementSound(m, s)
      /\ m.points \in Seq(Int) /\ m.mixed \in Nat
  BY UnderWay DEF Inv
<1>2. PongSound(pong, now) /\ now \in Nat
  BY DEF Inv, PacketsSound, Rest
<1>3. /\ points \in Seq(Int) /\ Sorted(points) /\ mixed \in Nat
      /\ Robust(points, mixed, s)
  BY <1>1, <1>2, EstimatesSound DEF MeasurementSound
<1>4. /\ pings' = Answered(pings, Ping(pong.peer, pong.ghost, s))
      /\ IF Len(points) > MaxPoints THEN Ends(s, LLRound(Median(points), 4), mixed)
                                    ELSE Continues(s, points, mixed)
  BY DEF Accept
<1>5. PingSound(Ping(pong.peer, pong.ghost, s), now)
  <2>1. pong.peer \in Peers /\ pong.ghost \in Int
    BY <1>2 DEF PongSound, Pongs
  <2>2. pong.sent \in Int /\ Offset[s] \in Int /\ now \in Int
    BY <1>1, <1>2, MeasurementAssumption DEF PongSound, Pongs
  <2>3. EchoSound(pong.ghost, s, now)
    <3> DEFINE sent == pong.sent
               ghost == pong.ghost
               offset == Offset[s]
    <3>1. ghost = sent + offset /\ sent <= now /\ now - sent <= MaxDelay
      BY <1>2 DEF PongSound
    <3>2. sent \in Int /\ offset \in Int
      BY <2>2
    <3>3. ghost - offset <= now /\ now - (ghost - offset) <= MaxDelay
      <4> HIDE DEF sent, offset, ghost
      <4> QED BY <2>2, <3>1, <3>2, MeasurementAssumption
    <3> QED BY <3>3 DEF EchoSound
  <2> QED BY <1>1, <1>2, <2>1, <2>3, PingSent
<1>6. pings' \subseteq pings \cup {Ping(pong.peer, pong.ghost, s)}
  BY <1>4, AtMostOneMore
<1>7. Len(points) \in Nat
  BY <1>3
<1> HIDE DEF points, mixed
<1>8. CASE Len(points) > MaxPoints
  <2> DEFINE xform == LLRound(Median(points), 4)
  <2>1. Ends(s, xform, mixed)
    BY <1>4, <1>8
  <2>2. Len(points) > 0 /\ (2 * mixed <= MaxPoints => 2 * mixed < Len(points))
    BY <1>3, <1>7, <1>8, MeasurementAssumption
  <2>3. Median(points) \in Int
    BY <1>1, <1>3, <2>2, MedianNear
  <2>4. xform \in Int
    BY <2>3, RoundNear
  <2>5. ASSUME 2 * mixed <= MaxPoints PROVE 2 * Magnitude(xform - Offset[s]) <= MaxDelay + 1
    <3>1. /\ Median(points) >= 4 * Offset[s] - 2 * MaxDelay
          /\ Median(points) <= 4 * Offset[s] + 2 * MaxDelay
      BY <1>1, <1>3, <2>2, <2>5, MedianNear
    <3>2. Offset[s] \in Int /\ MaxDelay \in Nat
      BY <1>1, MeasurementAssumption
    <3> QED BY <2>3, <3>1, <3>2, RoundNear
  <2> HIDE DEF xform
  <2>6. MeasurersSound' /\ ResultSound' /\ Contract!End(s)
    BY <1>3, <2>1, <2>4, <2>5, EndsSound DEF Inv
  <2> QED BY <1>5, <1>6, <2>6
<1>9. CASE ~(Len(points) > MaxPoints)
  <2> DEFINE r == [m EXCEPT !.points = points, !.mixed = mixed, !.timer = "running"]
  <2>1. measurer' = [measurer EXCEPT ![s] = r] /\ result' = result
    BY <1>4, <1>9 DEF Continues
  <2>2. r \in Measurers /\ r.points = points /\ r.mixed = mixed
    <3> HIDE DEF m
    <3> QED BY <1>1, <1>3 DEF Measurers
  <2>3. MeasurementSound(r, s)
    BY <1>3, <1>7, <1>9, <2>2, MeasurementAssumption DEF MeasurementSound
  <2> HIDE DEF r
  <2>4. MeasurersSound' /\ Measured' = Measured
    BY <2>1, <2>2, <2>3, GoesOn DEF Inv
  <2>5. UNCHANGED Contract!vars
    BY <2>1, <2>4 DEF Contract!vars
  <2> QED BY <1>5, <1>6, <2>1, <2>4, <2>5, ResultStays DEF Inv
<1> QED BY <1>8, <1>9

-----------------------------------------------------------------------------
(* The invariant holds at first and every step keeps it, and the contract. *)

LEMMA InvInit == Init => Inv /\ Contract!Init
<1> SUFFICES ASSUME Init PROVE Inv /\ Contract!Init
  OBVIOUS
<1>1. Measured = {}
  BY DEF Init, Measured
<1>2. MeasurersSound
  BY <1>1 DEF Init, MeasurersSound
<1>3. PacketsSound /\ Rest
  BY MeasurementAssumption DEF Init, PacketsSound, Rest
<1>4. result.session = NoSession /\ result.xform = Failed
  BY DEF Init
<1>5. ResultSound
  BY <1>4 DEF Init, ResultSound, ResultTypes, EstimateAccurate
<1>6. Contract!Init
  BY <1>1, <1>4 DEF Contract!Init
<1> QED BY <1>2, <1>3, <1>5, <1>6 DEF Inv

\* An action that touches neither the measurements nor the last result.
LEMMA Aside ==
  ASSUME Inv, PacketsSound', Rest', measurer' = measurer, result' = result
  PROVE  Inv' /\ UNCHANGED Contract!vars
<1>1. MeasurersSound' /\ Measured' = Measured
  BY MeasurersStay DEF Inv
<1>2. ResultSound'
  BY ResultStays DEF Inv
<1> QED BY <1>1, <1>2 DEF Inv, Contract!vars

LEMMA HearInv ==
  ASSUME Inv, NEW p \in Peers, Hear(p)
  PROVE  Inv' /\ UNCHANGED Contract!vars
<1>1. PacketsSound'
  BY PacketsStay DEF Hear, Inv
<1>2. Rest'
  BY DEF Hear, Inv, Rest
<1> QED BY <1>1, <1>2, Aside DEF Hear

LEMMA StartInv ==
  ASSUME Inv, NEW s \in Sessions, NEW p \in Peers, StartMeasurement(s, p)
  PROVE  Inv' /\ Contract!Start(s)
<1> DEFINE r == [target |-> p, points |-> <<>>, started |-> 0, timer |-> "running", mixed |-> 0]
<1>1. r \in Measurers /\ r.points = <<>>
  BY MeasurementAssumption DEF Measurers
<1>2. MeasurementSound(r, s)
  BY <1>1, MeasurementAssumption DEF MeasurementSound, Sorted, Robust
<1>3. measurer' = [measurer EXCEPT ![s] = r] /\ r # NoMeasurer
  BY <1>1, NoMeasurerAssumption DEF StartMeasurement
<1> HIDE DEF r
<1>4. MeasurersSound' /\ Measured' = Measured \cup {s}
  BY <1>1, <1>2, <1>3, Replaced DEF Inv
<1>5. PingSound(Ping(p, Absent, s), now)
  BY PingSent DEF Absent, EchoSound, Inv, Rest
<1>6. PacketsSound'
  BY <1>5, PacketsSent, AtMostOneMore DEF StartMeasurement, Inv
<1>7. Rest' /\ ResultSound'
  BY ResultStays DEF StartMeasurement, Inv, Rest
<1>8. Contract!Start(s)
  BY <1>4 DEF StartMeasurement, Contract!Start
<1> QED BY <1>4, <1>6, <1>7, <1>8 DEF Inv

LEMMA PongInv ==
  ASSUME Inv, NEW pong \in pongs, HandlePong(pong)
  PROVE  Inv' /\ ((\E s \in Sessions : Contract!End(s)) \/ UNCHANGED Contract!vars)
<1>1. pongs' \subseteq pongs /\ now' = now
  BY DEF HandlePong
<1>2. Rest'
  BY DEF HandlePong, Inv, Rest
<1>3. CASE UNCHANGED <<measurer, pings, result>>
  <2>1. PacketsSound'
    BY <1>1, <1>3, PacketsStay DEF Inv
  <2> QED BY <1>2, <1>3, <2>1, Aside
<1>4. ASSUME NEW s \in Matching(pong), pong.session = s, Accept(s, pong)
      PROVE  Inv' /\ ((\E q \in Sessions : Contract!End(q)) \/ UNCHANGED Contract!vars)
  <2>1. s \in Measured /\ s \in Sessions
    BY DEF Matching, Measured
  <2>2. /\ MeasurersSound' /\ ResultSound'
        /\ pings' \subseteq pings \cup {Ping(pong.peer, pong.ghost, s)}
        /\ PingSound(Ping(pong.peer, pong.ghost, s), now)
        /\ Contract!End(s) \/ UNCHANGED Contract!vars
    BY <1>4, <2>1, AcceptSound
  <2>3. PacketsSound'
    BY <1>1, <2>2, PacketsSent DEF Inv
  <2> QED BY <1>2, <2>1, <2>2, <2>3 DEF Inv
<1>5. ASSUME NEW s \in Matching(pong), Ends(s, Failed, 0), UNCHANGED pings
      PROVE  Inv' /\ (\E q \in Sessions : Contract!End(q))
  <2>1. s \in Measured /\ s \in Sessions
    BY DEF Matching, Measured
  <2>2. MeasurersSound' /\ ResultSound' /\ Contract!End(s)
    BY <1>5, <2>1, EndsSound DEF Inv
  <2>3. PacketsSound'
    BY <1>1, <1>5, PacketsStay DEF Inv
  <2> QED BY <1>2, <2>1, <2>2, <2>3 DEF Inv
<1> QED BY <1>3, <1>4, <1>5 DEF HandlePong

LEMMA ExpiresInv ==
  ASSUME Inv, NEW s \in Sessions, TimerExpires(s)
  PROVE  Inv' /\ UNCHANGED Contract!vars
<1> DEFINE m == measurer[s]
           r == [m EXCEPT !.timer = "fired"]
<1>1. s \in Measured /\ m \in Measurers /\ MeasurementSound(m, s)
  BY UnderWay DEF TimerExpires, Inv
<1>2. measurer' = [measurer EXCEPT ![s] = r]
  BY DEF TimerExpires
<1>3. r \in Measurers /\ MeasurementSound(r, s)
  BY <1>1, MeasurerUpdates DEF MeasurementSound
<1> HIDE DEF m, r
<1>4. MeasurersSound' /\ Measured' = Measured
  BY <1>1, <1>2, <1>3, GoesOn DEF Inv
<1>5. PacketsSound'
  BY PacketsStay DEF TimerExpires, Inv
<1>6. Rest' /\ ResultSound'
  BY ResultStays DEF TimerExpires, Inv, Rest
<1> QED BY <1>4, <1>5, <1>6 DEF TimerExpires, Inv, Contract!vars

LEMMA FiredInv ==
  ASSUME Inv, NEW s \in Sessions, MeasurerTimerFired(s)
  PROVE  Inv' /\ (Contract!End(s) \/ UNCHANGED Contract!vars)
<1> DEFINE m == measurer[s]
           r == [m EXCEPT !.started = @ + 1, !.timer = "running"]
<1>1. /\ s \in Measured /\ m \in Measurers /\ MeasurementSound(m, s)
      /\ m.target \in Peers
  BY UnderWay DEF MeasurerTimerFired, Inv
<1>2. Rest' /\ pongs' = pongs /\ now' = now
  BY DEF MeasurerTimerFired, Inv, Rest
<1>3. CASE /\ m.started < MaxStarts
           /\ pings' = Sent(pings, Ping(m.target, Absent, s))
           /\ measurer' = [measurer EXCEPT ![s].started = @ + 1, ![s].timer = "running"]
           /\ UNCHANGED result
  <2>1. measurer' = [measurer EXCEPT ![s] = r]
    BY <1>3
  <2>2. r \in Measurers /\ MeasurementSound(r, s)
    BY <1>1, <1>3, MeasurerUpdates DEF MeasurementSound
  <2> HIDE DEF r
  <2>3. MeasurersSound' /\ Measured' = Measured
    BY <1>1, <2>1, <2>2, GoesOn DEF Inv
  <2>4. PingSound(Ping(m.target, Absent, s), now)
    BY <1>1, PingSent DEF Absent, EchoSound, Inv, Rest
  <2>5. PacketsSound'
    BY <1>2, <1>3, <2>4, PacketsSent, AtMostOneMore DEF Inv
  <2> QED BY <1>2, <1>3, <2>3, <2>5, ResultStays DEF Inv, Contract!vars
<1>4. CASE Ends(s, Failed, 0) /\ UNCHANGED pings
  <2>1. MeasurersSound' /\ ResultSound' /\ Contract!End(s)
    BY <1>1, <1>4, EndsSound DEF Inv
  <2>2. PacketsSound'
    BY <1>2, <1>4, PacketsStay DEF Inv
  <2> QED BY <1>2, <2>1, <2>2 DEF Inv
<1> QED BY <1>3, <1>4 DEF MeasurerTimerFired

LEMMA EnabledInv ==
  ASSUME Inv, NEW on \in BOOLEAN, SetEnabled(on)
  PROVE  Inv' /\ UNCHANGED Contract!vars
<1>1. PacketsSound'
  BY PacketsStay DEF SetEnabled, Inv
<1>2. Rest'
  <2>1. changes' \in 0 .. MaxChanges
    BY MeasurementAssumption DEF SetEnabled, Inv, Rest
  <2> QED BY <2>1 DEF SetEnabled, Inv, Rest
<1> QED BY <1>1, <1>2, Aside DEF SetEnabled

LEMMA PingInv ==
  ASSUME Inv, NEW ping \in pings, HandlePing(ping)
  PROVE  Inv' /\ UNCHANGED Contract!vars
<1> DEFINE s == at[ping.peer]
           pong == [peer |-> ping.peer, session |-> s, ghost |-> now + Offset[s],
                    host |-> ping.host, prev |-> ping.prev, clock |-> ping.clock, sent |-> now]
<1>1. PingSound(ping, now) /\ now \in Nat
  BY DEF Inv, PacketsSound, Rest
<1>2. /\ ping.peer \in Peers /\ ping.host \in Nat /\ ping.prev \in Int
      /\ ping.clock \in Sessions /\ s \in Sessions
  BY <1>1 DEF PingSound, Pings, Inv, Rest
<1>3. Offset[s] \in Int /\ now + Offset[s] \in Int /\ MaxDelay \in Nat
  BY <1>1, <1>2, MeasurementAssumption
<1>4. PongSound(pong, now)
  <2>1. pong \in Pongs
    BY <1>1, <1>2, <1>3 DEF Pongs
  <2>2. now - now <= MaxDelay
    BY <1>1, <1>3
  <2> HIDE DEF s
  <2> QED BY <1>1, <2>1, <2>2 DEF PongSound, PingSound
<1>5. pings' \subseteq pings /\ pongs' \subseteq pongs \cup {pong} /\ now' = now
  BY AtMostOneMore DEF HandlePing
<1> HIDE DEF pong
<1>6. PacketsSound'
  BY <1>4, <1>5 DEF Inv, PacketsSound, PingSound, PongSound
<1>7. Rest'
  BY DEF HandlePing, Inv, Rest
<1> QED BY <1>6, <1>7, Aside DEF HandlePing

LEMMA MoveInv ==
  ASSUME Inv, NEW p \in Peers, NEW s \in Sessions, Move(p, s)
  PROVE  Inv' /\ UNCHANGED Contract!vars
<1>1. PacketsSound'
  BY PacketsStay DEF Move, Inv
<1>2. Rest'
  <2>1. changes' \in 0 .. MaxChanges
    BY MeasurementAssumption DEF Move, Inv, Rest
  <2> QED BY <2>1 DEF Move, Inv, Rest
<1> QED BY <1>1, <1>2, Aside DEF Move

\* A packet that is not dropped is not too late.
LEMMA TickInv ==
  ASSUME Inv, Tick
  PROVE  Inv' /\ UNCHANGED Contract!vars
<1>1. now \in Nat /\ now' = now + 1 /\ now' \in 0 .. MaxNow
  BY MeasurementAssumption DEF Tick, Inv, Rest
<1>2. ASSUME NEW ping \in pings' PROVE PingSound(ping, now')
  <2>1. ping \in pings /\ now' - ping.host <= MaxDelay
    BY <1>2 DEF Tick
  <2>2. PingSound(ping, now) /\ ping.host \in Nat
    BY <2>1 DEF Inv, PacketsSound, PingSound, Pings
  <2>3. ping.host <= now'
    BY <1>1, <2>2 DEF PingSound
  <2> QED BY <2>1, <2>2, <2>3 DEF PingSound
<1>3. ASSUME NEW pong \in pongs' PROVE PongSound(pong, now')
  <2>1. pong \in pongs /\ now' - pong.sent <= MaxDelay
    BY <1>3 DEF Tick
  <2>2. PongSound(pong, now) /\ pong.sent \in Nat
    BY <2>1 DEF Inv, PacketsSound, PongSound, Pongs
  <2>3. pong.sent <= now'
    BY <1>1, <2>2 DEF PongSound
  <2> QED BY <2>1, <2>2, <2>3 DEF PongSound
<1>4. PacketsSound'
  BY <1>2, <1>3 DEF PacketsSound, PingSound, PongSound
<1>5. Rest'
  BY <1>1 DEF Tick, Inv, Rest
<1> QED BY <1>4, <1>5, Aside DEF Tick

\* Every step keeps the invariant and is a step of the contract, or none.
LEMMA InvNext == Inv /\ [Next]_vars => Inv' /\ [Contract!Next]_(Contract!vars)
<1> SUFFICES ASSUME Inv, [Next]_vars
             PROVE  Inv' /\ (Contract!Next \/ UNCHANGED Contract!vars)
  OBVIOUS
<1>1. ASSUME NEW p \in Peers, Hear(p) PROVE Inv' /\ UNCHANGED Contract!vars
  BY <1>1, HearInv
<1>2. ASSUME NEW s \in Sessions, NEW p \in Peers, StartMeasurement(s, p)
      PROVE  Inv' /\ Contract!Next
  BY <1>2, StartInv DEF Contract!Next
<1>3. ASSUME NEW pong \in pongs, HandlePong(pong)
      PROVE  Inv' /\ (Contract!Next \/ UNCHANGED Contract!vars)
  BY <1>3, PongInv DEF Contract!Next
<1>4. ASSUME NEW s \in Sessions, TimerExpires(s) PROVE Inv' /\ UNCHANGED Contract!vars
  BY <1>4, ExpiresInv
<1>5. ASSUME NEW s \in Sessions, MeasurerTimerFired(s)
      PROVE  Inv' /\ (Contract!Next \/ UNCHANGED Contract!vars)
  BY <1>5, FiredInv DEF Contract!Next
<1>6. ASSUME NEW on \in BOOLEAN, SetEnabled(on) PROVE Inv' /\ UNCHANGED Contract!vars
  BY <1>6, EnabledInv
<1>7. ASSUME NEW ping \in pings, HandlePing(ping) PROVE Inv' /\ UNCHANGED Contract!vars
  BY <1>7, PingInv
<1>8. ASSUME NEW p \in Peers, NEW s \in Sessions, Move(p, s)
      PROVE  Inv' /\ UNCHANGED Contract!vars
  BY <1>8, MoveInv
<1>9. ASSUME Tick PROVE Inv' /\ UNCHANGED Contract!vars
  BY <1>9, TickInv
<1>10. ASSUME UNCHANGED vars PROVE Inv' /\ UNCHANGED Contract!vars
  <2>1. PacketsSound'
    BY <1>10, PacketsStay DEF vars, Inv
  <2>2. Rest'
    BY <1>10 DEF vars, Inv, Rest
  <2> QED BY <1>10, <2>1, <2>2, Aside DEF vars
<1> QED BY <1>1, <1>2, <1>3, <1>4, <1>5, <1>6, <1>7, <1>8, <1>9, <1>10 DEF Next

-----------------------------------------------------------------------------
(* The theorems. *)

\* The inductive invariant holds in every state.
LEMMA AlwaysInv == Spec => []Inv
<1>1. Init => Inv
  BY InvInit
<1>2. Inv /\ [Next]_vars => Inv'
  BY InvNext
<1> QED BY <1>1, <1>2, PTL DEF Spec

\* Every variable keeps its type, and a measurement that goes on never holds more
\* than MaxPoints estimates (handlePong, measurement.go:150).
THEOREM TypeCorrect == Spec => []TypeOK
<1>1. Inv => TypeOK
  BY InvTypes
<1> QED BY <1>1, AlwaysInv, PTL

\* The median of the estimates is within half the largest delay of a packet of the
\* offset of the session's ghost clock, and llround, when most estimates are of one
\* clock, in whatever order packets came (handlePong, measurement.go:129-151).
THEOREM EstimateIsAccurate == Spec => []EstimateAccurate
<1>1. Inv => EstimateAccurate
  BY DEF Inv, ResultSound
<1> QED BY <1>1, AlwaysInv, PTL

\* The ping and pong dialog implements the safety part of what the session logic
\* expects of it: measurements start one at a time for a session and end once
\* (startMeasurement, finishMeasurement and failMeasurement, measurement.go:31-183).
THEOREM KeepsContract == Spec => Contract!Init /\ [][Contract!Next]_(Contract!vars)
<1>1. Init => Contract!Init
  BY InvInit
<1>2. Inv /\ [Next]_vars => [Contract!Next]_(Contract!vars)
  BY InvNext
<1> QED BY <1>1, <1>2, AlwaysInv, PTL DEF Spec

=============================================================================
