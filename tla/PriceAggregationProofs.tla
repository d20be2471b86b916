----------------------- MODULE PriceAggregationProofs -----------------------
(* Proofs about PriceAggregation, for any exchanges, prices and grain.     *)
EXTENDS PriceAggregation, TLAPS

\* What integer division promises.
LEMMA Division ==
  ASSUME NEW x \in Nat, NEW d \in Nat \ {0}
  PROVE  /\ x \div d \in Nat
         /\ d * (x \div d) <= x
         /\ x < d * (x \div d + 1)
<1>1. x \div d \in Nat
  BY SMT
<1>2. d * (x \div d) <= x
  BY SMT
<1>3. x < d * (x \div d + 1)
  BY SMT
<1> QED BY <1>1, <1>2, <1>3

\* Multiplication by a positive number keeps and reflects the order.
LEMMA TimesKeeps ==
  ASSUME NEW a \in Int, NEW b \in Int, NEW n \in Nat, a <= b
  PROVE  n * a <= n * b
OBVIOUS

LEMMA TimesReflects ==
  ASSUME NEW a \in Int, NEW b \in Int, NEW n \in Nat \ {0}, n * a < n * b
  PROVE  a < b
<1> SUFFICES ASSUME b <= a PROVE FALSE
  OBVIOUS
<1>1. n * b <= n * a
  BY TimesKeeps
<1> QED BY <1>1

\* Dividing a larger number by the same divisor gives no less.
LEMMA DivisionKeeps ==
  ASSUME NEW x \in Nat, NEW y \in Nat, NEW d \in Nat \ {0}, x <= y
  PROVE  x \div d <= y \div d
<1>1. x \div d \in Nat /\ y \div d \in Nat
  BY Division
<1>2. d * (x \div d) <= x /\ y < d * (y \div d + 1)
  BY Division
<1>3. d * (x \div d) \in Nat /\ d * (y \div d + 1) \in Nat
  BY <1>1
<1>4. d * (x \div d) < d * (y \div d + 1)
  BY <1>2, <1>3
<1>5. x \div d < y \div d + 1
  BY <1>1, <1>4, TimesReflects
<1> QED BY <1>1, <1>5

\* A factor common to the number and the divisor changes nothing.
LEMMA DivisionCancels ==
  ASSUME NEW x \in Nat, NEW d \in Nat \ {0}, NEW n \in Nat \ {0}
  PROVE  (n * x) \div (n * d) = x \div d
<1> DEFINE p == (n * x) \div (n * d)
           q == x \div d
<1>1. n * x \in Nat /\ n * d \in Nat \ {0}
  OBVIOUS
<1>2. p \in Nat /\ (n * d) * p <= n * x /\ n * x < (n * d) * (p + 1)
  BY <1>1, Division
<1>3. q \in Nat /\ d * q <= x /\ x < d * (q + 1)
  BY Division
<1> HIDE DEF p, q
<1>4. n * (d * p) <= n * x /\ n * x < n * (d * (p + 1))
  BY <1>2
<1>5. x < d * (p + 1)
  BY <1>2, <1>4, TimesReflects
<1>6. d * p < x + 1
  <2>1. n * (d * p) < n * (x + 1)
    BY <1>2, <1>4
  <2> QED BY <1>2, <2>1, TimesReflects
<1>7. d * p < d * (q + 1) /\ d * q < d * (p + 1)
  BY <1>2, <1>3, <1>5, <1>6
<1>8. p < q + 1 /\ q < p + 1
  BY <1>2, <1>3, <1>7, TimesReflects
<1> QED BY <1>2, <1>3, <1>8 DEF p, q

\* The mean lies between the roundings of any two bounds of the average.
LEMMA MeanBounds ==
  ASSUME NEW s \in Nat, NEW n \in Nat \ {0}, NEW lo \in Nat, NEW hi \in Nat,
         n * lo <= s, s <= n * hi
  PROVE  /\ Mean(s, n) \in Nat
         /\ Rounded(lo) <= Mean(s, n)
         /\ Mean(s, n) <= Rounded(hi)
<1>1. Grain \in Nat \ {0}
  BY AggregationAssumption
<1> DEFINE d == 2 * Grain
           at(x) == 2 * x + Grain
           sum == 2 * s + n * Grain
<1>2. d \in Nat \ {0} /\ n * d \in Nat \ {0} /\ 2 * n * Grain = n * d
  BY <1>1
<1>3. sum \in Nat /\ at(lo) \in Nat /\ at(hi) \in Nat
  BY <1>1
<1>4. n * at(lo) <= sum /\ sum <= n * at(hi)
  <2>1. n * at(lo) = 2 * (n * lo) + n * Grain /\ n * at(hi) = 2 * (n * hi) + n * Grain
    BY <1>1
  <2> QED BY <1>1, <2>1
<1>5. n * at(lo) \in Nat /\ n * at(hi) \in Nat
  BY <1>3
<1>6. at(lo) \div d <= sum \div (n * d) /\ sum \div (n * d) <= at(hi) \div d
  <2> HIDE DEF sum, at, d
  <2>1. (n * at(lo)) \div (n * d) <= sum \div (n * d)
    BY <1>2, <1>3, <1>4, <1>5, DivisionKeeps
  <2>2. sum \div (n * d) <= (n * at(hi)) \div (n * d)
    BY <1>2, <1>3, <1>4, <1>5, DivisionKeeps
  <2>3. (n * at(lo)) \div (n * d) = at(lo) \div d
    BY <1>2, <1>3, DivisionCancels
  <2>4. (n * at(hi)) \div (n * d) = at(hi) \div d
    BY <1>2, <1>3, DivisionCancels
  <2> QED BY <2>1, <2>2, <2>3, <2>4
<1>7. Mean(s, n) = Grain * (sum \div (n * d))
  BY <1>2 DEF Mean
<1>8. Rounded(lo) = Grain * (at(lo) \div d) /\ Rounded(hi) = Grain * (at(hi) \div d)
  BY <1>1 DEF Rounded, Mean
<1>9. sum \div (n * d) \in Nat /\ at(lo) \div d \in Nat /\ at(hi) \div d \in Nat
  <2> HIDE DEF sum, at, d
  <2> QED BY <1>2, <1>3, Division
<1> HIDE DEF sum, at, d
<1> QED BY <1>1, <1>6, <1>7, <1>8, <1>9, TimesKeeps

-----------------------------------------------------------------------------
(* What the loop keeps.                                                    *)

\* A row is made of the accumulator.
RowInv ==
    result # None =>
        /\ acc # None
        /\ result = [mean |-> Mean(acc.sum, acc.count), top |-> acc.top,
                     bottom |-> acc.bottom, volume |-> acc.volume]

\* The sum of a candle's prices lies between count times the extremes.
CandleInv ==
    kind = "candle" /\ acc # None =>
        acc.count * acc.bottom <= acc.sum /\ acc.sum <= acc.count * acc.top

\* The sum lies between count times two of the contributions.
MeanInv ==
    acc # None =>
        \E e, f \in DOMAIN given :
            /\ acc.count * given[e].mean <= acc.sum
            /\ acc.sum <= acc.count * given[f].mean

\* The extremes are those of the contributions.
OfferInv ==
    acc # None =>
        /\ \A e \in DOMAIN given : given[e].top <= acc.top /\ acc.bottom <= given[e].bottom
        /\ \E e \in DOMAIN given : given[e].top = acc.top
        /\ \E e \in DOMAIN given : given[e].bottom = acc.bottom

\* Every contribution has lost less than a unit of its volume.
VolumeInv ==
    /\ acc = None => poured = 0
    /\ acc # None =>
        /\ acc.volume * Parts <= poured
        /\ poured < (acc.volume + acc.count) * Parts

\* A single volume loses less than a unit.
LEMMA FloorBounds ==
  ASSUME NEW v \in Volumes
  PROVE  Floor(v) \in Nat /\ Floor(v) * Parts <= v /\ v < (Floor(v) + 1) * Parts
<1>1. v \in Nat /\ Parts \in Nat \ {0}
  BY AggregationAssumption
<1>2. v \div Parts \in Nat /\ Parts * (v \div Parts) <= v /\ v < Parts * (v \div Parts + 1)
  BY <1>1, Division
<1> DEFINE q == v \div Parts
<1> HIDE DEF q
<1>3. q \in Nat /\ Parts * q <= v /\ v < Parts * (q + 1)
  BY <1>2 DEF q
<1>4. Parts * q = q * Parts /\ Parts * (q + 1) = (q + 1) * Parts
  BY <1>1, <1>3
<1> QED BY <1>3, <1>4 DEF Floor, q

\* What a visit does to the accumulator, in words the later proofs share.
LEMMA VisitFacts ==
  ASSUME TypeOK, NEW e \in Exchanges, NEW c \in Contribution, Visit(e, c)
  PROVE  /\ result = None /\ result' = None /\ kind' = kind
         /\ acc' # None /\ acc' \in Accumulator
         /\ DOMAIN given' = DOMAIN given \cup {e} /\ e \notin DOMAIN given
         /\ given'[e] = c
         /\ \A x \in DOMAIN given : given'[x] = given[x]
<1>1. c.mean \in Nat /\ c.top \in Prices /\ c.bottom \in Prices /\ c.volume \in Volumes
  BY AggregationAssumption DEF Contribution
<1>2. Floor(c.volume) \in Nat
  BY <1>1, FloorBounds
<1>3. StartAcc(c) \in Accumulator
  BY <1>1, <1>2 DEF StartAcc, Accumulator
<1>4. ASSUME acc \in Accumulator PROVE AddAcc(c) \in Accumulator
  <2>1. acc.sum \in Nat /\ acc.top \in Prices /\ acc.bottom \in Prices
        /\ acc.volume \in Nat /\ acc.count \in Nat \ {0}
    BY <1>4 DEF Accumulator
  <2>2. acc.sum + c.mean \in Nat /\ acc.volume + Floor(c.volume) \in Nat
        /\ acc.count + 1 \in Nat \ {0}
    BY <1>1, <1>2, <2>1
  <2> QED BY <1>1, <2>1, <2>2 DEF AddAcc, Accumulator
<1>5. acc = None \/ acc \in Accumulator
  BY DEF TypeOK
<1>6. \A a \in Accumulator : a # None
  <2> SUFFICES ASSUME NEW a \in Accumulator, a = None PROVE FALSE
    OBVIOUS
  <2>1. a.count \in Nat \ {0}
    BY DEF Accumulator
  <2>2. a.count = 0
    BY DEF None
  <2> QED BY <2>1, <2>2
<1> QED BY <1>3, <1>4, <1>5, <1>6 DEF Visit

\* What the first visit leaves in the accumulator.
LEMMA FirstVisit ==
  ASSUME TypeOK, NEW e \in Exchanges, NEW c \in Contribution, Visit(e, c), acc = None
  PROVE  /\ acc'.sum = c.mean /\ acc'.top = c.top /\ acc'.bottom = c.bottom
         /\ acc'.volume = Floor(c.volume) /\ acc'.count = 1
<1>1. acc' = StartAcc(c)
  BY DEF Visit
<1> QED BY <1>1 DEF StartAcc

\* What every other visit makes of it.
LEMMA LaterVisit ==
  ASSUME TypeOK, NEW e \in Exchanges, NEW c \in Contribution, Visit(e, c), acc # None
  PROVE  /\ acc \in Accumulator
         /\ acc'.sum = acc.sum + c.mean
         /\ acc'.top = IF c.top > acc.top THEN c.top ELSE acc.top
         /\ acc'.bottom = IF c.bottom < acc.bottom THEN c.bottom ELSE acc.bottom
         /\ acc'.volume = acc.volume + Floor(c.volume)
         /\ acc'.count = acc.count + 1
<1>1. acc' = AddAcc(c)
  BY DEF Visit
<1>2. acc \in Accumulator
  BY DEF TypeOK
<1> QED BY <1>1, <1>2 DEF AddAcc

\* The state is well typed: an accumulator exists as soon as something was
\* given (symbol_kline_handle.go:144-160).
THEOREM TypeCorrect == Spec => []TypeOK
<1>1. Init => TypeOK
  <2> SUFFICES ASSUME Init PROVE TypeOK
    OBVIOUS
  <2>1. DOMAIN given = {}
    BY DEF Init
  <2> QED BY <2>1 DEF Init, TypeOK
<1>2. TypeOK /\ [Next]_vars => TypeOK'
  <2> SUFFICES ASSUME TypeOK, [Next]_vars PROVE TypeOK'
    OBVIOUS
  <2>1. CASE UNCHANGED vars
    BY <2>1 DEF vars, TypeOK, Sound
  <2>2. CASE Finish
    <3>1. acc \in Accumulator
      BY <2>2 DEF Finish, TypeOK
    <3>2. acc.sum \in Nat /\ acc.count \in Nat \ {0} /\ acc.top \in Prices
          /\ acc.bottom \in Prices /\ acc.volume \in Nat
      BY <3>1 DEF Accumulator
    <3>3. Mean(acc.sum, acc.count) \in Nat
      <4>1. Grain \in Nat \ {0}
        BY AggregationAssumption
      <4>2. 2 * acc.sum + acc.count * Grain \in Nat /\ 2 * acc.count * Grain \in Nat \ {0}
        BY <3>2, <4>1
      <4> QED BY <4>1, <4>2, Division DEF Mean
    <3>4. result' \in Aggregate
      BY <2>2, <3>2, <3>3 DEF Finish, Aggregate
    <3> QED BY <2>2, <3>4 DEF Finish, TypeOK, Sound
  <2>3. ASSUME NEW e \in Exchanges, NEW c \in Contribution, Visit(e, c) PROVE TypeOK'
    <3>1. /\ result' = None /\ kind' = kind /\ acc' # None /\ acc' \in Accumulator
          /\ DOMAIN given' = DOMAIN given \cup {e} /\ given'[e] = c
          /\ \A x \in DOMAIN given : given'[x] = given[x]
      BY <2>3, VisitFacts
    <3>2. \A x \in DOMAIN given' : given'[x] \in Contribution /\ Sound(given[x])'
      BY <2>3, <3>1 DEF TypeOK, Sound, Visit
    <3>3. poured' \in Nat
      <4>1. c.volume \in Nat
        BY AggregationAssumption DEF Contribution
      <4> QED BY <2>3, <4>1 DEF Visit, TypeOK
    <3>4. kind' \in {"candle", "quote"} /\ DOMAIN given' \subseteq Exchanges
          /\ DOMAIN given' # {}
      BY <3>1 DEF TypeOK
    <3> QED BY <3>1, <3>2, <3>3, <3>4 DEF TypeOK
  <2> QED BY <2>1, <2>2, <2>3 DEF Next
<1> QED BY <1>1, <1>2, PTL DEF Spec

\* A published row is made from the accumulator it was finished with.
LEMMA RowStep == TypeOK /\ RowInv /\ [Next]_vars => RowInv'
<1> SUFFICES ASSUME TypeOK, RowInv, [Next]_vars PROVE RowInv'
  OBVIOUS
<1>1. CASE UNCHANGED vars
  BY <1>1 DEF vars, RowInv, Mean
<1>2. CASE Finish
  BY <1>2 DEF Finish, RowInv, Mean
<1>3. ASSUME NEW e \in Exchanges, NEW c \in Contribution, Visit(e, c) PROVE RowInv'
  <2>1. result' = None
    BY <1>3, VisitFacts
  <2> QED BY <2>1 DEF RowInv
<1> QED BY <1>1, <1>2, <1>3 DEF Next

LEMMA CandleStep == TypeOK /\ CandleInv /\ [Next]_vars => CandleInv'
<1> SUFFICES ASSUME TypeOK, CandleInv, [Next]_vars PROVE CandleInv'
  OBVIOUS
<1>1. CASE UNCHANGED vars
  BY <1>1 DEF vars, CandleInv
<1>2. CASE Finish
  BY <1>2 DEF Finish, CandleInv
<1>3. ASSUME NEW e \in Exchanges, NEW c \in Contribution, Visit(e, c) PROVE CandleInv'
  <2> SUFFICES ASSUME kind' = "candle"
               PROVE  acc'.count * acc'.bottom <= acc'.sum /\ acc'.sum <= acc'.count * acc'.top
    BY DEF CandleInv
  <2>1. kind = "candle" /\ c.bottom <= c.mean /\ c.mean <= c.top
    BY <1>3 DEF Visit, Sound
  <2>2. c.bottom \in Nat /\ c.mean \in Nat /\ c.top \in Nat
    BY AggregationAssumption DEF Contribution
  <2>3. CASE acc = None
    <3>1. acc'.count = 1 /\ acc'.sum = c.mean /\ acc'.bottom = c.bottom /\ acc'.top = c.top
      BY <1>3, <2>3, FirstVisit
    <3> QED BY <2>1, <2>2, <3>1
  <2>4. CASE acc # None
    <3> DEFINE n == acc.count
               s == acc.sum
               b == acc.bottom
               t == acc.top
               nb == IF c.bottom < b THEN c.bottom ELSE b
               nt == IF c.top > t THEN c.top ELSE t
    <3>1. acc'.count = n + 1 /\ acc'.sum = s + c.mean /\ acc'.bottom = nb /\ acc'.top = nt
      BY <1>3, <2>4, LaterVisit
    <3>2. n \in Nat \ {0} /\ s \in Nat /\ b \in Nat /\ t \in Nat
      BY <1>3, <2>4, LaterVisit, AggregationAssumption DEF Accumulator
    <3>3. n * b <= s /\ s <= n * t
      BY <2>1, <2>4 DEF CandleInv
    <3> HIDE DEF n, s, b, t
    <3>4. nb \in Nat /\ nb <= b /\ nb <= c.mean /\ nt \in Nat /\ t <= nt /\ c.mean <= nt
      BY <2>1, <2>2, <3>2
    <3> HIDE DEF nb, nt
    <3>5. n * nb <= n * b /\ n * t <= n * nt
      BY <3>2, <3>4, TimesKeeps
    <3>6. (n + 1) * nb = n * nb + nb /\ (n + 1) * nt = n * nt + nt
      BY <3>2, <3>4
    <3>7. n * nb \in Nat /\ n * nt \in Nat /\ n * b \in Nat /\ n * t \in Nat
      BY <3>2, <3>4
    <3>8. (n + 1) * nb <= s + c.mean /\ s + c.mean <= (n + 1) * nt
      BY <2>2, <3>2, <3>3, <3>4, <3>5, <3>6, <3>7
    <3> QED BY <3>1, <3>8
  <2> QED BY <2>3, <2>4
<1> QED BY <1>1, <1>2, <1>3 DEF Next

\* An aggregated candle is a candle up to the rounding of its division, for any
\* number of exchanges and any prices (symbol_kline_handle.go:111-216).
THEOREM CandleCorrect == Spec => []CandleStaysACandle
<1>1. Init => TypeOK /\ RowInv /\ CandleInv
  <2>1. Init => RowInv /\ CandleInv
    BY DEF Init, RowInv, CandleInv
  <2>2. Init => TypeOK
    <3> SUFFICES ASSUME Init PROVE TypeOK
      OBVIOUS
    <3>1. DOMAIN given = {}
      BY DEF Init
    <3> QED BY <3>1 DEF Init, TypeOK
  <2> QED BY <2>1, <2>2
<1>2. TypeOK /\ RowInv /\ CandleInv => CandleStaysACandle
  <2> SUFFICES ASSUME TypeOK, RowInv, CandleInv, kind = "candle", result # None
               PROVE  Rounded(result.bottom) <= result.mean /\ result.mean <= Rounded(result.top)
    BY DEF CandleStaysACandle
  <2>1. /\ result.mean = Mean(acc.sum, acc.count)
        /\ result.bottom = acc.bottom /\ result.top = acc.top
        /\ acc # None
    BY DEF RowInv
  <2>2. acc.sum \in Nat /\ acc.count \in Nat \ {0} /\ acc.bottom \in Nat /\ acc.top \in Nat
    BY <2>1, AggregationAssumption DEF TypeOK, Accumulator
  <2>3. acc.count * acc.bottom <= acc.sum /\ acc.sum <= acc.count * acc.top
    BY <2>1 DEF CandleInv
  <2> QED BY <2>1, <2>2, <2>3, MeanBounds
<1> QED BY <1>1, <1>2, TypeCorrect, RowStep, CandleStep, PTL DEF Spec

LEMMA MeanStep == TypeOK /\ MeanInv /\ [Next]_vars => MeanInv'
<1> SUFFICES ASSUME TypeOK, MeanInv, [Next]_vars PROVE MeanInv'
  OBVIOUS
<1>1. CASE UNCHANGED vars
  BY <1>1 DEF vars, MeanInv
<1>2. CASE Finish
  BY <1>2 DEF Finish, MeanInv
<1>3. ASSUME NEW e \in Exchanges, NEW c \in Contribution, Visit(e, c) PROVE MeanInv'
  <2>1. /\ DOMAIN given' = DOMAIN given \cup {e} /\ given'[e] = c
        /\ \A x \in DOMAIN given : given'[x] = given[x]
    BY <1>3, VisitFacts
  <2>2. c.mean \in Nat
    BY AggregationAssumption DEF Contribution
  <2>3. CASE acc = None
    <3>1. acc'.count = 1 /\ acc'.sum = c.mean
      BY <1>3, <2>3, FirstVisit
    <3>2. acc'.count * given'[e].mean <= acc'.sum /\ acc'.sum <= acc'.count * given'[e].mean
      BY <2>1, <2>2, <3>1
    <3> QED BY <2>1, <3>2 DEF MeanInv
  <2>4. CASE acc # None
    <3> DEFINE n == acc.count
               s == acc.sum
               m == c.mean
    <3>1. acc'.count = n + 1 /\ acc'.sum = s + m
      BY <1>3, <2>4, LaterVisit
    <3>2. n \in Nat \ {0} /\ s \in Nat
      BY <1>3, <2>4, LaterVisit DEF Accumulator
    <3>3. PICK lo \in DOMAIN given, hi \in DOMAIN given :
             n * given[lo].mean <= s /\ s <= n * given[hi].mean
      BY <2>4 DEF MeanInv
    <3> DEFINE l == given[lo].mean
               h == given[hi].mean
    <3>4. l \in Nat /\ h \in Nat
      BY AggregationAssumption DEF TypeOK, Contribution
    <3>5. n * l <= s /\ s <= n * h
      BY <3>3
    <3>6. given'[lo].mean = l /\ given'[hi].mean = h /\ given'[e].mean = m
      BY <2>1
    <3> HIDE DEF n, s, m, l, h
    <3>7. m \in Nat
      BY <2>2 DEF m
    <3>8. \A x \in Nat : (n + 1) * x = n * x + x /\ n * x \in Nat
      BY <3>2
    <3>9. (n + 1) * l <= s + m \/ (n + 1) * m <= s + m
      <4>1. CASE l <= m
        BY <3>2, <3>4, <3>5, <3>7, <3>8, <4>1
      <4>2. CASE m <= l
        BY <3>2, <3>4, <3>5, <3>7, <3>8, <4>2, TimesKeeps
      <4> QED BY <3>4, <3>7, <4>1, <4>2
    <3>10. s + m <= (n + 1) * h \/ s + m <= (n + 1) * m
      <4>1. CASE m <= h
        BY <3>2, <3>4, <3>5, <3>7, <3>8, <4>1
      <4>2. CASE h <= m
        BY <3>2, <3>4, <3>5, <3>7, <3>8, <4>2, TimesKeeps
      <4> QED BY <3>4, <3>7, <4>1, <4>2
    <3>11. \E x \in DOMAIN given' : acc'.count * given'[x].mean <= acc'.sum
      BY <2>1, <3>1, <3>6, <3>9
    <3>12. \E y \in DOMAIN given' : acc'.sum <= acc'.count * given'[y].mean
      BY <2>1, <3>1, <3>6, <3>10
    <3> QED BY <3>11, <3>12 DEF MeanInv
  <2> QED BY <2>3, <2>4
<1> QED BY <1>1, <1>2, <1>3 DEF Next

\* The published mean lies between the contributions, for any number of them
\* (market_price_handle.go:258-335).
THEOREM MeanCorrect == Spec => []MeanAmongContributions
<1>1. Init => RowInv /\ MeanInv
  BY DEF Init, RowInv, MeanInv
<1>2. TypeOK /\ RowInv /\ MeanInv => MeanAmongContributions
  <2> SUFFICES ASSUME TypeOK, RowInv, MeanInv, result # None
               PROVE  \E e, f \in DOMAIN given :
                         /\ Rounded(given[e].mean) <= result.mean
                         /\ result.mean <= Rounded(given[f].mean)
    BY DEF MeanAmongContributions
  <2>1. result.mean = Mean(acc.sum, acc.count) /\ acc # None
    BY DEF RowInv
  <2>2. acc.sum \in Nat /\ acc.count \in Nat \ {0}
    BY <2>1 DEF TypeOK, Accumulator
  <2>3. PICK e \in DOMAIN given, f \in DOMAIN given :
           acc.count * given[e].mean <= acc.sum /\ acc.sum <= acc.count * given[f].mean
    BY <2>1 DEF MeanInv
  <2>4. given[e].mean \in Nat /\ given[f].mean \in Nat
    BY AggregationAssumption DEF TypeOK, Contribution
  <2>5. Rounded(given[e].mean) <= result.mean /\ result.mean <= Rounded(given[f].mean)
    BY <2>1, <2>2, <2>3, <2>4, MeanBounds
  <2> QED BY <2>5
<1> QED BY <1>1, <1>2, TypeCorrect, RowStep, MeanStep, PTL DEF Spec

LEMMA OfferStep == TypeOK /\ OfferInv /\ [Next]_vars => OfferInv'
<1> SUFFICES ASSUME TypeOK, OfferInv, [Next]_vars PROVE OfferInv'
  OBVIOUS
<1>1. CASE UNCHANGED vars
  BY <1>1 DEF vars, OfferInv
<1>2. CASE Finish
  BY <1>2 DEF Finish, OfferInv
<1>3. ASSUME NEW e \in Exchanges, NEW c \in Contribution, Visit(e, c) PROVE OfferInv'
  <2>1. /\ DOMAIN given' = DOMAIN given \cup {e} /\ given'[e] = c
        /\ \A x \in DOMAIN given : given'[x] = given[x]
    BY <1>3, VisitFacts
  <2>2. c.top \in Nat /\ c.bottom \in Nat
    BY AggregationAssumption DEF Contribution
  <2>3. CASE acc = None
    <3>1. acc'.top = c.top /\ acc'.bottom = c.bottom /\ DOMAIN given' = {e}
      <4>1. DOMAIN given = {}
        BY <2>3 DEF TypeOK
      <4> QED BY <1>3, <2>1, <2>3, <4>1, FirstVisit
    <3> QED BY <2>1, <2>2, <3>1 DEF OfferInv
  <2>4. CASE acc # None
    <3>1. /\ acc'.top = IF c.top > acc.top THEN c.top ELSE acc.top
          /\ acc'.bottom = IF c.bottom < acc.bottom THEN c.bottom ELSE acc.bottom
      BY <1>3, <2>4, LaterVisit
    <3>2. acc.top \in Nat /\ acc.bottom \in Nat
      BY <1>3, <2>4, LaterVisit, AggregationAssumption DEF Accumulator
    <3>3. \A x \in DOMAIN given : given[x].top \in Nat /\ given[x].bottom \in Nat
      BY AggregationAssumption DEF TypeOK, Contribution
    <3>4. \A x \in DOMAIN given' : given'[x].top <= acc'.top /\ acc'.bottom <= given'[x].bottom
      BY <2>1, <2>2, <2>4, <3>1, <3>2, <3>3 DEF OfferInv
    <3>5. \E x \in DOMAIN given' : given'[x].top = acc'.top
      BY <2>1, <2>4, <3>1 DEF OfferInv
    <3>6. \E x \in DOMAIN given' : given'[x].bottom = acc'.bottom
      BY <2>1, <2>4, <3>1 DEF OfferInv
    <3> QED BY <3>4, <3>5, <3>6 DEF OfferInv
  <2> QED BY <2>3, <2>4
<1> QED BY <1>1, <1>2, <1>3 DEF Next

\* The best bid and the best ask, the high and the low, are published, for any
\* number of exchanges (market_price_handle.go:304-311).
THEOREM OfferCorrect == Spec => []BestOfferIsPublished
<1>1. Init => RowInv /\ OfferInv
  BY DEF Init, RowInv, OfferInv
<1>2. RowInv /\ OfferInv => BestOfferIsPublished
  BY DEF RowInv, OfferInv, BestOfferIsPublished
<1> QED BY <1>1, <1>2, TypeCorrect, RowStep, OfferStep, PTL DEF Spec

LEMMA VolumeStep == TypeOK /\ VolumeInv /\ [Next]_vars => VolumeInv'
<1> SUFFICES ASSUME TypeOK, VolumeInv, [Next]_vars PROVE VolumeInv'
  OBVIOUS
<1>1. CASE UNCHANGED vars
  BY <1>1 DEF vars, VolumeInv
<1>2. CASE Finish
  BY <1>2 DEF Finish, VolumeInv
<1>3. ASSUME NEW e \in Exchanges, NEW c \in Contribution, Visit(e, c) PROVE VolumeInv'
  <2> DEFINE v == c.volume
             f == Floor(c.volume)
  <2>1. v \in Nat /\ Parts \in Nat \ {0}
    BY AggregationAssumption DEF Contribution
  <2>2. f \in Nat /\ f * Parts <= v /\ v < (f + 1) * Parts
    BY FloorBounds DEF Contribution
  <2>3. poured' = poured + v /\ poured \in Nat
    BY <1>3 DEF Visit, TypeOK
  <2>4. CASE acc = None
    <3>1. acc'.volume = f /\ acc'.count = 1
      BY <1>3, <2>4, FirstVisit
    <3>2. poured = 0
      BY <2>4 DEF VolumeInv
    <3>3. acc' # None
      BY <1>3, VisitFacts
    <3> HIDE DEF v, f
    <3>4. acc'.volume * Parts <= poured' /\ poured' < (acc'.volume + acc'.count) * Parts
      BY <2>1, <2>2, <2>3, <3>1, <3>2
    <3> QED BY <3>3, <3>4 DEF VolumeInv
  <2>5. CASE acc # None
    <3> DEFINE w == acc.volume
               n == acc.count
    <3>1. acc'.volume = w + f /\ acc'.count = n + 1
      BY <1>3, <2>5, LaterVisit
    <3>2. w \in Nat /\ n \in Nat \ {0}
      BY <1>3, <2>5, LaterVisit DEF Accumulator
    <3>3. w * Parts <= poured /\ poured < (w + n) * Parts
      BY <2>5 DEF VolumeInv
    <3> HIDE DEF v, f, w, n
    <3>4. (w + f) * Parts = w * Parts + f * Parts
      BY <2>1, <2>2, <3>2
    <3>5. (w + f + (n + 1)) * Parts = (w + n) * Parts + (f + 1) * Parts
      BY <2>1, <2>2, <3>2
    <3>6. w * Parts \in Nat /\ f * Parts \in Nat /\ (w + n) * Parts \in Nat /\ (f + 1) * Parts \in Nat
      BY <2>1, <2>2, <3>2
    <3>7. (w + f) * Parts <= poured + v /\ poured + v < (w + f + (n + 1)) * Parts
      BY <2>1, <2>2, <2>3, <3>3, <3>4, <3>5, <3>6
    <3>8. acc' # None
      BY <1>3, VisitFacts
    <3> QED BY <2>3, <3>1, <3>7, <3>8 DEF VolumeInv
  <2> QED BY <2>4, <2>5
<1> QED BY <1>1, <1>2, <1>3 DEF Next

\* Less than one unit of volume is lost per contributing exchange, for any
\* number of them (symbol_kline_handle.go:206).
THEOREM VolumeCorrect == Spec => []VolumeShortfall
<1>1. Init => RowInv /\ VolumeInv
  BY DEF Init, RowInv, VolumeInv
<1>2. RowInv /\ VolumeInv => VolumeShortfall
  BY DEF RowInv, VolumeInv, VolumeShortfall
<1> QED BY <1>1, <1>2, TypeCorrect, RowStep, VolumeStep, PTL DEF Spec
=============================================================================
