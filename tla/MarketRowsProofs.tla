-------------------------- MODULE MarketRowsProofs --------------------------
(***************************************************************************)
(* Proofs about MarketRows, for any symbols, prices, clock and time zone.  *)
(***************************************************************************)
EXTENDS MarketRows, SequenceTheorems, TLAPS

LEMMA UintIsWhole == ASSUME NEW a \in Int PROVE Uint(a) \in Whole
  BY DEF Uint, Whole

LEMMA ClampIsRate == ASSUME NEW r \in Int PROVE Clamp(r) \in Rate
  BY DEF Clamp, Rate

LEMMA ChangeIsRate == ASSUME NEW p \in Nat, NEW f \in Nat PROVE Change(p, f) \in Rate
<1>1. CASE f = 0
  BY <1>1 DEF Change, Rate
<1>2. CASE f # 0
  <2> DEFINE num == 200 * (p - f) + f
             den == 2 * f
  <2>1. num \in Int /\ den \in Nat /\ den > 0
    BY <1>2
  <2> HIDE DEF num, den
  <2>2. num \div den \in Int
    BY <2>1
  <2>3. Clamp(num \div den) \in Rate
    BY <2>2, ClampIsRate
  <2> QED
    BY <1>2, <2>3 DEF Change, num, den
<1> QED
  BY <1>1, <1>2

LEMMA DayIsNat == ASSUME NEW t \in Nat PROVE DayOf(t) \in Nat
<1>1. PICK len : len = 2 * Day
  OBVIOUS
<1>2. len \in Nat /\ len > 0
  BY <1>1, MarketRowsAssumption
<1>3. t \div len \in Nat
  BY <1>2
<1> QED
  BY <1>1, <1>3 DEF DayOf

\* Nothing an answer holds can make a cap that is no whole number.
LEMMA ParsedIsWhole ==
  ASSUME NEW D, NEW data \in [D -> Entry]
  PROVE  \A c \in DOMAIN Parsed(data) : Parsed(data)[c] \in Whole
<1>1. \A c \in D : data[c].amount \in Int
  <2> SUFFICES ASSUME NEW c \in D PROVE data[c].amount \in Int
    OBVIOUS
  <2>1. data[c] \in Entry
    OBVIOUS
  <2>2. data[c].amount \in Amounts \cup {0}
    BY <2>1 DEF Entry
  <2>3. \A a \in Amounts \cup {0} : a \in Int
    BY MarketRowsAssumption
  <2> QED
    BY <2>2, <2>3, Zenon
<1>2. CASE Parsed(data) = Nothing
  BY <1>2 DEF Nothing
<1>3. CASE Parsed(data) # Nothing
  <2>1. Parsed(data) =
          [c \in {d \in DOMAIN data : data[d].kind = "quote"} |-> Uint(data[c].amount)]
    BY <1>3 DEF Parsed
  <2> DEFINE Q == {d \in DOMAIN data : data[d].kind = "quote"}
  <2>2. \A c \in Q : c \in D /\ Uint(data[c].amount) \in Whole
    BY <1>1, UintIsWhole
  <2> HIDE DEF Q
  <2>3. DOMAIN Parsed(data) = Q /\ \A c \in Q : Parsed(data)[c] = Uint(data[c].amount)
    BY <2>1 DEF Q
  <2> QED
    BY <2>2, <2>3
<1> QED
  BY <1>2, <1>3

\* The row of a round is well typed, and the table takes it unless its cap is
\* too large.
LEMMA NewRowFits ==
  ASSUME TypeOK, NEW s \in todo, NEW h \in held
  PROVE  /\ NewRow(s, h) \in Row
         /\ NewRow(s, h).cap >= UintLimit \/ Accepted(NewRow(s, h))
<1>1. s \in Symbols /\ priced[s] \in Nat
  BY MarketRowsAssumption DEF TypeOK
<1>2. h \in Finding
  BY DEF TypeOK
<1>3. Stamp(now) \in Int
  BY MarketRowsAssumption DEF TypeOK, Stamp
<1>4. (IF CoinOf[s] \in DOMAIN quotes THEN quotes[CoinOf[s]] ELSE 0) \in Whole
  BY DEF TypeOK, Whole
<1>5. (IF s \in Convertible THEN curr ELSE {}) \in SUBSET Currencies
  BY DEF TypeOK
<1>6. NewRow(s, h) \in Row
  BY <1>1, <1>2, <1>3, <1>4, <1>5 DEF NewRow, Row, Finding
<1>7. /\ NewRow(s, h).price \in Nat /\ NewRow(s, h).change \in Rate
      /\ NewRow(s, h).cap \in Whole /\ NewRow(s, h).cap \in Nat
  BY <1>6 DEF Row, Whole
<1>8. UintLimit \in Nat
  BY MarketRowsAssumption
<1> QED
  BY <1>6, <1>7, <1>8 DEF Accepted, Uint256

\* What the worker's steps do to the tables: nothing, or they append the row of
\* the symbol at hand.
Commits(s, h) ==
    /\ pc = "store" /\ Next1st(s) /\ h \in held
    /\ CommitRow(s, NewRow(s, h))
    /\ held' = {} /\ now' = now /\ zone' = zone

LEMMA TableSteps ==
  ASSUME TypeOK, [Next]_vars
  PROVE  \/ UNCHANGED <<tables, zone>> /\ now' \in {now, now + 1}
         \/ \E s \in todo, h \in held : Commits(s, h)
<1>1. CASE UNCHANGED vars
  BY <1>1 DEF vars
<1>2. CASE Tick
  BY <1>2 DEF Tick
<1>3. CASE RoundStart \/ FetchQuotes \/ RoundEnd \/ \E s \in Symbols : CalcRate(s)
  BY <1>3 DEF RoundStart, FetchQuotes, RoundEnd, CalcRate
<1>4. CASE WorkerFails
  BY <1>4 DEF WorkerFails, RoundOver, Commits
<1>5. ASSUME NEW s \in Symbols, StoreRow(s)
      PROVE  \/ UNCHANGED <<tables, zone, now>>
             \/ \E h \in held : Commits(s, h) /\ s \in todo
  <2>1. CASE RowRefused
    BY <1>5, <2>1 DEF StoreRow, RowRefused
  <2>2. CASE ~RowRefused
    BY <1>5, <2>2 DEF StoreRow, Next1st, Commits
  <2> QED
    BY <2>1, <2>2
<1> QED
  BY <1>1, <1>2, <1>3, <1>4, <1>5 DEF Next, Worker

\* Every variable of MarketRows stays in its type (market_price_handle.go:99-254).
THEOREM TypeCorrect == Spec => []TypeOK
<1>1. Init => TypeOK
  <2> SUFFICES ASSUME Init PROVE TypeOK
    OBVIOUS
  <2>1. rows \in Seq(Row) /\ Len(rows) = 0
    BY DEF Init
  <2>2. fiat \in [Symbols -> [Currencies -> 0 .. Len(rows)]]
    BY <2>1 DEF Init
  <2>3. DOMAIN priced = {} /\ DOMAIN quotes = {}
    BY DEF Init, Nothing
  <2>4. /\ now = 0 /\ zone \in Zones /\ pc = "idle" /\ from = 0 /\ curr = {} /\ todo = {}
        /\ held = {}
    BY DEF Init
  <2>5. from \in 0 .. Len(rows) /\ now \in Nat
    BY <2>1, <2>4
  <2>6. todo \subseteq DOMAIN priced /\ held \in SUBSET Finding /\ curr \in SUBSET Currencies
    BY <2>4
  <2>7. /\ DOMAIN priced \subseteq Symbols
        /\ \A s \in DOMAIN priced : priced[s] \in PricesOf[s]
        /\ \A c \in DOMAIN quotes : quotes[c] \in Whole
    BY <2>3
  <2> QED
    BY <2>1, <2>2, <2>4, <2>5, <2>6, <2>7 DEF TypeOK
<1>2. TypeOK /\ [Next]_vars => TypeOK'
  <2> SUFFICES ASSUME TypeOK, [Next]_vars PROVE TypeOK'
    OBVIOUS
  \* The tables.
  <2>1. /\ now' \in Nat /\ zone' \in Zones
        /\ rows' \in Seq(Row) /\ Len(rows') \in Nat /\ Len(rows) <= Len(rows')
        /\ fiat' \in [Symbols -> [Currencies -> 0 .. Len(rows')]]
    <3>1. CASE UNCHANGED <<tables, zone>> /\ now' \in {now, now + 1}
      BY <3>1 DEF TypeOK, tables
    <3>2. CASE \E s \in todo, h \in held : Commits(s, h)
      <4>1. PICK s \in todo, h \in held : Commits(s, h)
        BY <3>2
      <4>2. NewRow(s, h) \in Row
        BY NewRowFits
      <4>3. rows' = Append(rows, NewRow(s, h)) /\ now' = now /\ zone' = zone
        BY <4>1 DEF Commits, CommitRow
      <4>4. rows' \in Seq(Row) /\ Len(rows') = Len(rows) + 1 /\ Len(rows) \in Nat
        BY <4>2, <4>3 DEF TypeOK
      <4> DEFINE f == [c \in Currencies |->
                         IF c \in NewRow(s, h).curr THEN Len(rows) + 1 ELSE fiat[s][c]]
      <4>5. fiat' = [fiat EXCEPT ![s] = f]
        BY <4>1 DEF Commits, CommitRow
      <4>6. f \in [Currencies -> 0 .. Len(rows')] /\ s \in Symbols
        BY <4>4 DEF TypeOK
      <4> HIDE DEF f
      <4>7. fiat \in [Symbols -> [Currencies -> 0 .. Len(rows')]]
        BY <4>4 DEF TypeOK
      <4> QED
        BY <4>3, <4>4, <4>5, <4>6, <4>7 DEF TypeOK
    <3> QED
      BY <3>1, <3>2, TableSteps
  \* The rest of the round.
  <2>2. CASE RoundStart
    <3>1. DOMAIN priced' \subseteq Symbols /\ todo' = DOMAIN priced'
      BY <2>2 DEF RoundStart
    <3>2. \A s \in DOMAIN priced' : priced'[s] \in PricesOf[s]
      BY <2>2 DEF RoundStart
    <3> QED
      BY <2>1, <2>2, <3>1, <3>2 DEF RoundStart, TypeOK, tables
  <2>3. CASE FetchQuotes
    <3>1. \A c \in DOMAIN quotes' : quotes'[c] \in Whole
      BY <2>3, ParsedIsWhole DEF FetchQuotes
    <3> QED
      BY <2>1, <2>3, <3>1 DEF FetchQuotes, TypeOK, tables
  <2>4. ASSUME NEW s \in Symbols, CalcRate(s) PROVE TypeOK'
    <3>1. s \in todo /\ priced[s] \in Nat
      BY <2>4, MarketRowsAssumption DEF CalcRate, Next1st, TypeOK
    <3>2. PICK b \in FirstIn(Today(s, now)) \cup {0} : held' = {Found(s, now, b)}
      BY <2>4 DEF CalcRate
    <3>3. b \in Nat /\ (b # 0 => b \in DOMAIN rows)
      BY <3>2 DEF FirstIn, Today, TypeOK
    <3>4. (IF b = 0 THEN 0 ELSE Change(priced[s], rows[b].price)) \in Rate
      <4>1. b # 0 => rows[b].price \in Nat
        <5>1. b # 0 => rows[b] \in Row
          BY <3>3 DEF TypeOK
        <5> QED
          BY <5>1 DEF Row
      <4>2. CASE b = 0
        BY <4>2 DEF Rate
      <4>3. CASE b # 0
        <5>1. Change(priced[s], rows[b].price) \in Rate
          BY <4>1, <4>3, <3>1, ChangeIsRate
        <5> QED
          BY <4>3, <5>1
      <4> QED
        BY <4>2, <4>3
    <3>5. DayOf(now) \in Nat
      BY DayIsNat DEF TypeOK
    <3>6. Found(s, now, b) \in Finding
      BY <3>3, <3>4, <3>5 DEF Found, Finding
    <3> QED
      BY <2>1, <2>4, <3>2, <3>6 DEF CalcRate, TypeOK, tables
  <2>5. CASE RoundOver
    <3>1. todo' \subseteq DOMAIN priced' /\ DOMAIN priced' \subseteq Symbols
      BY <2>5 DEF RoundOver, Nothing
    <3>2. /\ \A s \in DOMAIN priced' : priced'[s] \in PricesOf[s]
          /\ \A c \in DOMAIN quotes' : quotes'[c] \in Whole
      BY <2>5 DEF RoundOver, Nothing
    <3> QED
      BY <2>1, <2>5, <3>1, <3>2 DEF RoundOver, TypeOK
  <2>6. CASE RoundEnd \/ WorkerFails
    BY <2>5, <2>6 DEF RoundEnd, WorkerFails, TypeOK
  <2>7. ASSUME NEW s \in Symbols, StoreRow(s) PROVE TypeOK'
    <3>1. CASE RowRefused
      BY <2>5, <3>1 DEF RowRefused
    <3>2. CASE ~RowRefused
      BY <2>1, <2>7, <3>2 DEF StoreRow, TypeOK
    <3> QED
      BY <3>1, <3>2
  <2>8. CASE Tick \/ UNCHANGED vars
    BY <2>1, <2>8 DEF Tick, TypeOK, vars, tables, work
  <2> QED
    BY <2>2, <2>3, <2>4, <2>6, <2>7, <2>8 DEF Next, Worker
<1> QED
  BY <1>1, <1>2, PTL DEF Spec

\* A row that the database refuses had a cap no UINT256 holds, whatever the
\* prices and the rest of the answers (market_price_handle.go:445-468,
\* cmc_client.go:189-196, 2026032500001.sql:11).
THEOREM RefusedForCap == Spec => RefusedOnlyForItsCap
<1>1. ASSUME TypeOK, NEW s \in Symbols, NEW h \in held, StoreRow(s), UNCHANGED rows
      PROVE  NewRow(s, h).cap >= UintLimit
  <2>1. s \in todo
    BY <1>1 DEF StoreRow, Next1st
  <2>2. PICK g \in held :
          IF Accepted(NewRow(s, g)) THEN CommitRow(s, NewRow(s, g)) ELSE RowRefused
    BY <1>1 DEF StoreRow
  <2>3. ~Accepted(NewRow(s, g))
    <3>1. SUFFICES ASSUME rows' = Append(rows, NewRow(s, g)) PROVE FALSE
      BY <2>2 DEF CommitRow
    <3>2. rows \in Seq(Row) /\ NewRow(s, g) \in Row
      BY <1>1, <2>1, NewRowFits DEF TypeOK
    <3>3. Len(Append(rows, NewRow(s, g))) = Len(rows) + 1 /\ Len(rows) \in Nat
      BY <3>2
    <3> QED
      BY <1>1, <3>1, <3>3
  <2>4. NewRow(s, g).cap >= UintLimit
    BY <1>1, <2>1, <2>3, NewRowFits
  <2>5. NewRow(s, h).cap = NewRow(s, g).cap
    BY DEF NewRow
  <2> QED
    BY <2>4, <2>5
<1>2. TypeOK /\ [Next]_vars =>
        [\A s \in Symbols : \A h \in held :
            StoreRow(s) /\ UNCHANGED rows => NewRow(s, h).cap >= UintLimit]_vars
  BY <1>1
<1> QED
  BY <1>2, TypeCorrect, PTL DEF Spec, RefusedOnlyForItsCap

-----------------------------------------------------------------------------
(* The row a change is measured against.                                   *)

LEMMA StampGrows ==
  ASSUME TypeOK, now' \in {now, now + 1}, zone' = zone
  PROVE  Stamp(now) <= Stamp(now)' /\ Stamp(now) \in Int /\ Stamp(now)' \in Int
<1>1. zone \in Int /\ now \in Nat
  BY MarketRowsAssumption DEF TypeOK
<1>2. (now + 1) \div 2 \in Int /\ (now + 2) \div 2 \in Int /\ (now + 1) \div 2 <= (now + 2) \div 2
  BY <1>1
<1>3. Stamp(now)' = Stamp(now) \/ Stamp(now)' = (now + 2) \div 2 + zone
  BY <1>1 DEF Stamp
<1> QED
  BY <1>1, <1>2, <1>3 DEF Stamp

\* A stamp is not after the midnight that ends the day it is taken in.
LEMMA StampInDay ==
  ASSUME TypeOK
  PROVE  Stamp(now) <= Midnight(DayOf(now) + 1) + zone
<1>1. zone \in Int /\ now \in Nat /\ Day \in Nat /\ Day > 0
  BY MarketRowsAssumption DEF TypeOK
<1> DEFINE len == 2 * Day
           q == now \div len
<1>2. len \in Nat /\ len > 0
  BY <1>1
<1> HIDE DEF len
<1>3. q \in Nat /\ now < len * (q + 1)
  BY <1>1, <1>2
<1> HIDE DEF q
<1>4. PICK m : m = (q + 1) * Day
  OBVIOUS
<1>5. m \in Int /\ len * (q + 1) = 2 * m
  BY <1>1, <1>3, <1>4 DEF len
<1>6. (now + 1) \div 2 <= m
  BY <1>1, <1>3, <1>5
<1>7. DayOf(now) = q
  BY DEF DayOf, q, len
<1>8. Stamp(now) = (now + 1) \div 2 + zone /\ (now + 1) \div 2 \in Int
  BY <1>1 DEF Stamp
<1>9. Midnight(DayOf(now) + 1) = m
  BY <1>4, <1>7 DEF Midnight
<1> QED
  BY <1>1, <1>5, <1>6, <1>8, <1>9

\* Row b is a first row of its symbol after the midnight that begins day d.
First(s, d, b) ==
    /\ b \in DOMAIN rows /\ rows[b].sym = s /\ rows[b].at > Midnight(d)
    /\ \A j \in DOMAIN rows :
          rows[j].sym = s /\ rows[j].at > Midnight(d) => rows[b].at <= rows[j].at

\* A finding f of calcRate for symbol s, or a row made from it, holds the first
\* row of its day, and the n rows there were then are not of a later day.
Sound(s, f, n) ==
    /\ f.base # 0 => First(s, f.day, f.base)
    /\ \A j \in 1 .. n :
          rows[j].sym = s => rows[j].at <= Midnight(f.day + 1) + zone

Measured ==
    /\ \A i \in DOMAIN rows : rows[i].at <= Stamp(now)
    /\ \A i \in DOMAIN rows : Sound(rows[i].sym, rows[i], i - 1)
    /\ pc # "store" => held = {}
    /\ \A s \in todo, h \in held : Next1st(s) => Sound(s, h, Len(rows))

\* What the tables are after a commit.
LEMMA Committed ==
  ASSUME TypeOK, NEW s \in todo, NEW h \in held, Commits(s, h)
  PROVE  /\ Len(rows) \in Nat /\ Len(rows') = Len(rows) + 1
         /\ DOMAIN rows = 1 .. Len(rows) /\ DOMAIN rows' = 1 .. Len(rows) + 1
         /\ \A i \in DOMAIN rows : rows'[i] = rows[i] /\ rows[i] \in Row
         /\ rows'[Len(rows) + 1] = NewRow(s, h)
         /\ NewRow(s, h).sym = s /\ NewRow(s, h).at = Stamp(now)
         /\ NewRow(s, h).day = h.day /\ NewRow(s, h).base = h.base
<1>1. rows' = Append(rows, NewRow(s, h)) /\ rows \in Seq(Row)
  BY DEF Commits, CommitRow, TypeOK
<1>2. Len(rows) \in Nat /\ DOMAIN rows = 1 .. Len(rows)
  BY <1>1
<1>3. \A i \in DOMAIN rows : rows'[i] = rows[i] /\ rows[i] \in Row
  BY <1>1, <1>2
<1>4. NewRow(s, h) \in Row
  BY NewRowFits
<1>5. Len(rows') = Len(rows) + 1 /\ rows'[Len(rows) + 1] = NewRow(s, h)
  BY <1>1, <1>4
<1>6. DOMAIN rows' = 1 .. Len(rows) + 1
  BY <1>1, <1>4, <1>5
<1> QED
  BY <1>2, <1>3, <1>5, <1>6 DEF NewRow

\* A later row never takes the place of a first one.
LEMMA StaysSound ==
  ASSUME TypeOK, Measured, NEW s \in todo, NEW h \in held, Commits(s, h),
         NEW t, NEW d, NEW b, First(t, d, b)
  PROVE  First(t, d, b)'
<1>1. b \in DOMAIN rows /\ rows[b].at <= Stamp(now) /\ rows'[b] = rows[b]
  BY Committed DEF First, Measured
<1>2. \A j \in DOMAIN rows' : j \in DOMAIN rows \/ rows'[j].at = Stamp(now)
  BY Committed
<1>3. b \in DOMAIN rows'
  BY <1>1, Committed
<1> QED
  BY <1>1, <1>2, <1>3, Committed DEF First, Midnight

LEMMA MeasuredInvariant == Spec => []Measured
<1>1. Init => Measured
  BY DEF Init, Measured
<1>2. TypeOK /\ Measured /\ [Next]_vars => Measured'
  <2> SUFFICES ASSUME TypeOK, Measured, [Next]_vars PROVE Measured'
    OBVIOUS
  <2>1. CASE \E s \in todo, h \in held : Commits(s, h)
    <3>1. PICK s \in todo, h \in held : Commits(s, h)
      BY <2>1
    <3>2. held' = {} /\ now' = now /\ zone' = zone
      BY <3>1 DEF Commits
    <3>3. \A i \in DOMAIN rows' : rows'[i].at <= Stamp(now)'
      <4>1. Stamp(now)' = Stamp(now) /\ Stamp(now) \in Int
        BY <3>2, StampGrows DEF Stamp
      <4> QED
        BY <3>1, <4>1, Committed DEF Measured
    <3>4. ASSUME NEW i \in DOMAIN rows' PROVE Sound(rows[i].sym, rows[i], i - 1)'
      <4>1. CASE i \in DOMAIN rows
        <5>1. rows'[i] = rows[i] /\ i \in 1 .. Len(rows) /\ Sound(rows[i].sym, rows[i], i - 1)
          BY <3>1, <4>1, Committed DEF Measured
        <5>2. rows[i].base # 0 => First(rows[i].sym, rows[i].day, rows[i].base)'
          BY <3>1, <5>1, StaysSound DEF Sound
        <5>3. \A j \in 1 .. i - 1 : j \in DOMAIN rows /\ rows'[j] = rows[j]
          BY <3>1, <5>1, Committed
        <5> QED
          BY <3>2, <5>1, <5>2, <5>3 DEF Sound, Midnight
      <4>2. CASE i \notin DOMAIN rows
        <5>1. i = Len(rows) + 1 /\ Len(rows) \in Nat
          BY <3>1, <4>2, Committed
        <5>2. Sound(s, h, Len(rows))
          BY <3>1 DEF Measured, Commits
        <5>3. h.base # 0 => First(s, h.day, h.base)'
          BY <3>1, <5>2, StaysSound DEF Sound
        <5>4. \A j \in 1 .. i - 1 : j \in 1 .. Len(rows) /\ rows'[j] = rows[j]
          BY <3>1, <5>1, Committed
        <5>5. rows'[i].sym = s /\ rows'[i].day = h.day /\ rows'[i].base = h.base
          BY <3>1, <5>1, Committed
        <5> QED
          BY <3>2, <5>2, <5>3, <5>4, <5>5 DEF Sound, Midnight
      <4> QED
        BY <4>1, <4>2
    <3> QED
      BY <3>2, <3>3, <3>4 DEF Measured
  <2>2. CASE UNCHANGED <<tables, zone>> /\ now' \in {now, now + 1}
    <3>1. rows' = rows /\ zone' = zone
      BY <2>2 DEF tables
    <3>2. \A i \in DOMAIN rows' : rows'[i].at <= Stamp(now)'
      <4>1. \A i \in DOMAIN rows : rows[i].at \in Int
        <5>1. \A i \in DOMAIN rows : rows[i] \in Row
          BY DEF TypeOK
        <5> QED
          BY <5>1 DEF Row
      <4> QED
        BY <2>2, <3>1, <4>1, StampGrows DEF Measured
    <3>3. \A t, f, n : Sound(t, f, n)' <=> Sound(t, f, n)
      BY <3>1 DEF Sound, First, Midnight
    <3>4. \A i \in DOMAIN rows' : Sound(rows[i].sym, rows[i], i - 1)'
      BY <3>1, <3>3 DEF Measured
    <3>5. CASE held' = {}
      BY <3>2, <3>4, <3>5 DEF Measured
    <3>6. CASE held' = held /\ todo' = todo /\ (pc' # "store" => pc # "store")
      <4>1. \A s \in todo' : Next1st(s)' <=> Next1st(s)
        BY <3>6 DEF Next1st
      <4>2. \A s \in todo', g \in held' : Next1st(s)' => Sound(s, g, Len(rows))'
        BY <3>1, <3>3, <3>6, <4>1 DEF Measured
      <4> QED
        BY <3>2, <3>4, <3>6, <4>2 DEF Measured
    <3>7. ASSUME NEW s \in Symbols, CalcRate(s) PROVE Measured'
      <4>1. PICK b \in FirstIn(Today(s, now)) \cup {0} : held' = {Found(s, now, b)}
        BY <3>7 DEF CalcRate
      <4>2. todo' = todo /\ pc' = "store" /\ Next1st(s)
        BY <3>7 DEF CalcRate
      <4>3. \A t \in todo : Next1st(t) => t = s
        BY <4>2, MarketRowsAssumption DEF Next1st, TypeOK
      <4>4. b # 0 => First(s, DayOf(now), b)
        BY <4>1 DEF FirstIn, Today, First
      <4>5. \A j \in 1 .. Len(rows) : rows[j].at <= Midnight(DayOf(now) + 1) + zone
        <5>1. \A j \in DOMAIN rows : rows[j].at \in Int /\ rows[j].at <= Stamp(now)
          <6>1. \A i \in DOMAIN rows : rows[i] \in Row
            BY DEF TypeOK
          <6> QED
            BY <6>1 DEF Row, Measured
        <5>2. Stamp(now) \in Int /\ Midnight(DayOf(now) + 1) + zone \in Int
          BY MarketRowsAssumption DEF TypeOK, Stamp, Midnight, DayOf
        <5>3. DOMAIN rows = 1 .. Len(rows)
          BY DEF TypeOK
        <5> QED
          BY <5>1, <5>2, <5>3, StampInDay
      <4>6. Sound(s, Found(s, now, b), Len(rows))
        BY <4>4, <4>5 DEF Sound, Found
      <4>7. \A t \in todo', g \in held' : Next1st(t)' => Sound(t, g, Len(rows))'
        <5>1. \A t \in todo' : Next1st(t)' => t = s
          BY <4>2, <4>3 DEF Next1st
        <5> QED
          BY <3>1, <3>3, <4>1, <4>6, <5>1
      <4> QED
        BY <3>2, <3>4, <4>2, <4>7 DEF Measured
    <3>8. CASE RoundStart
      BY <3>5, <3>8 DEF RoundStart, Measured
    <3>9. CASE FetchQuotes \/ Tick \/ UNCHANGED vars
      BY <3>6, <3>9 DEF FetchQuotes, Tick, vars, work
    <3>10. CASE RoundEnd \/ WorkerFails \/ \E s \in Symbols : StoreRow(s)
      BY <3>5, <3>10 DEF RoundEnd, WorkerFails, StoreRow, RowRefused, RoundOver
    <3> QED
      BY <3>7, <3>8, <3>9, <3>10 DEF Next, Worker
  <2> QED
    BY <2>1, <2>2, TableSteps
<1> QED
  BY <1>1, <1>2, TypeCorrect, PTL DEF Spec

\* The changes of one day are measured against rows of one second, in any time
\* zone and across any number of restarts (symbol_market.go:110-128).
THEOREM OneBase == Spec => []OneBasePerDay
<1>1. TypeOK /\ Measured => OneBasePerDay
  <2> SUFFICES ASSUME TypeOK, Measured, NEW i \in DOMAIN rows, NEW j \in DOMAIN rows,
                      rows[i].sym = rows[j].sym, rows[i].day = rows[j].day,
                      rows[i].base # 0, rows[j].base # 0
               PROVE  rows[rows[i].base].at = rows[rows[j].base].at
    BY DEF OneBasePerDay
  <2>1. PICK s, d : s = rows[i].sym /\ d = rows[i].day
    OBVIOUS
  <2>2. First(s, d, rows[i].base) /\ First(s, d, rows[j].base)
    BY <2>1 DEF Measured, Sound
  <2>3. \A b \in DOMAIN rows : rows[b].at \in Int
    <3>1. \A b \in DOMAIN rows : rows[b] \in Row
      BY DEF TypeOK
    <3> QED
      BY <3>1 DEF Row
  <2> QED
    BY <2>2, <2>3 DEF First
<1> QED
  BY <1>1, TypeCorrect, MeasuredInvariant, PTL

\* A second x belongs to the day that begins at or before it.
LEMMA DayBounds ==
  ASSUME NEW x \in Int, NEW d \in Int, x > Midnight(d)
  PROVE  d <= x \div Day /\ x \div Day \in Int
<1>1. Day \in Nat /\ Day > 0
  BY MarketRowsAssumption
<1> DEFINE q == x \div Day
<1>2. q \in Int /\ x < Day * (q + 1)
  BY <1>1
<1> HIDE DEF q
<1>3. d * Day < Day * (q + 1)
  BY <1>1, <1>2 DEF Midnight
<1>4. d < q + 1
  <2> SUFFICES ASSUME q + 1 <= d PROVE FALSE
    BY <1>2
  <2>1. Day * (q + 1) <= d * Day
    BY <1>1, <1>2
  <2> QED
    BY <1>1, <1>2, <1>3, <2>1
<1> QED
  BY <1>2, <1>4 DEF q

LEMMA MidnightGrows ==
  ASSUME NEW d \in Int, NEW e \in Int, d <= e
  PROVE  Midnight(d) <= Midnight(e) /\ Midnight(d) \in Int /\ Midnight(e) \in Int
  BY MarketRowsAssumption DEF Midnight

\* In UTC only a round over midnight measures against an earlier day
\* (market_price_handle.go:208-211).
THEOREM StrayOverMidnight == Spec => []StrayOnlyOverMidnight
<1>1. TypeOK /\ Measured => StrayOnlyOverMidnight
  <2> SUFFICES ASSUME TypeOK, Measured, zone = 0, NEW i \in DOMAIN rows,
                      rows[i].base # 0,
                      rows[rows[i].base].at \div Day < rows[i].at \div Day,
                      NEW j \in 1 .. i - 1, rows[j].sym = rows[i].sym
               PROVE  rows[j].at <= Midnight(rows[i].at \div Day)
    BY DEF StrayOnlyOverMidnight
  <2> DEFINE b == rows[i].base
             d == rows[i].day
             e == rows[i].at \div Day
  <2>1. First(rows[i].sym, d, b) /\ rows[j].at <= Midnight(d + 1) + zone
    BY DEF Measured, Sound
  <2>2. \A m \in DOMAIN rows : rows[m].at \in Int /\ rows[m].day \in Int
    <3>1. \A m \in DOMAIN rows : rows[m] \in Row
      BY DEF TypeOK
    <3> QED
      BY <3>1 DEF Row
  <2>3. b \in DOMAIN rows /\ rows[b].at > Midnight(d) /\ j \in DOMAIN rows
    BY <2>1 DEF First, TypeOK
  <2>4. d <= rows[b].at \div Day /\ rows[b].at \div Day \in Int
    BY <2>2, <2>3, DayBounds
  <2>5. e \in Int
    BY <2>2, MarketRowsAssumption
  <2>6. Midnight(d + 1) <= Midnight(e) /\ Midnight(d + 1) \in Int /\ Midnight(e) \in Int
    <3>1. d \in Int /\ d + 1 <= e
      BY <2>2, <2>4, <2>5
    <3> HIDE DEF d, e
    <3> QED
      BY <2>5, <3>1, MidnightGrows
  <2> QED
    BY <2>1, <2>2, <2>3, <2>6
<1> QED
  BY <1>1, TypeCorrect, MeasuredInvariant, PTL

-----------------------------------------------------------------------------
(* What a round stores, and what the lookups find.                         *)

\* A request to CoinMarketCap costs no symbol its row
\* (market_price_handle.go:199-217).
THEOREM QuotesCostNothing == Spec => []QuotesCostNoRow
<1> DEFINE AllToDo == pc = "quotes" => todo = DOMAIN priced
           Inv == AllToDo /\ QuotesCostNoRow
<1>1. Init => Inv
  BY DEF Init, QuotesCostNoRow
<1>2. TypeOK /\ Inv /\ [Next]_vars => Inv'
  <2> SUFFICES ASSUME TypeOK, Inv, [Next]_vars PROVE Inv'
    OBVIOUS
  <2>1. CASE RoundStart
    BY <2>1 DEF RoundStart, QuotesCostNoRow
  <2>2. CASE FetchQuotes
    BY <2>2 DEF FetchQuotes, QuotesCostNoRow
  <2>3. CASE RoundOver
    BY <2>3 DEF RoundOver, QuotesCostNoRow
  <2>4. CASE Tick \/ UNCHANGED vars \/ \E s \in Symbols : CalcRate(s)
    BY <2>4 DEF Tick, CalcRate, vars, tables, work, QuotesCostNoRow
  <2>5. ASSUME NEW s \in Symbols, StoreRow(s) PROVE Inv'
    <3>1. CASE RowRefused
      BY <2>3, <3>1 DEF RowRefused
    <3>2. CASE ~RowRefused
      <4>1. s \in todo /\ pc = "store"
        BY <2>5 DEF StoreRow, Next1st
      <4>2. PICK h \in held : Commits(s, h)
        BY <2>5, <3>2 DEF StoreRow, Commits
      <4>3. pc' = pc /\ priced' = priced /\ from' = from /\ todo' = todo \ {s}
        BY <2>5, <3>2 DEF StoreRow
      <4>4. \E i \in DOMAIN rows' : i > from /\ rows'[i].sym = s
        <5>1. Len(rows) + 1 > from /\ Len(rows) + 1 \in DOMAIN rows'
          BY <4>1, <4>2, Committed DEF TypeOK
        <5> QED
          BY <4>1, <4>2, <5>1, Committed
      <4>5. \A t \in DOMAIN priced \ todo : \E i \in DOMAIN rows' : i > from /\ rows'[i].sym = t
        <5>1. \A i \in DOMAIN rows : i \in DOMAIN rows' /\ rows'[i] = rows[i]
          BY <4>1, <4>2, Committed
        <5> QED
          BY <4>1, <5>1 DEF QuotesCostNoRow
      <4> QED
        BY <4>1, <4>3, <4>4, <4>5 DEF QuotesCostNoRow
    <3> QED
      BY <3>1, <3>2
  <2> QED
    BY <2>1, <2>2, <2>3, <2>4, <2>5 DEF Next, Worker, RoundEnd, WorkerFails
<1>3. Spec => []Inv
  BY <1>1, <1>2, TypeCorrect, PTL DEF Spec
<1> QED
  BY <1>3, PTL

\* A fiat price was made from a row of its symbol, and for every currency of a
\* row there is one that was made from that row or a later one.
FiatFollows ==
    /\ \A s \in Symbols, c \in Currencies :
          LET f == fiat[s][c] IN f # 0 => f \in DOMAIN rows /\ rows[f].sym = s
    /\ \A i \in DOMAIN rows : \A c \in rows[i].curr :
          LET f == fiat[rows[i].sym][c] IN f # 0 /\ rows[f].at >= rows[i].at

LEMMA FiatInvariant == Spec => []FiatFollows
<1>1. Init => FiatFollows
  BY DEF Init, FiatFollows
<1>2. TypeOK /\ Measured /\ FiatFollows /\ [Next]_vars => FiatFollows'
  <2> SUFFICES ASSUME TypeOK, Measured, FiatFollows, [Next]_vars PROVE FiatFollows'
    OBVIOUS
  <2>1. CASE UNCHANGED <<tables, zone>>
    BY <2>1 DEF tables, FiatFollows
  <2>2. CASE \E s \in todo, h \in held : Commits(s, h)
    <3>1. PICK s \in todo, h \in held : Commits(s, h)
      BY <2>2
    <3> DEFINE n == Len(rows) + 1
               row == NewRow(s, h)
    <3>2. s \in Symbols /\ row.curr \subseteq Currencies /\ row.sym = s /\ row.at = Stamp(now)
      BY <3>1, NewRowFits, Committed DEF TypeOK, Row
    <3>3. \A t \in Symbols, c \in Currencies :
            fiat'[t][c] = IF t = s /\ c \in row.curr THEN n ELSE fiat[t][c]
      BY <3>1, <3>2 DEF Commits, CommitRow, TypeOK
    <3>4. /\ n \in DOMAIN rows' /\ rows'[n] = row /\ n # 0 /\ n \notin DOMAIN rows
          /\ DOMAIN rows' = DOMAIN rows \cup {n}
          /\ \A i \in DOMAIN rows : rows'[i] = rows[i] /\ rows[i] \in Row
      <4>1. /\ Len(rows) \in Nat /\ DOMAIN rows = 1 .. Len(rows) /\ DOMAIN rows' = 1 .. n
            /\ rows'[n] = row /\ \A i \in DOMAIN rows : rows'[i] = rows[i] /\ rows[i] \in Row
        BY <3>1, Committed
      <4>2. n = Len(rows) + 1
        OBVIOUS
      <4> HIDE DEF n, row
      <4>3. DOMAIN rows' = DOMAIN rows \cup {n}
        BY <4>1, <4>2
      <4> QED
        BY <4>1, <4>2, <4>3
    <3>5. /\ \A i \in DOMAIN rows : rows[i].at \in Int /\ rows[i].at <= Stamp(now)
          /\ \A i \in DOMAIN rows : rows[i].sym \in Symbols /\ rows[i].curr \subseteq Currencies
      BY <3>4 DEF Measured, Row
    <3>6. Stamp(now) \in Int
      BY MarketRowsAssumption DEF TypeOK, Stamp
    <3> HIDE DEF n, row
    <3>7. ASSUME NEW t \in Symbols, NEW c \in Currencies, fiat'[t][c] # 0
          PROVE  fiat'[t][c] \in DOMAIN rows' /\ rows'[fiat'[t][c]].sym = t
      <4>1. CASE t = s /\ c \in row.curr
        BY <3>2, <3>3, <3>4, <4>1
      <4>2. CASE ~(t = s /\ c \in row.curr)
        BY <3>3, <3>4, <3>7, <4>2 DEF FiatFollows
      <4> QED
        BY <4>1, <4>2
    <3>8. ASSUME NEW i \in DOMAIN rows', NEW c \in rows'[i].curr
          PROVE  LET f == fiat'[rows'[i].sym][c] IN f # 0 /\ rows'[f].at >= rows'[i].at
      <4>1. CASE i = n
        BY <3>2, <3>3, <3>4, <3>6, <3>8, <4>1
      <4>2. CASE i \in DOMAIN rows /\ rows[i].sym = s /\ c \in row.curr
        BY <3>2, <3>3, <3>4, <3>5, <3>6, <3>8, <4>2
      <4>3. CASE i \in DOMAIN rows /\ ~(rows[i].sym = s /\ c \in row.curr)
        <5>1. rows'[i] = rows[i] /\ c \in rows[i].curr /\ c \in Currencies /\ rows[i].sym \in Symbols
          BY <3>4, <3>5, <3>8, <4>3
        <5>2. fiat'[rows[i].sym][c] = fiat[rows[i].sym][c]
          BY <3>3, <4>3, <5>1
        <5>3. LET f == fiat[rows[i].sym][c] IN
                f # 0 /\ rows[f].at >= rows[i].at /\ f \in DOMAIN rows
          BY <4>3, <5>1 DEF FiatFollows
        <5> QED
          BY <3>4, <5>1, <5>2, <5>3
      <4> QED
        BY <3>4, <4>1, <4>2, <4>3
    <3> QED
      BY <3>7, <3>8 DEF FiatFollows
  <2> QED
    BY <2>1, <2>2, TableSteps
<1> QED
  BY <1>1, <1>2, TypeCorrect, MeasuredInvariant, PTL DEF Spec


\* The answers to the lookups never go back in time or get lost, whatever
\* rounds, failures and restarts lie between them (symbol_market.go:92-108,
\* symbol_market_currency.go:97-116, market_price_handle.go:239-252).
THEOREM LookupsForward == Spec => LookupsNeverGoBack
<1> DEFINE Forward(s) ==
      LET NotOlder(j, i) == i # 0 => j # 0 /\ rows'[j].at >= rows[i].at
      IN  /\ \A j \in GetSymbolMarket(s)' :
                /\ \A i \in GetSymbolMarket(s) : NotOlder(j, i)
                /\ \A k \in Currencies : NotOlder(j, GetSymbolMarketCurrency(s, k))
          /\ \A k \in Currencies, i \in GetSymbolMarket(s) \ {0} :
                k \in rows[i].curr => NotOlder(GetSymbolMarketCurrency(s, k)', i)
<1>1. ASSUME TypeOK, TypeOK', FiatFollows, FiatFollows', [Next]_vars, NEW s \in Symbols
      PROVE  Forward(s)
  <2>1. \A i \in DOMAIN rows : i \in DOMAIN rows' /\ rows'[i] = rows[i]
    <3>1. CASE UNCHANGED <<tables, zone>>
      BY <3>1 DEF tables
    <3>2. CASE \E t \in todo, h \in held : Commits(t, h)
      <4>1. PICK t \in todo, h \in held : Commits(t, h)
        BY <3>2
      <4> QED
        BY <1>1, <4>1, Committed
    <3> QED
      BY <1>1, <3>1, <3>2, TableSteps
  <2>2. ASSUME NEW j \in GetSymbolMarket(s)', NEW i \in DOMAIN rows, rows[i].sym = s
        PROVE  j # 0 /\ rows'[j].at >= rows[i].at
    <3>1. i \in RowsOf(s)'
      BY <2>1, <2>2 DEF RowsOf
    <3>2. j \in LastIn(RowsOf(s))'
      BY <2>2, <3>1 DEF GetSymbolMarket
    <3>3. j \in DOMAIN rows' /\ rows'[i].at <= rows'[j].at
      BY <3>1, <3>2 DEF LastIn, RowsOf
    <3>4. rows'[i].at \in Int /\ rows'[j].at \in Int
      <4>1. rows'[i] \in Row /\ rows'[j] \in Row
        BY <1>1, <2>1, <2>2, <3>3 DEF TypeOK
      <4> QED
        BY <4>1 DEF Row
    <3> QED
      BY <1>1, <2>1, <2>2, <3>3, <3>4 DEF TypeOK
  <2>3. ASSUME NEW i \in GetSymbolMarket(s), i # 0 PROVE i \in DOMAIN rows /\ rows[i].sym = s
    BY <2>3 DEF GetSymbolMarket, LastIn, RowsOf
  <2>4. ASSUME NEW k \in Currencies, fiat[s][k] # 0
        PROVE  fiat[s][k] \in DOMAIN rows /\ rows[fiat[s][k]].sym = s
    BY <1>1, <2>4 DEF FiatFollows
  <2>5. ASSUME NEW i \in GetSymbolMarket(s), i # 0, NEW k \in rows[i].curr
        PROVE  fiat'[s][k] # 0 /\ rows'[fiat'[s][k]].at >= rows[i].at
    <3>1. i \in DOMAIN rows' /\ rows'[i] = rows[i] /\ rows[i].sym = s
      BY <2>1, <2>3, <2>5
    <3> QED
      BY <1>1, <2>5, <3>1 DEF FiatFollows
  <2> QED
    BY <2>2, <2>3, <2>4, <2>5 DEF GetSymbolMarketCurrency
<1>2. TypeOK /\ TypeOK' /\ FiatFollows /\ FiatFollows' /\ [Next]_vars =>
        [\A s \in Symbols : Forward(s)]_vars
  BY <1>1
<1>3. Spec => [][\A s \in Symbols : Forward(s)]_vars
  <2> HIDE DEF Forward
  <2> QED
    BY <1>2, TypeCorrect, FiatInvariant, PTL DEF Spec
<1> QED
  BY <1>3 DEF LookupsNeverGoBack
==============================================================================
