------------------------ MODULE KlinePipelineProofs ------------------------
(***************************************************************************)
(* Proofs about KlinePipeline, for any pairs, symbols and bounds.          *)
(***************************************************************************)
EXTENDS KlinePipeline, TLAPS

USE KlineAssumption

(***************************************************************************)
(* Type correctness.                                                       *)
(***************************************************************************)
LEMMA InitTypes == Init => TypeOK
  BY DEF Init, TypeOK, NoRows, Quality, Minutes

LEMMA TypeStep == TypeOK /\ [Next]_vars => TypeOK'
<1> SUFFICES ASSUME TypeOK, [Next]_vars
             PROVE  TypeOK'
  OBVIOUS
<1> USE DEF Quality
<1>0. 0 \in Minutes
  BY DEF Minutes
<1>1. UpsertRows => /\ exch' \in [Pairs -> [Minutes -> Quality]]
                    /\ late' \in SUBSET (Pairs \X Minutes)
  <2>1. UpsertRows => exch' \in [Pairs -> [Minutes -> Quality]]
    BY DEF UpsertRows, TypeOK
  <2>2. UpsertRows => late' \in SUBSET (Pairs \X Minutes)
    BY DEF UpsertRows, TypeOK
  <2> QED
    BY <2>1, <2>2
<1>2. UpsertBoard => board' \in [Pairs -> [Minutes -> Quality]]
  BY DEF UpsertBoard, TypeOK
<1>3. NoRows \in [Pairs -> [Minutes -> Quality]]
  BY DEF NoRows
<1>4. CASE CrawlStart
  BY <1>4 DEF CrawlStart, aggVars, TypeOK
<1>5. CASE CrawlStore
  BY <1>0, <1>1, <1>5 DEF CrawlStore, aggVars, TypeOK
<1>6. CASE CrawlAbort
  BY <1>0, <1>1, <1>6 DEF CrawlAbort, aggVars, TypeOK
<1>7. CASE CrawlRestart
  BY <1>7 DEF CrawlRestart, aggVars, TypeOK
<1>8. ASSUME NEW p \in Pairs, CrawlFetch(p)
      PROVE  TypeOK'
  <2>1. \A n \in Minutes : Kept(p, n) \subseteq Candle
    BY DEF Kept, TwoCandles, Answer, Seen, Candle, TypeOK
  <2>2. QED
    BY <1>8, <2>1 DEF CrawlFetch, aggVars, TypeOK
<1>9. ASSUME NEW p \in Pairs, CrawlSkip(p)
      PROVE  TypeOK'
  BY <1>9 DEF CrawlSkip, aggVars, TypeOK
<1>10. CASE AggStart
  BY <1>10 DEF AggStart, crawlVars, TypeOK
<1>11. CASE AggQuery
  BY <1>11 DEF AggQuery, crawlVars, TypeOK
<1>12. CASE AggStore
  BY <1>0, <1>2, <1>3, <1>12 DEF AggStore, crawlVars, TypeOK
<1>13. CASE AggAbort
  BY <1>0, <1>2, <1>3, <1>13 DEF AggAbort, crawlVars, TypeOK
<1>14. CASE AggRestart
  BY <1>14 DEF AggRestart, crawlVars, TypeOK
<1>15. CASE Tick
  BY <1>15 DEF Tick, Minutes, crawlVars, aggVars, TypeOK
<1>16. ASSUME NEW p \in Pairs, Trade(p)
       PROVE  TypeOK'
  <2>1. opened' \in [Pairs -> SUBSET Minutes]
    BY <1>16 DEF Trade, TypeOK
  <2>2. QED
    BY <1>16, <2>1 DEF Trade, crawlVars, aggVars, TypeOK
<1>17. CASE UNCHANGED vars
  BY <1>17 DEF vars, crawlVars, aggVars, TypeOK
<1>18. QED
  BY <1>4, <1>5, <1>6, <1>7, <1>8, <1>9, <1>10, <1>11, <1>12, <1>13, <1>14,
     <1>15, <1>16, <1>17 DEF Next, Crawl, Aggregation

\* The state is always well typed, and a loop between rounds holds no candle.
THEOREM TypeCorrect == Spec => []TypeOK
  BY InitTypes, TypeStep, PTL DEF Spec

-----------------------------------------------------------------------------
(***************************************************************************)
(* The crawler's side: which candles a round can hold.                     *)
(***************************************************************************)

\* A candle in hand was opened before the round, and at most one newer candle
\* of its pair had closed by then; with exact clocks it is final.
RowsInv ==
    /\ cut <= now
    /\ \A r \in rows :
         /\ r.minute < cut
         /\ \A a, b \in opened[r.pair] : r.minute < a /\ a < b => cut <= b + Skew
         /\ Skew = 0 => r.quality = "final"

\* What buildExchangeSymbolKlines keeps of an answer.
LEMMA KeptFacts ==
  ASSUME TypeOK, RowsInv, NEW p \in Pairs, NEW n \in Minutes, now <= n + Skew,
         NEW r \in Kept(p, n)
  PROVE  /\ r.pair = p /\ r.minute \in Minutes /\ r.minute < cut
         /\ \A a, b \in opened[p] : r.minute < a /\ a < b => cut <= b + Skew
         /\ Skew = 0 => r.quality = "final"
<1>1. now \in Nat /\ cut \in Nat /\ Minutes \subseteq Nat /\ opened[p] \subseteq Minutes
  BY DEF TypeOK, Minutes
<1>2. PICK k \in Seen(p, n) :
         /\ \A a, b \in Seen(p, n) : k < a => ~ a < b
         /\ r = [pair |-> p, minute |-> k,
                 quality |-> IF k < n THEN "final" ELSE "forming"]
  BY DEF Kept, TwoCandles, Answer
<1>3. /\ r.pair = p /\ r.minute = k /\ k < cut /\ k \in opened[p] /\ k <= n
      /\ r.quality = IF k < n THEN "final" ELSE "forming"
  BY <1>2 DEF Kept, Seen
<1>4. ASSUME NEW a \in opened[p], NEW b \in opened[p], k < a, a < b
      PROVE  cut <= b + Skew
  <2>1. ~ (a <= n /\ b <= n)
    BY <1>2, <1>4 DEF Seen
  <2>2. a \in Nat /\ b \in Nat /\ n \in Nat
    BY <1>1
  <2>3. n < b
    BY <1>4, <2>1, <2>2
  <2> QED
    BY <1>1, <2>2, <2>3 DEF RowsInv
<1>5. Skew = 0 => k < n
  BY <1>1, <1>3 DEF RowsInv
<1> QED
  BY <1>1, <1>3, <1>4, <1>5

LEMMA RowsStep == TypeOK /\ RowsInv /\ [Next]_vars => RowsInv'
<1> SUFFICES ASSUME TypeOK, RowsInv, [Next]_vars
             PROVE  RowsInv'
  OBVIOUS
<1>1. now \in Nat /\ cut \in Nat /\ \A r \in rows : r.minute \in Nat /\ r.pair \in Pairs
  BY DEF TypeOK, Minutes, Candle
<1>2. CASE CrawlStart
  BY <1>1, <1>2 DEF CrawlStart, RowsInv, TypeOK
<1>3. ASSUME NEW p \in Pairs, CrawlFetch(p)
      PROVE  RowsInv'
  <2>1. PICK n \in Minutes : n <= now /\ now <= n + Skew /\ rows' = rows \cup Kept(p, n)
    BY <1>3 DEF CrawlFetch
  <2>2. cut' = cut /\ now' = now /\ opened' = opened
    BY <1>3 DEF CrawlFetch
  <2>3. QED
    BY <2>1, <2>2, KeptFacts DEF RowsInv
<1>4. ASSUME UNCHANGED <<now, cut, opened>>, rows' \subseteq rows
      PROVE  RowsInv'
  BY <1>4 DEF RowsInv
<1>5. CASE Tick
  BY <1>1, <1>5 DEF Tick, crawlVars, RowsInv
<1>6. CASE CrawlStore \/ CrawlAbort
  BY <1>1, <1>6 DEF CrawlStore, CrawlAbort, RowsInv
\* A candle that opens now is not one that closed before the round.
<1>7. ASSUME NEW p \in Pairs, Trade(p)
      PROVE  RowsInv'
  <2>1. PICK n \in Minutes : now <= n + Skew /\ opened' = [opened EXCEPT ![p] = @ \cup {n}]
    BY <1>7 DEF Trade
  <2>2. /\ UNCHANGED <<now, cut, rows>> /\ n \in Nat
        /\ \A q \in Pairs : opened[q] \subseteq Nat /\ opened'[q] \subseteq opened[q] \cup {n}
        /\ \A q \in Pairs, m \in Nat : m < n => (m \in opened'[q] <=> m \in opened[q])
    BY <1>7, <2>1 DEF Trade, crawlVars, TypeOK, Minutes
  <2>3. ASSUME NEW r \in rows, NEW a \in opened'[r.pair], NEW b \in opened'[r.pair],
               r.minute < a, a < b
        PROVE  cut <= b + Skew
    <3>1. a \in Nat /\ b \in Nat
      BY <1>1, <2>2
    <3>2. CASE b >= n
      BY <1>1, <2>1, <2>2, <3>1, <3>2 DEF RowsInv
    <3>3. CASE b < n
      <4>1. a \in opened[r.pair] /\ b \in opened[r.pair]
        BY <1>1, <2>2, <2>3, <3>1, <3>3
      <4> QED
        BY <2>3, <4>1 DEF RowsInv
    <3> QED
      BY <2>2, <3>1, <3>2, <3>3
  <2> QED
    BY <2>2, <2>3 DEF RowsInv
<1>8. QED
  BY <1>2, <1>3, <1>4, <1>5, <1>6, <1>7 DEF Next, Crawl, Aggregation,
     CrawlRestart, CrawlSkip, AggStart, AggQuery, AggStore, AggAbort, AggRestart,
     crawlVars, vars

LEMMA InitRows == Init => RowsInv
  BY DEF Init, RowsInv

\* The table exch changes by the upsert of a round only.
LEMMA ExchSteps == [Next]_vars => UNCHANGED <<exch, late>> \/ UpsertRows
  BY DEF Next, Crawl, Aggregation, CrawlStart, CrawlStore, CrawlAbort, CrawlRestart,
     CrawlFetch, CrawlSkip, AggStart, AggQuery, AggStore, AggAbort, AggRestart, Tick, Trade,
     crawlVars, vars

\* A new row of exch comes from a candle in hand.
LEMMA UpsertFacts ==
  ASSUME TypeOK, UpsertRows, NEW p \in Pairs, NEW k \in Minutes
  PROVE  /\ exch[p][k] # "none" => exch'[p][k] # "none"
         /\ exch[p][k] = "none" /\ exch'[p][k] # "none" =>
              \E r \in rows : r.pair = p /\ r.minute = k
         /\ exch'[p][k] = "forming" =>
              exch[p][k] = "forming" \/ \E r \in rows : r.quality = "forming"
<1>1. exch'[p][k] = IF Holds(p, k, "final") THEN "final"
                    ELSE IF Holds(p, k, "forming") THEN "forming" ELSE exch[p][k]
  BY DEF UpsertRows
<1>2. \A q : Holds(p, k, q) => \E r \in rows : r.pair = p /\ r.minute = k /\ r.quality = q
  BY DEF Holds
<1>3. QED
  BY <1>1, <1>2

\* A candle that was missed is not made up for once two newer ones have closed,
\* whatever the clocks of the exchanges show.
THEOREM Missed == Spec => MissedForGood
<1>1. TypeOK /\ RowsInv /\ [Next]_vars =>
        [\A p \in Pairs, k \in Minutes :
            exch[p][k] = "none" /\ exch'[p][k] # "none" =>
              \A a, b \in opened[p] : k < a /\ a < b => cut <= b + Skew]_vars
  <2> SUFFICES ASSUME TypeOK, RowsInv, [Next]_vars,
                      NEW p \in Pairs, NEW k \in Minutes,
                      exch[p][k] = "none", exch'[p][k] # "none"
               PROVE  \A a, b \in opened[p] : k < a /\ a < b => cut <= b + Skew
    OBVIOUS
  <2>1. UpsertRows
    BY ExchSteps
  <2>2. PICK r \in rows : r.pair = p /\ r.minute = k
    BY <2>1, UpsertFacts
  <2>3. QED
    BY <2>2 DEF RowsInv
<1>2. QED
  BY <1>1, InitRows, RowsStep, TypeCorrect, PTL DEF Spec, MissedForGood

-----------------------------------------------------------------------------
(***************************************************************************)
(* The aggregator's side.                                                  *)
(***************************************************************************)

\* The snapshot of a round covers its window, and nothing else; whoever is in
\* the aggregate already is still in the table.
BoardInv ==
    /\ \A p \in Pairs, k \in Minutes :
         /\ snap[p][k] # "none" => exch[p][k] # "none"
         /\ board[p][k] # "none" => exch[p][k] # "none"
    /\ apc = "store" => \A p \in Pairs, k \in Minutes :
         /\ InWindow(k) /\ board[p][k] # "none" => snap[p][k] # "none"
         /\ snap[p][k] # "none" => InWindow(k)

ClockInv == acut <= now /\ done <= now

LEMMA BoardSteps ==
  [Next]_vars => UNCHANGED board \/ (apc = "store" /\ UpsertBoard)
  BY DEF Next, Crawl, Aggregation, CrawlStart, CrawlStore, CrawlAbort, CrawlRestart,
     CrawlFetch, CrawlSkip, AggStart, AggQuery, AggStore, AggAbort, AggRestart, Tick, Trade,
     aggVars, vars

\* An aggregation keeps who is in and adds only rows of its snapshot.
LEMMA BoardFacts ==
  ASSUME TypeOK, BoardInv, apc = "store", UpsertBoard, NEW p \in Pairs, NEW k \in Minutes
  PROVE  /\ board[p][k] # "none" => board'[p][k] # "none"
         /\ board'[p][k] # "none" => exch[p][k] # "none"
         /\ snap[p][k] # "none" /\ k < acut => board'[p][k] # "none"
<1>1. board'[p][k] = IF Bucket(SymbolOf[p], k) THEN snap[p][k] ELSE board[p][k]
  BY DEF UpsertBoard
<1>2. Bucket(SymbolOf[p], k) => InWindow(k)
  BY DEF Bucket, BoardInv
<1>3. snap[p][k] # "none" /\ k < acut => Bucket(SymbolOf[p], k)
  BY DEF Bucket
<1>4. QED
  BY <1>1, <1>2, <1>3 DEF BoardInv

LEMMA BoardStep ==
  TypeOK /\ BoardInv /\ ClockInv /\ [Next]_vars => BoardInv' /\ ClockInv'
<1> SUFFICES ASSUME TypeOK, BoardInv, ClockInv, [Next]_vars
             PROVE  BoardInv' /\ ClockInv'
  OBVIOUS
<1>1. now \in Nat /\ acut \in Nat /\ done \in Nat
  BY DEF TypeOK, Minutes
<1>2. \A p \in Pairs, k \in Minutes : exch[p][k] # "none" => exch'[p][k] # "none"
  BY ExchSteps, UpsertFacts
<1>3. ASSUME UNCHANGED aggVars, now <= now', now' \in Nat
      PROVE  BoardInv' /\ ClockInv'
  BY <1>1, <1>2, <1>3 DEF aggVars, BoardInv, ClockInv, InWindow
<1>4. CASE Crawl \/ (\E p \in Pairs : Trade(p)) \/ UNCHANGED vars
  BY <1>1, <1>3, <1>4 DEF Crawl, CrawlStart, CrawlStore, CrawlAbort, CrawlRestart,
     CrawlFetch, CrawlSkip, Trade, vars
<1>5. CASE Tick
  BY <1>1, <1>3, <1>5 DEF Tick
<1>6. CASE AggStart
  BY <1>1, <1>2, <1>6 DEF AggStart, BoardInv, ClockInv
<1>7. CASE AggQuery
  <2>1. \A p \in Pairs, k \in Minutes :
           snap'[p][k] = IF InWindow(k) THEN exch[p][k] ELSE "none"
    BY <1>7 DEF AggQuery
  <2>2. UNCHANGED <<now, exch, acut, board, done>>
    BY <1>7 DEF AggQuery, crawlVars
  <2>3. QED
    BY <2>1, <2>2 DEF BoardInv, ClockInv, InWindow
<1>8. CASE AggStore \/ AggAbort
  <2>1. /\ UNCHANGED <<now, exch>> /\ acut' = 0 /\ snap' = NoRows /\ apc' # "store"
        /\ done' \in {done, acut}
    BY <1>8 DEF AggStore, AggAbort, crawlVars
  <2>2. \A p \in Pairs, k \in Minutes : board'[p][k] # "none" => exch[p][k] # "none"
    BY BoardSteps, BoardFacts DEF BoardInv
  <2>3. QED
    BY <1>1, <2>1, <2>2 DEF BoardInv, ClockInv, NoRows
<1>9. CASE AggRestart
  BY <1>1, <1>2, <1>9 DEF AggRestart, BoardInv, ClockInv, crawlVars
<1>10. QED
  BY <1>4, <1>5, <1>6, <1>7, <1>8, <1>9 DEF Next, Aggregation

LEMMA InitBoard == Init => BoardInv /\ ClockInv
  BY DEF Init, BoardInv, ClockInv, NoRows

\* No aggregation drops an exchange that an earlier one has counted.
THEOREM ContributorsKept == Spec => ContributorsStay
<1>1. TypeOK /\ BoardInv /\ ClockInv /\ [Next]_vars =>
        [\A p \in Pairs, k \in Minutes :
            board[p][k] # "none" => board'[p][k] # "none"]_vars
  BY BoardSteps, BoardFacts
<1>2. QED
  BY <1>1, InitBoard, BoardStep, TypeCorrect, PTL DEF Spec, ContributorsStay

(***************************************************************************)
(* Final candles only.                                                     *)
(***************************************************************************)
FinalInv ==
    \A p \in Pairs, k \in Minutes :
        exch[p][k] # "forming" /\ board[p][k] # "forming" /\ snap[p][k] # "forming"

\* With exact clocks nothing is stored or aggregated before it is final.
THEOREM FinalOnly == ASSUME Skew = 0 PROVE Spec => []OnlyFinalCandles
<1>1. Init => FinalInv
  BY DEF Init, FinalInv, NoRows
<1>2. TypeOK /\ RowsInv /\ FinalInv /\ [Next]_vars => FinalInv'
  <2> SUFFICES ASSUME TypeOK, RowsInv, FinalInv, [Next]_vars,
                      NEW p \in Pairs, NEW k \in Minutes
               PROVE  /\ exch'[p][k] # "forming" /\ board'[p][k] # "forming"
                      /\ snap'[p][k] # "forming"
    BY DEF FinalInv
  <2>1. exch'[p][k] # "forming"
    BY ExchSteps, UpsertFacts DEF FinalInv, RowsInv
  <2>2. board'[p][k] # "forming"
    BY BoardSteps DEF FinalInv, UpsertBoard
  <2>3. snap'[p][k] # "forming"
    <3>1. \/ UNCHANGED snap
          \/ snap' = NoRows
          \/ AggQuery
      BY DEF Next, Crawl, Aggregation, CrawlStart, CrawlStore, CrawlAbort,
         CrawlRestart, CrawlFetch, CrawlSkip, AggStart, AggStore, AggAbort,
         AggRestart, Tick, Trade, aggVars, vars
    <3>2. QED
      BY <3>1 DEF FinalInv, NoRows, AggQuery
  <2>4. QED
    BY <2>1, <2>2, <2>3
<1>3. FinalInv => OnlyFinalCandles
  BY DEF FinalInv, OnlyFinalCandles
<1>4. QED
  BY <1>1, <1>2, <1>3, InitRows, RowsStep, TypeCorrect, PTL DEF Spec

-----------------------------------------------------------------------------
(***************************************************************************)
(* Prompt runs.                                                            *)
(***************************************************************************)

\* The steps of a run that is still prompt after them.
PunctualNext == Crawl \/ Aggregation \/ (OnTime /\ Tick) \/ \E p \in Pairs : Trade(p)

\* A candle stored in time and not aggregated yet is still in the window; in
\* the last minute of the window the round that will aggregate it is to come.
PendingInv ==
    \A p \in Pairs, k \in Minutes :
      exch[p][k] # "none" /\ <<p, k>> \notin late /\ board[p][k] = "none" =>
        \/ now < k + Lookback
        \/ /\ now = k + Lookback /\ done < now
           /\ apc = "store" /\ acut = now => snap[p][k] # "none"

LEMMA PunctualStep ==
  /\ [PunctualNext]_vars => [Next]_vars
  /\ [Next]_vars /\ prompt' => prompt /\ [PunctualNext]_vars
<1>1. [Next]_vars /\ prompt' => prompt /\ [PunctualNext]_vars
  BY DEF PunctualNext, Next, Tick, vars, Crawl, CrawlStart, CrawlStore, CrawlAbort,
     CrawlRestart, CrawlFetch, CrawlSkip, Aggregation, AggStart, AggQuery,
     AggStore, AggAbort, AggRestart, Trade
<1>2. QED
  BY <1>1 DEF PunctualNext, Next

LEMMA PendingStep ==
  TypeOK /\ RowsInv /\ BoardInv /\ ClockInv /\ PendingInv /\ [PunctualNext]_vars
    => PendingInv'
<1> SUFFICES ASSUME TypeOK, RowsInv, BoardInv, ClockInv, PendingInv, [PunctualNext]_vars
             PROVE  PendingInv'
  OBVIOUS
<1>1. [Next]_vars
  BY PunctualStep
<1>2. now \in Nat /\ acut \in Nat /\ done \in Nat /\ Minutes \subseteq Nat
  BY DEF TypeOK, Minutes
<1>3. ASSUME NEW p \in Pairs, NEW k \in Minutes,
             exch'[p][k] # "none", <<p, k>> \notin late', board'[p][k] = "none"
      PROVE  \/ now' < k + Lookback
             \/ /\ now' = k + Lookback /\ done' < now'
                /\ apc' = "store" /\ acut' = now' => snap'[p][k] # "none"
  <2>1. k \in Nat
    BY <1>2
  <2>2. board[p][k] = "none"
    BY <1>1, <1>3, BoardSteps, BoardFacts
  \* A candle stored by this step is fresh enough.
  <2>3. CASE exch[p][k] = "none"
    <3>1. UpsertRows /\ now' = now
      BY <1>3, <2>3 DEF PunctualNext, Crawl, Aggregation, CrawlStart, CrawlStore,
         CrawlAbort, CrawlRestart, CrawlFetch, CrawlSkip, AggStart, AggQuery,
         AggStore, AggAbort, AggRestart, Tick, Trade, crawlVars, vars
    <3>2. ~ now >= k + Lookback
      <4> DEFINE x == <<p, k>>
      <4>1. x \in Pairs \X Minutes /\ x[1] = p /\ x[2] = k
        OBVIOUS
      <4> HIDE DEF x
      <4>2. exch[x[1]][x[2]] = "none" /\ exch'[x[1]][x[2]] # "none"
        BY <1>3, <2>3, <4>1
      <4>3. now >= x[2] + Lookback => x \in late'
        BY <3>1, <4>1, <4>2 DEF UpsertRows
      <4>4. x \notin late'
        BY <1>3 DEF x
      <4> QED
        BY <4>1, <4>3, <4>4
    <3>3. QED
      BY <1>2, <2>1, <3>1, <3>2
  <2>4. CASE exch[p][k] # "none"
    <3>1. \/ now < k + Lookback
          \/ /\ now = k + Lookback /\ done < now
             /\ apc = "store" /\ acut = now => snap[p][k] # "none"
      <4>1. <<p, k>> \notin late
        BY <1>1, <1>3, ExchSteps DEF UpsertRows
      <4> QED
        BY <2>2, <2>4, <4>1 DEF PendingInv
    <3>2. CASE UNCHANGED <<now, aggVars>>
      BY <3>1, <3>2 DEF aggVars
    <3>3. CASE OnTime /\ Tick
      BY <1>2, <2>1, <3>1, <3>3 DEF OnTime, Tick, aggVars, ClockInv
    <3>4. CASE Aggregation
      <4>1. UNCHANGED now
        BY <3>4 DEF Aggregation, AggStart, AggQuery, AggStore, AggAbort, AggRestart
      <4>2. CASE AggStart \/ AggAbort \/ AggRestart
        BY <3>1, <4>2 DEF AggStart, AggAbort, AggRestart
      <4>3. CASE AggQuery
        <5>1. done' = done /\ acut' = acut
          BY <4>3 DEF AggQuery
        <5>2. acut = k + Lookback => snap'[p][k] # "none"
          <6>1. snap'[p][k] = IF InWindow(k) THEN exch[p][k] ELSE "none"
            BY <4>3 DEF AggQuery
          <6>2. QED
            BY <1>2, <2>1, <2>4, <6>1 DEF InWindow
        <5>3. QED
          BY <3>1, <4>1, <5>1, <5>2
      <4>4. CASE AggStore
        <5>1. done' = acut /\ apc' = "idle" /\ apc = "store" /\ UpsertBoard
          BY <4>4 DEF AggStore
        <5>2. CASE now = k + Lookback /\ acut = now
          <6>1. snap[p][k] # "none" /\ k < acut
            BY <1>2, <2>1, <3>1, <5>1, <5>2
          <6>2. board'[p][k] # "none"
            BY <5>1, <6>1, BoardFacts
          <6>3. QED
            BY <1>3, <6>2
        <5>3. CASE now < k + Lookback \/ acut < now
          BY <1>2, <2>1, <3>1, <4>1, <5>1, <5>3
        <5>4. QED
          BY <1>2, <3>1, <5>2, <5>3 DEF ClockInv
      <4>5. QED
        BY <3>4, <4>2, <4>3, <4>4 DEF Aggregation
    <3>5. QED
      BY <3>2, <3>3, <3>4 DEF PunctualNext, Crawl, CrawlStart, CrawlStore,
         CrawlAbort, CrawlRestart, CrawlFetch, CrawlSkip, Trade, vars
  <2>5. QED
    BY <2>3, <2>4
<1>4. QED
  BY <1>3 DEF PendingInv

\* While the aggregator keeps to its minute, every candle stored before the last
\* minute of its window is aggregated by the end of it, for any lookback
\* (symbol_kline_handle.go:16-19, 88-107).
THEOREM LookbackEnough == Spec => []LookbackSuffices
<1> DEFINE Pending == prompt => PendingInv
<1>1. Init => Pending
  BY DEF Init, PendingInv, NoRows
<1>2. TypeOK /\ RowsInv /\ BoardInv /\ ClockInv /\ Pending /\ [Next]_vars => Pending'
  BY PunctualStep, PendingStep
<1>3. TypeOK /\ Pending => LookbackSuffices
  <2> SUFFICES ASSUME TypeOK, Pending, NEW p \in Pairs, NEW k \in Minutes,
                      prompt, exch[p][k] # "none", <<p, k>> \notin late,
                      now > k + Lookback
               PROVE  board[p][k] # "none"
    BY DEF LookbackSuffices
  <2>1. k \in Nat /\ now \in Nat
    BY DEF TypeOK, Minutes
  <2>2. QED
    BY <2>1 DEF PendingInv
<1>4. QED
  BY <1>1, <1>2, <1>3, InitTypes, TypeStep, InitRows, RowsStep, InitBoard, BoardStep,
     PTL DEF Spec

-----------------------------------------------------------------------------
(***************************************************************************)
(* The two tables as a board of candles.                                   *)
(***************************************************************************)

\* What a step can do to the clock and the two tables.
LEMMA TableSteps ==
  TypeOK /\ [Next]_vars =>
     \/ UNCHANGED <<now, exch, board>>
     \/ Tick
     \/ UpsertRows /\ UNCHANGED <<now, board>>
     \/ apc = "store" /\ UpsertBoard /\ UNCHANGED <<now, exch>>
  BY DEF Next, Crawl, Aggregation, CrawlStart, CrawlStore, CrawlAbort, CrawlRestart,
     CrawlFetch, CrawlSkip, AggStart, AggQuery, AggStore, AggAbort, AggRestart,
     Trade, crawlVars, aggVars, vars

\* The upsert of a crawler round stores what is not there yet, of minutes that
\* were over when the round began.
LEMMA UpsertStores ==
  ASSUME TypeOK, RowsInv, UpsertRows, UNCHANGED <<now, board>>
  PROVE  Candles!Store
<1>1. now \in Nat /\ cut \in Nat /\ Minutes \subseteq Nat /\ cut <= now
  BY DEF TypeOK, Minutes, RowsInv
<1>2. Present(exch) \subseteq Present(exch)'
  BY UpsertFacts DEF Present
<1>3. PICK c \in 0 .. now : c = cut
  BY <1>1
<1>4. ASSUME NEW x \in Present(exch)', x \notin Present(exch)
      PROVE  x \in Pairs \X Candles!Closed(c)
  <2>1. PICK p \in Pairs, k \in Minutes : x = <<p, k>>
    BY <1>4 DEF Present
  <2>2. exch[p][k] = "none" /\ exch'[p][k] # "none"
    BY <1>4, <2>1 DEF Present
  <2>3. PICK r \in rows : r.minute = k
    BY <2>2, UpsertFacts
  <2>4. k \in Nat /\ k < c
    BY <1>1, <1>3, <2>3 DEF RowsInv
  <2>5. k \in Candles!Closed(c)
    BY <1>1, <1>3, <2>4 DEF Candles!Closed
  <2> QED
    BY <2>1, <2>5
<1>5. Present(board)' = Present(board)
  BY DEF Present
<1> QED
  BY <1>2, <1>3, <1>4, <1>5 DEF Candles!Store

\* An aggregation counts candles that are stored, and goes on counting those
\* it has counted.
LEMMA AggregationCounts ==
  ASSUME TypeOK, BoardInv, apc = "store", UpsertBoard, UNCHANGED <<now, exch>>
  PROVE  Candles!Count
<1>1. Present(board) \subseteq Present(board)'
  BY BoardFacts DEF Present
<1>2. Present(board)' \subseteq Present(exch)
  BY BoardFacts DEF Present
<1>3. Present(exch)' = Present(exch)
  BY DEF Present
<1> QED
  BY <1>1, <1>2, <1>3 DEF Candles!Count

\* For any clocks, delays, failures and restarts, the two tables implement the
\* board of candles (fetch_ohlcv.go:97-145, symbol_kline_handle.go:84-125).
THEOREM Refinement == Spec => ImplementsCandleBoard
<1>1. Init => Candles!Init
  BY DEF Init, Candles!Init, Present, NoRows
<1>2. TypeOK /\ RowsInv /\ BoardInv /\ [Next]_vars
        => [Candles!Next]_<<now, Present(exch), Present(board)>>
  <2> SUFFICES ASSUME TypeOK, RowsInv, BoardInv, [Next]_vars
               PROVE  [Candles!Next]_<<now, Present(exch), Present(board)>>
    OBVIOUS
  <2>1. CASE UNCHANGED <<now, exch, board>>
    BY <2>1 DEF Present
  <2>2. CASE Tick
    BY <2>2 DEF Tick, crawlVars, aggVars, Present, Candles!Next, Candles!Tick
  <2>3. CASE UpsertRows /\ UNCHANGED <<now, board>>
    BY <2>3, UpsertStores DEF Candles!Next
  <2>4. CASE apc = "store" /\ UpsertBoard /\ UNCHANGED <<now, exch>>
    BY <2>4, AggregationCounts DEF Candles!Next
  <2> QED
    BY <2>1, <2>2, <2>3, <2>4, TableSteps
<1> QED
  BY <1>1, <1>2, TypeCorrect, InitTypes, TypeStep, InitRows, RowsStep, InitBoard,
     BoardStep, PTL DEF Spec, ImplementsCandleBoard, Candles!Spec
=============================================================================
