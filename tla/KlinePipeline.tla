--------------------------- MODULE KlinePipeline ---------------------------
(***************************************************************************)
(* One-minute candles.  The crawler (crawler/cryptoexchange/fetch_ohlcv.go)*)
(* fetches the two newest candles of every pair, keeps those opened before *)
(* the minute its round started in, and upserts them all into              *)
(* exchange_symbol_kline when the round ends.  The worker                  *)
(* (worker/symbol_kline_handle.go) reads the rows of the last few minutes  *)
(* and upserts, per symbol and minute, one aggregate into symbol_kline.    *)
(* The two loops share nothing but the tables.                             *)
(*                                                                         *)
(* Times are minute numbers.  Of a candle the model keeps whether it was   *)
(* final when it was fetched; of an aggregate, which pairs it is made of.  *)
(* An exchange has no candle for a minute without trades, so the two       *)
(* newest candles need not be those of two neighbouring minutes.           *)
(***************************************************************************)
EXTENDS Naturals

CONSTANTS
    Pairs,      \* exchange_symbol rows
    Symbols,    \* symbol rows
    SymbolOf,   \* the symbol of each pair
    Lookback,   \* exchangeKlineLookback, in minutes
    Skew,       \* how many minutes an exchange may be behind our clock
    MaxTime     \* bound: the clock stops here

ASSUME KlineAssumption ==
    /\ SymbolOf \in [Pairs -> Symbols]
    /\ Lookback \in Nat \ {0} /\ Skew \in Nat /\ MaxTime \in Nat

VARIABLES
    now,     \* the current minute
    opened,  \* the candles each exchange has of its pair so far
    prompt,  \* history: the aggregator has kept to its minute so far
    late,    \* history: candles first stored when their window was closing
    cpc,     \* crawler loop: idle, fetching, or dead
    cut,     \* crawler loop: closedBefore of the round, 0 between rounds
    ctodo,   \* crawler loop: pairs still to fetch
    rows,    \* crawler loop: candles kept so far
    exch,    \* exchange_symbol_kline: what is stored for a pair and minute
    apc,     \* aggregator loop: where it is
    acut,    \* aggregator loop: closedBefore of the round, 0 between rounds
    snap,    \* aggregator loop: the rows its query returned
    board,   \* symbol_kline: what each pair contributed to its symbol's row
    done     \* closedBefore of the last aggregation that was stored

crawlVars == <<cpc, cut, ctodo, rows, exch, late>>
aggVars   == <<apc, acut, snap, board, done>>
vars      == <<now, opened, prompt, crawlVars, aggVars>>

Minutes == 0 .. MaxTime
Quality == {"none", "forming", "final"}
Candle  == [pair : Pairs, minute : Minutes, quality : {"forming", "final"}]
NoRows  == [p \in Pairs |-> [k \in Minutes |-> "none"]]

Init ==
    /\ now = 0 /\ prompt = TRUE /\ late = {}
    /\ opened = [p \in Pairs |-> {}]
    /\ cpc = "idle" /\ cut = 0 /\ ctodo = {} /\ rows = {}
    /\ exch = NoRows
    /\ apc = "idle" /\ acut = 0 /\ snap = NoRows
    /\ board = NoRows /\ done = 0

-----------------------------------------------------------------------------
(* The crawler: ExchangeKlineCrawler.Start and syncKlineData.              *)

\* A round starts, at once in a new process and then on the ticker; closed
\* candles are those opened before the current minute, as of now.
CrawlStart ==
    /\ cpc = "idle"
    /\ cpc' = "fetch" /\ cut' = now /\ ctodo' = Pairs
    /\ UNCHANGED <<now, opened, prompt, late, rows, exch, aggVars>>

\* The candles an exchange whose clock shows n has of p: the first trade of a
\* minute opens the minute's candle, and candle n is still forming.
Seen(p, n) == {k \in opened[p] : k <= n}

Answer(p, n, minutes) ==
    {[pair |-> p, minute |-> k, quality |-> IF k < n THEN "final" ELSE "forming"] :
        k \in minutes}

\* Faulty variant: three candles are asked for instead of two.
ThreeCandles(p, n) ==
    Answer(p, n, {k \in Seen(p, n) :
                    \A a, b, c \in Seen(p, n) : k < a /\ a < b => ~ b < c})

\* FetchOHLCV with limit 2: the newest two, however far apart.
TwoCandles(p, n) ==
    Answer(p, n, {k \in Seen(p, n) : \A a, b \in Seen(p, n) : k < a => ~ a < b})

\* Faulty variant: the candle of the round's own minute counts as closed.
KeptInclusive(p, n) == {r \in TwoCandles(p, n) : r.minute <= cut}

\* buildExchangeSymbolKlines: only candles opened before closedBefore.
Kept(p, n) == {r \in TwoCandles(p, n) : r.minute < cut}

CrawlFetch(p) ==
    /\ cpc = "fetch" /\ p \in ctodo
    /\ \E n \in Minutes : /\ n <= now /\ now <= n + Skew
                          /\ rows' = rows \cup Kept(p, n)
    /\ ctodo' = ctodo \ {p}
    /\ UNCHANGED <<now, opened, prompt, late, cpc, cut, exch, aggVars>>

\* FetchOHLCV failed or returned nothing: next pair.
CrawlSkip(p) ==
    /\ cpc = "fetch" /\ p \in ctodo
    /\ ctodo' = ctodo \ {p}
    /\ UNCHANGED <<now, opened, prompt, late, cpc, cut, rows, exch, aggVars>>

Holds(p, k, q) == [pair |-> p, minute |-> k, quality |-> q] \in rows

\* UpsertExchangeSymbolKlines: one statement, keyed by pair and minute.
UpsertRows ==
    /\ exch' = [p \in Pairs |-> [k \in Minutes |->
                  IF Holds(p, k, "final") THEN "final"
                  ELSE IF Holds(p, k, "forming") THEN "forming"
                  ELSE exch[p][k]]]
    /\ late' = late \cup {x \in Pairs \X Minutes :
                            /\ exch[x[1]][x[2]] = "none" /\ exch'[x[1]][x[2]] # "none"
                            /\ now >= x[2] + Lookback}

CrawlStore ==
    /\ cpc = "fetch" /\ ctodo = {}
    /\ UpsertRows
    /\ cpc' = "idle" /\ cut' = 0 /\ rows' = {}
    /\ UNCHANGED <<now, opened, prompt, ctodo, aggVars>>

\* The round ends early: a query or the upsert failed and the loop is gone
\* ("dead"), or the process was killed and started again ("idle").  A failed
\* upsert may have been applied all the same.
CrawlAbort ==
    /\ cpc = "fetch"
    /\ cpc' \in {"dead", "idle"}
    /\ \/ UNCHANGED <<exch, late>>
       \/ ctodo = {} /\ UpsertRows
    /\ cut' = 0 /\ ctodo' = {} /\ rows' = {}
    /\ UNCHANGED <<now, opened, prompt, aggVars>>

CrawlRestart ==
    /\ cpc = "dead"
    /\ cpc' = "idle"
    /\ UNCHANGED <<now, opened, prompt, late, cut, ctodo, rows, exch, aggVars>>

Crawl ==
    \/ CrawlStart \/ CrawlStore \/ CrawlAbort \/ CrawlRestart
    \/ \E p \in Pairs : CrawlFetch(p) \/ CrawlSkip(p)

-----------------------------------------------------------------------------
(* The worker: SymbolKlineHandle.Start and syncSymbolKlineData.            *)

AggStart ==
    /\ apc = "idle"
    /\ apc' = "query" /\ acut' = now
    /\ UNCHANGED <<now, opened, prompt, crawlVars, snap, board, done>>

\* Faulty variant: the window starts one minute late.
InWindowLate(k) == acut < k + Lookback

\* created_at >= since.
InWindow(k) == acut <= k + Lookback

\* Faulty variant: the query has a LIMIT and may miss rows of the window.
AggQueryLimited ==
    /\ apc = "query"
    /\ \E some \in SUBSET Pairs :
         snap' = [p \in Pairs |-> [k \in Minutes |->
                    IF InWindow(k) /\ p \in some THEN exch[p][k] ELSE "none"]]
    /\ apc' = "store"
    /\ UNCHANGED <<now, opened, prompt, crawlVars, acut, board, done>>

\* QueryExchangeSymbolKlinesSince: one statement, so one snapshot.
AggQuery ==
    /\ apc = "query"
    /\ snap' = [p \in Pairs |-> [k \in Minutes |->
                  IF InWindow(k) THEN exch[p][k] ELSE "none"]]
    /\ apc' = "store"
    /\ UNCHANGED <<now, opened, prompt, crawlVars, acut, board, done>>

\* A symbol has a bucket for minute k in what the query returned.
Bucket(s, k) == /\ k < acut
                /\ \E q \in Pairs : SymbolOf[q] = s /\ snap[q][k] # "none"

\* buildSymbolKlinesFromExchangeKlines and UpsertSymbolKlines: the row of
\* every bucket is replaced by the aggregate of the rows in the bucket.
UpsertBoard ==
    board' = [p \in Pairs |-> [k \in Minutes |->
                IF Bucket(SymbolOf[p], k) THEN snap[p][k] ELSE board[p][k]]]

AggStore ==
    /\ apc = "store"
    /\ UpsertBoard
    /\ done' = acut /\ apc' = "idle" /\ acut' = 0 /\ snap' = NoRows
    /\ UNCHANGED <<now, opened, prompt, crawlVars>>

\* As CrawlAbort.
AggAbort ==
    /\ apc \in {"query", "store"}
    /\ apc' \in {"dead", "idle"}
    /\ \/ UNCHANGED board
       \/ apc = "store" /\ UpsertBoard
    /\ acut' = 0 /\ snap' = NoRows
    /\ UNCHANGED <<now, opened, prompt, crawlVars, done>>

AggRestart ==
    /\ apc = "dead"
    /\ apc' = "idle"
    /\ UNCHANGED <<now, opened, prompt, crawlVars, acut, snap, board, done>>

Aggregation == AggStart \/ AggQuery \/ AggStore \/ AggAbort \/ AggRestart

-----------------------------------------------------------------------------
\* The first trade of a minute opens its candle, at the exchange's own pace.
Trade(p) ==
    /\ \E n \in Minutes :
         /\ n <= now /\ now <= n + Skew
         /\ \A k \in opened[p] : k < n
         /\ opened' = [opened EXCEPT ![p] = @ \cup {n}]
    /\ UNCHANGED <<now, prompt, crawlVars, aggVars>>

\* In a prompt run the aggregator starts and completes a round in every minute:
\* its ticker has a period of one minute, and it starts again after a failure.
\* This is an assumption on the deployment: the code does not bound it.
OnTime == done = now

Tick ==
    /\ now < MaxTime
    /\ now' = now + 1
    /\ prompt' = (prompt /\ OnTime)
    /\ UNCHANGED <<opened, crawlVars, aggVars>>

Next == Crawl \/ Aggregation \/ Tick \/ \E p \in Pairs : Trade(p)

Spec == Init /\ [][Next]_vars

-----------------------------------------------------------------------------
(* Properties                                                              *)

\* Types; a loop that is not in a round holds no candles.
TypeOK ==
    /\ now \in Minutes /\ prompt \in BOOLEAN
    /\ opened \in [Pairs -> SUBSET Minutes] /\ late \in SUBSET (Pairs \X Minutes)
    /\ cpc \in {"idle", "fetch", "dead"} /\ cut \in Minutes
    /\ ctodo \in SUBSET Pairs /\ rows \in SUBSET Candle
    /\ exch \in [Pairs -> [Minutes -> Quality]]
    /\ apc \in {"idle", "query", "store", "dead"} /\ acut \in Minutes
    /\ snap \in [Pairs -> [Minutes -> Quality]]
    /\ board \in [Pairs -> [Minutes -> Quality]]
    /\ done \in Minutes
    /\ cpc # "fetch" => rows = {} /\ ctodo = {}

\* No candle is stored, or aggregated, before it is final
\* (fetch_ohlcv.go:97-98, symbol_kline_handle.go:88-89): the stale
\* closedBefore of a slow round errs on the safe side.  It needs the clocks
\* of the exchanges not to be behind ours (Skew = 0).
OnlyFinalCandles ==
    \A p \in Pairs, k \in Minutes :
        exch[p][k] # "forming" /\ board[p][k] # "forming"

\* A candle that was missed is not made up for: once two newer candles of its
\* pair have closed, no round that starts then stores it, whatever failed, was
\* skipped or spilt over before (fetch_ohlcv.go:16-24, 106, 122).
MissedForGood ==
    [][\A p \in Pairs, k \in Minutes :
          exch[p][k] = "none" /\ exch'[p][k] # "none" =>
            \A a, b \in opened[p] : k < a /\ a < b => cut <= b + Skew]_vars

\* An exchange that has contributed to a symbol's candle is never dropped
\* from it, although every aggregation overwrites the whole row.
ContributorsStay ==
    [][\A p \in Pairs, k \in Minutes :
          board[p][k] # "none" => board'[p][k] # "none"]_vars

\* In prompt runs the three minutes of lookback suffice: a candle stored before
\* the last minute of its window is part of its symbol's aggregate by the end
\* of it (symbol_kline_handle.go:18).  One stored later, after failed rounds or
\* from an exchange with few trades, may stay out for ever.
LookbackSuffices ==
    \A p \in Pairs, k \in Minutes :
        prompt /\ exch[p][k] # "none" /\ <<p, k>> \notin late /\ now > k + Lookback
            => board[p][k] # "none"

\* The candles a table has a row or a contribution for.
Present(table) == {x \in Pairs \X Minutes : table[x[1]][x[2]] # "none"}

\* The two tables behave as CandleBoard: every upsert adds candles of minutes
\* that were over when its round began, an aggregate counts only what is
\* stored, though its snapshot is older than the table by then, and no round of
\* either loop, whole or cut off, takes anything away (fetch_ohlcv.go:97-145,
\* symbol_kline_handle.go:84-125).
Candles == INSTANCE CandleBoard WITH
              stored <- Present(exch), counted <- Present(board)
ImplementsCandleBoard == Candles!Spec
=============================================================================
