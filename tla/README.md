# market-services in TLA+

This directory models the Go program in this repository: the processes that
collect market data (`crawler`, `dex`), the process that merges it (`worker`),
the two read-only front ends (`api`, `rpc`), and the life cycle they share. TLC
checks the models on small instances, TLAPS proves the most important
properties for every value of the constants.

## 1. The system

### Processes and shared state

Every subcommand of `cmd/market-services/cli.go` is an operating-system process
of its own. They never call one another. They meet in PostgreSQL and Redis.

| Process | Loops (period) | Reads | Writes |
|---|---|---|---|
| `crawler` | order books (10 s), klines (1 min), fiat rates (60 s) | exchanges, fiat platform, `exchange_symbol`, `currency` | `exchange_symbol`, Redis keys avg/ask/bid (600 s), `exchange_symbol_kline`, `currency` |
| `worker` | market prices (10 s), symbol klines (1 min) | Redis keys, `exchange_symbol_kline`, `currency`, `symbol_market`, CoinMarketCap | `symbol_market`, `symbol_market_currency`, `symbol_kline` |
| `dex` | pair price (5 s) | a chain node | the log |
| `api`, `rpc` | one handler per request | all tables | nothing |

A loop runs one round at a time and waits for the next tick or for its
`resourceCtx`. It ends for good when a round returns an error. Only a panic, or
an error of the dex loop, reaches the application context (`HandleCrit`).

### Components: state, operations, what makes them correct

* **Order books** (`crawler/cryptoexchange/fetch_orderbook.go`). State: a row in
  `exchange_symbol` and three Redis keys per pair. A round fetches each pair,
  updates the row, then sets avg, ask and bid one after another. Hard: the
  worker reads between two Sets; a Set fails; keys outlive a dead crawler.
  Correct when the avg a reader gets is ahead of the ask and the bid by one book
  at most, plus one for every interrupted visit, and by less than a TTL. The other
  direction has no bound: a worker that pauses between two GETs may read an ask or
  a bid many books newer than its avg.
* **Market prices** (`worker/market_price_handle.go`). A round loads the active
  currencies, reads three keys per pair, drops pairs that miss one, merges per
  symbol, and commits a `symbol_market` row together with its fiat rows, one
  transaction per symbol. Hard: a transaction that breaks off between its two
  statements, a round that fails between two symbols, a COMMIT whose answer is
  lost, currencies edited meanwhile. Correct when the two tables agree and
  successive rows never show an older book.
* **Market rows** (the same loop, `cmc_client.go`, `database/symbol_market.go`).
  Each row carries market cap and volume from one CoinMarketCap request per round
  and the change against the first row of the UTC day. Hard: the answer lacks
  coins or cannot be read; the first row is looked up before the new row is
  stamped, in a table whose times are rounded and in local time; a refused
  row ends the loop. Correct when the changes of a day have one base, a client who
  looks a symbol up never goes back in time, and the database has no reason to
  refuse a row. It has one: the amounts of CoinMarketCap are bounded from below
  only, and the domain `UINT256` ends at 2^256.
* **Klines** (`fetch_ohlcv.go`, `symbol_kline_handle.go`). The crawler asks each
  exchange for the newest two candles and keeps those that opened before the
  current minute; the aggregator reads the last three minutes and upserts one
  row per symbol and minute. Hard: a round's clock reading is older than its
  answers; a minute without trades has no candle, so the two need not be those of
  neighbouring minutes; candles arrive while the aggregator reads. Correct when
  only final candles are stored, a candle stored before its window is closing is
  aggregated, and what is aggregated stays so. A candle stored later than that
  may stay out.
* **Fiat rates** (`crawler/fiatcurrency`). Each round starts one goroutine per
  platform, collects their answers from a channel and stores each as it comes. The
  first round on an empty table inserts. Hard: any order of answers, table edits
  between load and store, no unique index on the currency code.
* **Life cycle** (`common/cliapp`, `common/tasks`, `common/opio`, `crawler.go`,
  `worker.go`). Setup, start, wait for an interrupt or a critical error, stop the
  loops one after another, exit status. Hard: interrupts at any moment, panics
  and errors during the stop, a sync that hangs. A panic in a goroutine that the
  fiat client starts is in no task group and kills the process.
* **Setup** (`cmd/market-services`, `flags`, `config`, `database/db.go`,
  `redis`, `exchange_client.go`, `services/http/api.go`). Every command takes its
  steps in order and may fail at each; `migrate` executes SQL files and may be
  run again. Hard: what is left open after a failure, a database that does not
  answer, exchanges that are missing at the start, a migration that ends half
  way. Correct when nothing starts without what it needs, and the files in effect
  have no gap.
* **Retry** (`common/retry`), used by `NewDB`.
* **Front ends** (`services/http`, `services/grpc`, `common/httputil`,
  `database/*ListByFilter`). Handlers check arguments, normalise the page
  numbers, count, and fetch a page. Hard: inserts between the two queries and
  between two pages, ties in the order, the stop.
* **Dex** (`crawler/dex`). Seven calls resolve the pair once, one call per round
  reads its reserves. Hard: partial failures, direction and scale of the price.

`PROJECT.json` lists the hazards with their source lines.

## 2. Modules

| Module | Models | Abstracts |
|---|---|---|
| `PriceFeed` | crawler and worker on the price path, Redis keys with expiration, both tables | a price is the number of the order book it came from, with the time it was set |
| `MarketBoard` | abstract: books that follow one another, and per symbol publications of a row whose prices only move on, together with its fiat prices | loops, keys, transactions, failures |
| `PriceAggregation` | the two merging loops: mean, extremes, volume and their rounding | a price is a whole number of the smallest amount; open and close are one `mean` |
| `MarketRows` | the worker's rounds as the tables see them: quotes, the day's first row, stamps, constraints; the two lookups of both front ends | prices of a symbol come aggregated; a transaction is one step; the clock never goes back and the zone never changes |
| `CandleBoard` | abstract: candles of closed minutes arrive in batches, an aggregate counts stored ones only, nothing goes away | loops, rounds, clocks |
| `KlinePipeline` | crawler and aggregator of klines, exchanges that skip minutes, clocks with bounded skew | a candle is final or not; its values are in `PriceAggregation` |
| `FiatRates` | rounds, platform goroutines, the channel, `currency` | a rate is the round it belongs to |
| `ServiceLifecycle` | `LifecycleCmd`, the task groups and the loops of crawler, worker and dex | what a sync does |
| `Startup` | all commands from the flags to the end of their setup, `migrate` as a whole; extends `ServiceLifecycle` | whether a value is there, not what it is |
| `Retry` | `Do` and the exponential strategy | op's outcome is arbitrary |
| `QueryApi` | paging clients, the list handlers of both front ends, inserts, stop | a row is an id and a time; two lists stand for eight |
| `DexMarket` | one round call by call, the metadata cache, trades, restarts | names of tokens |

`PriceFeed` implements `MarketBoard` and `KlinePipeline` implements `CandleBoard`.
The substitutions are written at each `INSTANCE`: a publication is a COMMIT, and
every other step of the loops, the two statements before it included, is a stutter
of the board; the candles of `CandleBoard` are the pairs and minutes a table has
something for. `PriceFeed` has the worker's transaction as it runs, statement by
statement; `MarketRows` has its effect as one step and looks at the values.
`KlinePipeline` and `PriceFeed` each compose two processes over shared tables.
Actions are named for the code they stand for, and `PROJECT.json` maps
each of them to its lines. In short:

* `PriceFeed`: `FeedTick`/`FeedFetch`/`StoreQuote`/`SetKey`/`FeedRoundEnd` are
  `syncOrderBookData`; `WorkTick`/`WorkPick`/`ReadKey`/`SkipPair`/`Aggregate`/
  `InsertRow`/`UpsertFiat`/`StoreSymbol`/`WorkRoundEnd` are `onPriceData`; the
  first two of a symbol are the statements of its transaction, `StoreSymbol` is
  the COMMIT. `WorkAbort` rolls back, or has committed without knowing. `...Abort` is a round that
  returns an error (the goroutine is gone), `...Restart` a new process.
* `KlinePipeline`: `Trade` opens the candle of a minute at the exchange, if it is
  traded at all; `CrawlStart` reads the clock and takes `closedBefore`,
  `CrawlFetch` asks one exchange, `CrawlStore` upserts the batch; `AggStart`,
  `AggQuery`, `AggStore` are `syncSymbolKlineData`. Seen from `CandleBoard`, `CrawlStore` and `AggStore`,
  or an abort that was applied all the same, are `Store` and `Count`.
* `ServiceLifecycle`: `SetupOk`/`SetupFail`/`StartLoop`/`BeginStop`/`Cancel`/
  `Join` are the goroutine that runs `lifecycleCmd`, `Tick`/`SyncOk`/`SyncError`/
  `SyncPanic`/`Quit` a loop, `SpawnedPanic` a panic outside any task group,
  `Interrupt` the signal. Services differ in five sets: loops that sync before
  their first tick (`eager`), whose sync only logs its errors (`deaf`), that return
  an error when told to stop (`noisy`), that call `HandleCrit` on a sync error
  (`vocal`), whose sync starts goroutines of its own (`spawning`).
* `Startup`: one action per step: `ParseFlags`, `LoadConfig`, `OpenDB` (one
  attempt of the retry), `PingRedis`, `LoadMarkets`, `BuildObjects`, `ListenHttp`,
  `ListenRpc`, `ExecuteFile`. `Proceed` after the last step of `crawler`,
  `worker` or `dex` is `SetupOk`, `GiveUp` is `SetupFail`; from there on `Serve`
  and `Around` are the steps of `ServiceLifecycle`. `KillMigrate` and
  `MigrateAgain` are the operator.
* `MarketRows`: `RoundStart` loads and aggregates, `FetchQuotes` is the request,
  `CalcRate` the lookup of the first row, `StoreRow` the transaction, or
  `RowRefused` when a constraint of the table (`Accepted`) is not met,
  `WorkerFails` any failure or kill, with the COMMIT through or not.
* `FiatRates`: `RoundStart`, `Deliver` (a goroutine sends its answer), `Take` and
  `Store` (the collecting loop), `RoundEnd`.
* `QueryApi`: `Ask`/`AskMore` a client, `CountRows`/`FetchPage`/`QueryFails` a
  handler's two queries, `Insert` the loops, `Interrupt`/`ShutdownHttp`/`Exit` the
  stop. For gRPC, `Exit` follows the interrupt directly: its `Stop` only sets a
  flag, as its comment says.
* `DexMarket`: `Begin`, one action per kind of call, `Miss` for every failure.
* `PriceAggregation`: `Visit` is one turn of either loop, `Finish` the division.

Definitions marked *Faulty variant* are not part of any specification. Each is a
plausible mistake in the definition it stands before; put in its place, it makes
TLC find a violation of the property `PROJECT.json` names with it. This shows
that the bounds are large enough for the property to matter.

## 3. What TLC checks

| Run | Question | Bounds |
|---|---|---|
| `feed` | how far the avg of a record can be ahead of its ask and bid; do rows go back; do the two tables stay in step when transactions break off? | one pair with a currency that comes and goes, three books, one tick of the clock, TTL 1: enough for an interrupted visit, an expiry between two visits and two rows |
| `market_rows` | which row a change is measured against; for what is a row refused, and is one lost; do the lookups go back? | two symbols (one quoted in fiat, one without a coin), three rows, days of two seconds and the midnight between two of them, the clock read at any half second; a cap that fits the column and one that does not |
| `klines` | are only final candles stored, is a missed one made up for, is the lookback enough; can a table lose or invent a candle or a contributor? | two exchanges of one symbol up to minute 2, or one up to minute 4 (`Bounded`), each of which may skip minutes: the first candle leaves the window of three, and two newer ones may close with a gap between them |
| `lifecycle` | exit status and termination with errors, panics (recovered and not) and interrupts; what a failed setup leaves; migrations | the six commands, the three real services, two interrupts (a third has no effect: the signal channel is only read twice), two exchanges, two attempts, two files |
| `fiat` | whose rates are stored, which rows are touched, does a round end, and in how many steps? | two platforms, two codes, two rounds, tables of four rows |
| `retry_do` | number of attempts and pauses | limits -1 to 5 |
| `aggregation` | is the merged candle a candle, the mean a mean, the offer the best; what volume is lost? | three exchanges, prices around two multiples of the rounding grain |
| `query_api` | what paging clients may miss, totals, answers lost at a stop | one client, three rows in two instants, pages of one or two rows |
| `dex` | which prices can be logged | tokens of zero or one decimals, reserves 0 to 2, two trades |

Three runs look for a violation of what a comment promises, and find it:

* `service_exit`: an interrupt of a healthy crawler ends in exit status 1. The
  fiat loop returns an error for a normal stop (`fiatcurrency.go:71`).
* `forced_exit`: a second interrupt does not end a stop that waits for a hanging
  sync, since no `Stop` looks at its context (`lifecycle.go:51` promises it).
* `retry_seconds`: the pauses of `NewDB` are microseconds; the numbers lack their
  unit (`db.go:52` says one to twenty seconds).

Further facts came up that the runs do not turn into findings. A loop that ends with an
error leaves its process running without it (`ServiceLifecycle`, action
`SyncError`). A client that stops at the `total` of an answer, not at a short
page, may miss a row, as count and page are two queries (`QueryApi`). A first
row of a day may carry a change, when midnight passed between the lookup and the
stamp (`MarketRows`, `StrayOnlyOverMidnight`), though the comment of `calcRate`
(`market_price_handle.go:419`) says it is zero. `rpc` stays up when it cannot
listen (`Startup`, `ListenRpc`), and an interrupt during `migrate` has no effect,
since nothing looks at the context it cancels. `/healthz` as README.md and
REST_API.md have it is not served: `HealthPath` (`api.go:24`) lacks the slash.

Two symbols in one failing round are checked by `market_rows`; `feed` has one
pair, since two give too many states for TLC, and the theorems of `PriceFeedProofs` are about any number of pairs and
symbols. Where a theorem says that the types are right, no run repeats it, nor what
a checked property implies: `ContributorsStay` follows from
`ImplementsCandleBoard`. `NoWaitIsInVain`, `NoisyServiceFails`, `SetupGetsShorter`,
`BestOfferIsPublished` and `PausesBetweenAttempts` are theorems and in no run.
`market_rows` runs in UTC; what is proved of it holds in every zone.

### Fairness

* `ServiceLifecycle` and `Startup`: weak fairness of the command goroutine,
  in its setup (every call answers or times out) as later; weak fairness of
  the end of a sync (remote calls have timeouts; `forced_exit` drops this one to
  look at calls that hang), strong fairness of leaving a loop, as Go's `select`
  picks at random among the ready cases and so cannot prefer the ticker for ever.
* `FiatRates`: weak fairness of each goroutine and of the collecting loop. The
  HTTP client has a timeout and the channel has room for every platform.
* `QueryApi`: weak fairness of the stop alone; queries have no deadline.
* Safety runs use specifications without fairness.

Deadlock is checked except where the system really ends or waits for ever (an
exited process, a finished aggregation, clients that are done).

## 4. What is proved

Each `...Proofs` module extends the module it is about; `CrawlerProofs` extends
two, `FiatRates` and `DexMarket`. All theorems are about `Spec` (`DexSpec`), for
every value of the constants that meets the named assumptions. Every safety
property of a passing run is the statement of a theorem.

* **`PriceFeedProofs`**: types; `KeysFollowTheBook`, `TornByAtMostOne`,
  `TornWithinTTL`, `RowsNeverGoBack`, `FiatMatchesMarket`, and that `PriceFeed`
  implements `MarketBoard`. The invariants follow a price from the fetched book
  through the keys and the half-read record into the row. The properties alone
  are not inductive: between two Sets only the field that is next in order may
  lag, and the invariant says which. All bounds are on how far the avg is ahead.
  The refinement rests on `ShownInv`: what any row of a symbol has shown of a pair
  is not ahead of what Redis and the records in hand hold, so a commit can only
  move on; the two statements before it change nothing a reader sees.
* **`KlinePipelineProofs`**: types, `OnlyFinalCandles` for exact clocks, and for
  any clocks `MissedForGood`, `ContributorsStay` and `LookbackSuffices`, the last
  for any lookback. What needs strengthening is where a candle may be on its way:
  in the batch, in the table, or in the aggregator's hands. `RowsInv` says of the
  batch that at most one candle of its pair was newer and closed at the exchange
  when the round looked; `PendingInv` that a candle which was stored early enough
  is in the aggregate, or its window is still open.
  That the two tables implement `CandleBoard` needs no assumption on clocks or
  delays: `RowsInv` bounds what a round may hold, `BoardInv` says that whoever is
  in an aggregate or in a snapshot is still in the table.
* **`ServiceLifecycleProofs`**: types, `CleanExitIsQuiet`, `CutOnlyBehindAnError`,
  `QuietServiceStops`, `NoisyServiceFails`, `NoWaitIsInVain`, for any number of
  loops. The invariant says that every loop before the one being joined has
  returned without an error, that every loop has been started by the time the
  service runs, and that a loop which is gone has left its outcome. About
  `Startup`: that it implements `ServiceLifecycle`, so that these hold for whole
  processes, and `LoopsHaveTheirClients`, `AllOrNothing`, `SchemaGrowsInOrder`,
  `SetupGetsShorter`, for any number of exchanges, attempts and files. The
  invariants say what each step leaves behind for those after it.
* **`MarketRowsProofs`**: types and all the properties of the run, for any
  symbols, prices, day length and time zone, of a clock that never goes back in a
  zone that does not change. `RefusedOnlyForItsCap` needs that the change and the
  price of every row in hand meet their constraints, so that only the cap is left
  to break one. The invariant `Measured` says of each
  row, and of a lookup still in hand, that it has the first row of its day, and
  that the rows there were by then are of no later day; no commit
  disturbs it since stamps never go back. `FiatFollows` ties each fiat price to a
  row at least as new as every row with its currency.
* **`CrawlerProofs`, the fiat rates**: types, `RateOfItsRound`,
  `OnlyBootstrapInserts`, `OnlyLoadedRowsChange`, `RoundGetsShorter`, for any
  platforms, codes and rounds. Before it is
  written a rate is in the channel or in the hands of the collecting loop;
  `FiatInv` says of both that it belongs to the round under way and has a code that
  was asked for, and of the rows a round has loaded that they keep their codes,
  whatever others edit. The number of steps needs the platforms and
  codes to be finitely many, which `FiatAssumption` says.
* **`CrawlerProofs`, the pair on the chain**: types and `PriceOfThisRound`, for any
  tokens, decimals and trades. The invariant ties every value read so far in a
  round to the pair it was read from. That no price is divided by zero needs
  powers of ten, which `DexMarket` has as the recursive function `Pow10`; that it
  is what its equation says is shown in `PowersExist`, `PowersAgree` and
  `PowersOfTen`.
* **`RetryProofs`**: types, `AttemptsAsTold`, `PausesBetweenAttempts`,
  `CancelStopsRetrying` for any limit.
* **`PriceAggregationProofs`**: the properties of the run and
  `BestOfferIsPublished`, for any number of exchanges, any prices and any rounding
  grain. The invariant bounds the sum by `count` times the extremes; lemmas about
  whole-number division carry it through `Mean`, because rounding is monotone and
  a mean of equal prices is the rounded price itself. So `CandleStaysACandle` and
  `MeanAmongContributions` are about the rounded extremes: the code stores the low
  and the high unrounded, and rounding alone may put an open or a close outside
  them (with a grain of 10 and all prices 4 the mean is 0).
* **`QueryApiProofs`**: types, `PagesCoverTheList`, `TotalIsReachable`,
  `GracefulStopAnswers`, for any number of clients, rows and page sizes. Paging
  needs counting: a row that is owed and not yet shown has at least as many rows
  in front of it as the client has passed. Inserts only add to them, and a page
  that does not show the row is full and ends in front of it.

Only model-checked: the five liveness properties `CancelledAppExits`,
`CriticalFailureExits`, `SetupEnds`, `RoundCompletes` and `ForcedStopEnds`; the
prover has no rule for fairness or `ENABLED`. What they rest on is proved where
the code has something to say about it: `RoundGetsShorter` and `SetupGetsShorter`
bound the steps of a round and of a setup by a number that only goes down, so that
neither can go on for ever while it takes steps, and `NoWaitIsInVain` says that
Stop waits only for a loop that exists and has been told to end. That the next step
is taken is the fairness of section 3.

The library's induction principles take a predicate as their parameter, and none of the
installed provers can instantiate one. `PowersExist` uses instead that a non-empty
set of numbers has a least member, for the set of the arguments at which the claim
fails.

## 5. Not modelled, and what could follow

* The generated protobuf code, the routing of requests to handlers, JSON and
  proto messages: no state.
* `ProtectFlags` (`cliapp/flag.go`), `Do2` and the fixed strategy of `retry`: unused,
  or wrappers without state.
* `CancelOnInterrupt`, and interrupts while `api` or `rpc` are still in their setup.
* The timeouts of `net/http`, and handlers other than the lists and the lookups
  of a symbol: the asset list is one query.
* A wall clock that is set back, or a time zone that leaves summer time: rows would
  be stamped before older ones, and `OneBasePerDay`, `StrayOnlyOverMidnight` and
  `LookupsNeverGoBack` would not hold. Nothing in the code guards against either.
* Of the schema, what no module needs; `migrate` is about files, not their text.

The modules were written in the order of the table in section 2, the price path
first. What could follow: the tables that `exchange_symbol` feeds, with the
duplicate rows its missing unique index allows; two workers on one database, which
nothing prevents; the 64-bit arithmetic of the gRPC page offsets.
