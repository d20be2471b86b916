----------------------------- MODULE PriceFeed -----------------------------
(***************************************************************************)
(* The price path of market-services.  The crawler process runs the loop   *)
(* of crawler/cryptoexchange/fetch_orderbook.go: for every exchange symbol *)
(* ("pair") it fetches an order book, updates the exchange_symbol row and  *)
(* then sets three Redis keys, avg, ask and bid, one after the other.  The *)
(* worker process runs the loop of worker/market_price_handle.go: it reads *)
(* the three keys one after the other, aggregates what it read per symbol  *)
(* and commits, one transaction per symbol, a symbol_market row with its   *)
(* symbol_market_currency rows.  Nothing synchronises the two processes.   *)
(*                                                                         *)
(* A price is represented by the number of the fetch it came from (its     *)
(* "generation"): the properties are about which books are mixed, not      *)
(* about amounts.  `now' counts in units of the common 10 s ticker.        *)
(***************************************************************************)
EXTENDS Naturals

CONSTANTS
    Pairs,        \* exchange_symbol rows (one exchange, one symbol)
    Symbols,      \* symbol rows, as numbers: the order of their guids
    SymbolOf,     \* the symbol of each pair
    Currencies,   \* fiat currency rows
    Convertible,  \* symbols whose quote asset supportsFiatConversion
    TTL,          \* lifetime of a Redis key (600 s in the code)
    MaxTime,      \* bound: the clock stops here
    MaxFetch,     \* bound: successful fetches per pair
    MaxRows       \* bound: symbol_market rows per symbol

ASSUME PriceFeedAssumption ==
    /\ Symbols \subseteq Nat
    /\ SymbolOf \in [Pairs -> Symbols]
    /\ Convertible \subseteq Symbols
    /\ TTL \in Nat \ {0}
    /\ MaxTime \in Nat /\ MaxFetch \in Nat /\ MaxRows \in Nat

VARIABLES
    now,        \* wall clock shared by Redis and both processes
    fetched,    \* generation of the last book fetched for a pair
    exSymbol,   \* generation in the exchange_symbol row of a pair
    redis,      \* redis[f][p]: last value set for field f of pair p
    aborts,     \* history: visits of a pair cut short after the fetch
    fpc,        \* crawler loop: where it is
    ftodo,      \* crawler loop: pairs still to visit in this round
    fpair,      \* crawler loop: pair being visited
    wpc,        \* worker loop: where it is
    wtodo,      \* worker loop: pairs still to read in this round
    wpair,      \* worker loop: pair being read
    got,        \* worker loop: fields read so far for wpair
    records,    \* worker loop: complete records of this round
    curr,       \* worker loop: currencies loaded when the round started
    out,        \* worker loop: symbols still to store in this round
    tx,         \* worker loop: statements the open transaction has executed
    market,     \* latest symbol_market row per symbol
    smc,        \* symbol_market_currency: row each fiat price was made from
    shown       \* history: newest book a row has shown, per field and pair

feedVars == <<fetched, exSymbol, redis, aborts, fpc, ftodo, fpair>>
workVars == <<wpc, wtodo, wpair, got, records, curr, out, tx>>
tables   == <<market, smc, shown>>
vars     == <<now, feedVars, workVars, tables>>

Fields == {"avg", "ask", "bid"}

\* The order in which both programs touch the three keys of a pair.
After == [avg |-> "ask", ask |-> "bid", bid |-> "pick"]

Entry  == [gen : Nat, at : Nat]
Quote  == [gen : Nat \ {0}, at : Nat]
NoKey  == [gen |-> 0, at |-> 0]
Nothing == [f \in Fields |-> NoKey]
Record == [pair : Pairs, read : [Fields -> Quote]]
Row    == [id : Nat, parts : SUBSET Record, curr : SUBSET Currencies]

\* Faulty variant: the keys are set without an expiration.
LiveForever(f, p) == redis[f][p].gen > 0

\* A GET finds the key: it was set and has not expired.
Live(f, p) == redis[f][p].gen > 0 /\ now < redis[f][p].at + TTL

\* The crawler is between a fetched book and the end of its writes.
Visiting == fpc \in {"db"} \cup Fields

Init ==
    /\ now = 0
    /\ fetched = [p \in Pairs |-> 0]
    /\ exSymbol = [p \in Pairs |-> 0]
    /\ redis = [f \in Fields |-> [p \in Pairs |-> NoKey]]
    /\ aborts = [p \in Pairs |-> 0]
    /\ fpc = "idle" /\ ftodo = {} /\ fpair \in Pairs
    /\ wpc = "idle" /\ wtodo = {} /\ wpair \in Pairs
    /\ got = Nothing
    /\ records = {} /\ curr = {} /\ out = {} /\ tx = {}
    /\ market = [s \in Symbols |-> [id |-> 0, parts |-> {}, curr |-> {}]]
    /\ smc = [s \in Symbols |-> [c \in Currencies |-> 0]]
    /\ shown = [f \in Fields |-> [p \in Pairs |-> 0]]

-----------------------------------------------------------------------------
(* The crawler: ExchangeOrderbook.Start and syncOrderBookData.             *)

\* The ticker fires; the tables list the pairs, in no particular order.
FeedTick ==
    /\ fpc = "idle"
    /\ fpc' = "pick" /\ ftodo' = Pairs
    /\ UNCHANGED <<now, fetched, exSymbol, redis, aborts, fpair,
                   workVars, tables>>

\* Faulty variant: Redis is written without the exchange_symbol row.
FeedFetchNoTable(p) ==
    /\ fpc = "pick" /\ p \in ftodo
    /\ fetched[p] < MaxFetch
    /\ fetched' = [fetched EXCEPT ![p] = @ + 1]
    /\ fpair' = p /\ ftodo' = ftodo \ {p} /\ fpc' = "avg"
    /\ UNCHANGED <<now, exSymbol, redis, aborts, workVars, tables>>

\* FetchOrderBook returned a book with both sides.
FeedFetch(p) ==
    /\ fpc = "pick" /\ p \in ftodo
    /\ fetched[p] < MaxFetch
    /\ fetched' = [fetched EXCEPT ![p] = @ + 1]
    /\ fpair' = p /\ ftodo' = ftodo \ {p} /\ fpc' = "db"
    /\ UNCHANGED <<now, exSymbol, redis, aborts, workVars, tables>>

\* FetchOrderBook failed, or the book is nil or has an empty side: next pair.
FeedSkip(p) ==
    /\ fpc = "pick" /\ p \in ftodo
    /\ ftodo' = ftodo \ {p}
    /\ UNCHANGED <<now, fetched, exSymbol, redis, aborts, fpc, fpair,
                   workVars, tables>>

FeedRoundEnd ==
    /\ fpc = "pick" /\ ftodo = {}
    /\ fpc' = "idle"
    /\ UNCHANGED <<now, fetched, exSymbol, redis, aborts, ftodo, fpair,
                   workVars, tables>>

\* The effects of UpdateExchangeSymbolPrice and of one Set.
WriteQuote  == exSymbol' = [exSymbol EXCEPT ![fpair] = fetched[fpair]]
WriteKey(f) == redis' = [redis EXCEPT ![f][fpair] =
                            [gen |-> fetched[fpair], at |-> now]]

StoreQuote ==
    /\ fpc = "db"
    /\ WriteQuote
    /\ fpc' = "avg"
    /\ UNCHANGED <<now, fetched, redis, aborts, ftodo, fpair,
                   workVars, tables>>

\* Faulty variant: a failed Set is logged and the visit goes on.
SetKeyLenient(f) ==
    /\ fpc = f
    /\ WriteKey(f) \/ UNCHANGED redis
    /\ fpc' = After[f]
    /\ UNCHANGED <<now, fetched, exSymbol, aborts, ftodo, fpair,
                   workVars, tables>>

SetKey(f) ==
    /\ fpc = f
    /\ WriteKey(f)
    /\ fpc' = After[f]
    /\ UNCHANGED <<now, fetched, exSymbol, aborts, ftodo, fpair,
                   workVars, tables>>

\* The round ends early: a query, the update or a Set returned an error, and
\* the loop is gone for good ("dead"), or the process was killed and has been
\* started again ("idle").  The write under way may still have been applied.
FeedAbort ==
    /\ fpc # "dead"
    /\ fpc' \in IF fpc = "idle" THEN {"idle"} ELSE {"dead", "idle"}
    /\ \/ UNCHANGED <<exSymbol, redis>>
       \/ fpc = "db" /\ WriteQuote /\ UNCHANGED redis
       \/ \E f \in Fields : fpc = f /\ WriteKey(f) /\ UNCHANGED exSymbol
    /\ aborts' = IF Visiting THEN [aborts EXCEPT ![fpair] = @ + 1] ELSE aborts
    /\ ftodo' = {}
    /\ UNCHANGED <<now, fetched, fpair, workVars, tables>>

\* An operator restarts the process whose loop had died.
FeedRestart ==
    /\ fpc = "dead"
    /\ fpc' = "idle"
    /\ UNCHANGED <<now, fetched, exSymbol, redis, aborts, ftodo, fpair,
                   workVars, tables>>

Feed ==
    \/ FeedTick \/ FeedRoundEnd \/ StoreQuote \/ FeedAbort \/ FeedRestart
    \/ \E p \in Pairs : FeedFetch(p) \/ FeedSkip(p)
    \/ \E f \in Fields : SetKey(f)

-----------------------------------------------------------------------------
(* The worker: MarketPriceHandle.Start and onPriceData.                    *)

\* The round loads the currencies that are active now, whichever they are.
WorkTick ==
    /\ wpc = "idle"
    /\ wpc' = "pick" /\ wtodo' = Pairs
    /\ curr' \in SUBSET Currencies
    /\ UNCHANGED <<now, feedVars, wpair, got, records, out, tx, tables>>

WorkPick(p) ==
    /\ wpc = "pick" /\ p \in wtodo
    /\ wpair' = p /\ wtodo' = wtodo \ {p} /\ wpc' = "avg"
    /\ UNCHANGED <<now, feedVars, got, records, curr, out, tx, tables>>

\* One GET that finds its key; the third one completes the record.
ReadKey(f) ==
    /\ wpc = f /\ Live(f, wpair)
    /\ wpc' = After[f]
    /\ LET read == [got EXCEPT ![f] = redis[f][wpair]]
       IN  IF f = "bid"
           THEN records' = records \cup {[pair |-> wpair, read |-> read]} /\ got' = Nothing
           ELSE got' = read /\ UNCHANGED records
    /\ UNCHANGED <<now, feedVars, wtodo, wpair, curr, out, tx, tables>>

\* A GET that finds nothing or fails: the pair is left out of the round.
SkipPair ==
    /\ wpc \in Fields
    /\ wpc' = "pick" /\ got' = Nothing
    /\ UNCHANGED <<now, feedVars, wtodo, wpair, records, curr, out, tx, tables>>

\* aggregateMarketPriceRecords, then one CoinMarketCap request whose failure
\* only zeroes volume and market cap.
Aggregate ==
    /\ wpc = "pick" /\ wtodo = {}
    /\ wpc' = "store"
    /\ out' = {SymbolOf[r.pair] : r \in records}
    /\ UNCHANGED <<now, feedVars, wtodo, wpair, got, records, curr, tx, tables>>

PartsOf(s) == {r \in records : SymbolOf[r.pair] = s}

\* Symbols are stored in the order of their guids.
First(s) == s \in out /\ \A t \in out : s <= t

\* The statements of the transaction of s: without a currency, or for a quote
\* asset no currency is converted from, it ends after the first.
Statements(s) ==
    {"symbol_market"} \cup
    {t \in {"symbol_market_currency"} : s \in Convertible /\ curr # {}}

\* Its first statement, StoreSymbolMarket.
InsertRow(s) ==
    /\ wpc = "store" /\ First(s) /\ tx = {}
    /\ market[s].id < MaxRows
    /\ tx' = {"symbol_market"}
    /\ UNCHANGED <<now, feedVars, wpc, wtodo, wpair, got, records, curr, out,
                   tables>>

FiatRow(s) == [c \in Currencies |-> IF c \in curr THEN market[s].id + 1 ELSE smc[s][c]]

\* Faulty variant: the second statement runs on the database, not on tx.
UpsertFiatOutside(s) ==
    /\ wpc = "store" /\ First(s) /\ tx = {"symbol_market"} /\ tx # Statements(s)
    /\ tx' = Statements(s)
    /\ smc' = [smc EXCEPT ![s] = FiatRow(s)]
    /\ UNCHANGED <<now, feedVars, wpc, wtodo, wpair, got, records, curr, out,
                   market, shown>>

\* Its second statement, UpsertSymbolMarketCurrencies.
UpsertFiat(s) ==
    /\ wpc = "store" /\ First(s) /\ tx = {"symbol_market"} /\ tx # Statements(s)
    /\ tx' = Statements(s)
    /\ UNCHANGED <<now, feedVars, wpc, wtodo, wpair, got, records, curr, out,
                   tables>>

\* The newest book shown per field and pair, once the records rs are shown too.
ShownBy(rs) ==
    [f \in Fields |-> [p \in Pairs |->
        IF \E r \in rs : r.pair = p THEN (CHOOSE r \in rs : r.pair = p).read[f].gen
                                    ELSE shown[f][p]]]

\* Faulty variant: what the second statement did is not committed.
CommitMarketOnly(s) ==
    /\ tx = Statements(s)
    /\ market' = [market EXCEPT ![s] =
                    [id |-> @.id + 1, parts |-> PartsOf(s), curr |-> curr]]
    /\ shown' = ShownBy(PartsOf(s))
    /\ UNCHANGED smc

\* COMMIT: the database shows what the statements did all at once.
CommitSymbol(s) ==
    /\ tx = Statements(s)
    /\ market' = [market EXCEPT ![s] =
                    [id |-> @.id + 1, parts |-> PartsOf(s), curr |-> curr]]
    /\ smc' = IF "symbol_market_currency" \in tx
              THEN [smc EXCEPT ![s] = FiatRow(s)] ELSE smc
    /\ shown' = ShownBy(PartsOf(s))

StoreSymbol(s) ==
    /\ wpc = "store" /\ First(s)
    /\ CommitSymbol(s)
    /\ out' = out \ {s} /\ tx' = {}
    /\ UNCHANGED <<now, feedVars, wpc, wtodo, wpair, got, records, curr>>

\* Faulty variant: the records outlive their round.
WorkRoundEndKeeping ==
    /\ wpc = "store" /\ out = {}
    /\ wpc' = "idle" /\ curr' = {}
    /\ UNCHANGED <<now, feedVars, wtodo, wpair, got, records, out, tx, tables>>

WorkRoundEnd ==
    /\ wpc = "store" /\ out = {}
    /\ wpc' = "idle" /\ records' = {} /\ curr' = {}
    /\ UNCHANGED <<now, feedVars, wtodo, wpair, got, out, tx, tables>>

\* The round ends early, as FeedAbort: a query or a transaction failed, or the
\* process was killed.  The transaction is rolled back, however far it was, or
\* it was committed after all and only the answer to COMMIT was lost.
WorkAbort ==
    /\ wpc # "dead"
    /\ wpc' \in IF wpc = "idle" THEN {"idle"} ELSE {"dead", "idle"}
    /\ \/ UNCHANGED tables
       \/ wpc = "store" /\ \E s \in Symbols : First(s) /\ CommitSymbol(s)
    /\ wtodo' = {} /\ out' = {} /\ tx' = {} /\ records' = {} /\ curr' = {} /\ got' = Nothing
    /\ UNCHANGED <<now, feedVars, wpair>>

WorkRestart ==
    /\ wpc = "dead"
    /\ wpc' = "idle"
    /\ UNCHANGED <<now, feedVars, wtodo, wpair, got, records, curr, out,
                   tx, tables>>

Work ==
    \/ WorkTick \/ SkipPair \/ Aggregate \/ WorkRoundEnd
    \/ WorkAbort \/ WorkRestart
    \/ \E p \in Pairs : WorkPick(p)
    \/ \E f \in Fields : ReadKey(f)
    \/ \E s \in Symbols : InsertRow(s) \/ UpsertFiat(s) \/ StoreSymbol(s)

-----------------------------------------------------------------------------
\* Time passes; keys expire by it.
Tick ==
    /\ now < MaxTime
    /\ now' = now + 1
    /\ UNCHANGED <<feedVars, workVars, tables>>

Next == Feed \/ Work \/ Tick

Spec == Init /\ [][Next]_vars

-----------------------------------------------------------------------------
(* Properties                                                              *)

\* Types.  The interesting part is that a record handed to the aggregation,
\* and so a stored row, never holds a field that was not read.
TypeOK ==
    /\ now \in Nat
    /\ fetched \in [Pairs -> Nat] /\ exSymbol \in [Pairs -> Nat]
    /\ redis \in [Fields -> [Pairs -> Entry]]
    /\ aborts \in [Pairs -> Nat]
    /\ fpc \in {"idle", "pick", "db", "dead"} \cup Fields
    /\ ftodo \in SUBSET Pairs /\ fpair \in Pairs
    /\ wpc \in {"idle", "pick", "store", "dead"} \cup Fields
    /\ wtodo \in SUBSET Pairs /\ wpair \in Pairs
    /\ got \in [Fields -> Entry]
    /\ records \in SUBSET Record
    /\ curr \in SUBSET Currencies /\ out \in SUBSET Symbols
    /\ tx \in SUBSET {"symbol_market", "symbol_market_currency"}
    /\ market \in [Symbols -> Row]
    /\ smc \in [Symbols -> [Currencies -> Nat]]
    /\ shown \in [Fields -> [Pairs -> Nat]]

\* The exchange_symbol row is never behind Redis, and within Redis ask is
\* never ahead of avg, nor bid of ask: what a reader sees of a half-written
\* pair is always a newer prefix and an older rest (fetch_orderbook.go:111-135).
KeysFollowTheBook ==
    \A p \in Pairs :
        /\ redis["bid"][p].gen <= redis["ask"][p].gen
        /\ redis["ask"][p].gen <= redis["avg"][p].gen
        /\ redis["avg"][p].gen <= exSymbol[p]
        /\ exSymbol[p] <= fetched[p]

AllRecords == records \cup UNION {market[s].parts : s \in Symbols}

\* The worker can mix two books of a pair in one record, since it reads
\* between the crawler's Sets; the ask and the bid it mixes in are older than
\* the avg by one book at most, plus one for every visit that was cut short.
TornByAtMostOne ==
    \A r \in AllRecords : \A f \in {"ask", "bid"} :
        r.read["avg"].gen <= r.read[f].gen + 1 + aborts[r.pair]

\* However often the crawler was interrupted, no record mixes an avg with an
\* ask or a bid set a TTL or more before it: that key has expired by then.
TornWithinTTL ==
    \A r \in AllRecords : \A f \in {"ask", "bid"} :
        r.read["avg"].at < r.read[f].at + TTL

\* Fiat prices and the market row of a symbol come from the same snapshot:
\* each currency of the row's round shows that very row, and no currency shows
\* a row that was rolled back (market_price_handle.go:239-252).
FiatMatchesMarket ==
    \A s \in Symbols : \A c \in Currencies :
        /\ smc[s][c] <= market[s].id
        /\ s \in Convertible /\ c \in market[s].curr => smc[s][c] = market[s].id

\* The prices of a pair never go back in time from one row of its symbol to
\* the next, over expiries, crashes and restarts of either process.
NoOlderThan(old, new) ==
    \A r \in old.parts, q \in new.parts :
        r.pair = q.pair => \A f \in Fields : r.read[f].gen <= q.read[f].gen
RowsNeverGoBack == [][\A s \in Symbols : NoOlderThan(market[s], market'[s])]_vars

\* The feed behaves as MarketBoard.  Over all rows of a symbol, those that lack
\* the pair for a while included, no price goes back behind one already shown
\* and none is of a book nobody fetched; and a transaction that breaks off
\* between its statements publishes nothing (market_price_handle.go:133-252,
\* fetch_orderbook.go:92-135).
Board == INSTANCE MarketBoard WITH
            book <- fetched, latest <- [s \in Symbols |-> market[s].id], fiat <- smc
ImplementsMarketBoard == Board!Spec
=============================================================================
