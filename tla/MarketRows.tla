----------------------------- MODULE MarketRows -----------------------------
(***************************************************************************)
(* What the worker writes into symbol_market and symbol_market_currency,   *)
(* and what a client is told who looks one symbol up.  A round of          *)
(* onPriceData has the prices of some symbols, asks CoinMarketCap once for *)
(* all their base coins and then, symbol by symbol, looks up the first row *)
(* of the UTC day, takes the time, and commits a row with the change       *)
(* against that first row.  The two lookups are operators on the tables.   *)
(*                                                                         *)
(* `now' counts half seconds, since the columns are TIMESTAMP(0) and round *)
(* to whole ones.  The driver writes the wall clock of the process' time   *)
(* zone, while the day begins in UTC: `zone' is the difference.  Assumed:  *)
(* the clock never goes back and the zone never changes.  A clock that is  *)
(* set back, or a zone that leaves summer time, gives a later row an       *)
(* earlier stamp; neither is modelled, and OneBasePerDay, the rule about   *)
(* midnight and LookupsNeverGoBack need the assumption.                    *)
(* Amounts are counted in halves, changes in hundredths.  A row is named   *)
(* by its place in `rows'; its guid, which orders the rows of one second,  *)
(* is a UUID that begins with the low bits of the time, so any order is    *)
(* open.                                                                   *)
(***************************************************************************)
EXTENDS Integers, Sequences

CONSTANTS
    Symbols,      \* symbol rows, as numbers: the order of their guids
    CoinOf,       \* asset symbol of the base asset, or NoCoin
    NoCoin,       \* a base asset that is not in the asset table
    Convertible,  \* symbols whose quote asset supportsFiatConversion
    Currencies,   \* fiat currency rows
    PricesOf,     \* aggregated prices Redis can deliver for a symbol
    Amounts,      \* market caps CoinMarketCap can deliver, in halves; the
                  \* volume of a day goes the same way
    UintLimit,    \* the first amount a UINT256 cannot hold: 2^256, in halves
    Day,          \* length of a day in seconds (86400 in the code)
    Zones,        \* local time minus UTC, in seconds
    MaxTime,      \* bound: the clock stops here
    MaxRows       \* bound: rows of symbol_market

ASSUME MarketRowsAssumption ==
    /\ Symbols \subseteq Nat /\ Convertible \subseteq Symbols
    /\ PricesOf \in [Symbols -> SUBSET Nat] /\ Amounts \subseteq Int /\ Zones \subseteq Int
    /\ UintLimit \in Nat \ {0}
    /\ Day \in Nat \ {0} /\ MaxTime \in Nat /\ MaxRows \in Nat

VARIABLES
    now,     \* wall clock
    zone,    \* of the worker process
    rows,    \* symbol_market in the order of the commits
    fiat,    \* symbol_market_currency: the row each fiat price was made from
    pc,      \* worker: "idle", "quotes" or "store"
    from,    \* worker: rows there were when the round began
    priced,  \* worker: price of each symbol aggregated in this round
    curr,    \* worker: currencies loaded when the round began
    quotes,  \* worker: cmcQuotes
    todo,    \* worker: symbols still to store
    held     \* worker: what calcRate found for the symbol at hand, at most one

work   == <<from, priced, curr, quotes, todo, held>>
tables == <<rows, fiat>>
vars   == <<now, zone, tables, pc, work>>

\* A rate of change, in hundredths.
Rate == -100 .. 1000

\* What is written for a market cap: a whole number.
Whole == {a \in Nat : a % 2 = 0}

Row == [sym : Symbols, at : Int, price : Nat, change : Rate,
        cap : Whole, day : Nat, base : Nat, curr : SUBSET Currencies]

Finding == [day : Nat, base : Nat, change : Rate]

Nothing == [s \in {} |-> 0]

Init ==
    /\ now = 0 /\ zone \in Zones
    /\ rows = <<>> /\ fiat = [s \in Symbols |-> [c \in Currencies |-> 0]]
    /\ pc = "idle" /\ from = 0 /\ priced = Nothing /\ curr = {} /\ quotes = Nothing
    /\ todo = {} /\ held = {}

-----------------------------------------------------------------------------
(* Time.                                                                   *)

\* time.Now() as TIMESTAMP(0) keeps it.
Stamp(t) == (t + 1) \div 2 + zone

\* The UTC day of a reading of the clock, and the second a day begins at.
DayOf(t)    == t \div (2 * Day)
Midnight(d) == d * Day

\* Faulty variant: the last day and a half instead of the calendar day.
TodayRolling(s, t) ==
    {i \in DOMAIN rows : rows[i].sym = s /\ 2 * rows[i].at > t - 3 * Day}

\* WHERE symbol_guid = ? AND created_at > ?
Today(s, t) == {i \in DOMAIN rows : rows[i].sym = s /\ rows[i].at > Midnight(DayOf(t))}

\* Faulty variant: ORDER BY created_at DESC.
NewestIn(S) == {i \in S : \A j \in S : rows[j].at <= rows[i].at}

\* ORDER BY created_at, guid.
FirstIn(S) == {i \in S : \A j \in S : rows[i].at <= rows[j].at}

-----------------------------------------------------------------------------
(* CoinMarketCap and the change of a row.                                  *)

\* uniqueSymbols: the coins of the symbols of this round, once each.
Coins == {CoinOf[s] : s \in DOMAIN priced} \ {NoCoin}

\* decimalToUintString: whole units, nothing below zero, no bound above.
Uint(a) == IF a <= 0 THEN 0 ELSE 2 * (a \div 2)

\* What the answer can hold for a coin: an object or a list with a quote, an
\* empty list or no quote in the currency asked for, or neither form.
Entry == [kind : {"quote"}, amount : Amounts]
    \cup [kind : {"none", "malformed"}, amount : {0}]

\* FetchQuotes: one entry that cannot be read, or none at all, makes the whole
\* request an error, which counts as no quotes.
Parsed(data) ==
    IF DOMAIN data = {} \/ \E c \in DOMAIN data : data[c].kind = "malformed" THEN Nothing
    ELSE [c \in {d \in DOMAIN data : data[d].kind = "quote"} |-> Uint(data[c].amount)]

\* Faulty variant: the constraint is left to the database.
ClampNot(r) == r

\* clampRate.
Clamp(r) == IF r < -100 THEN -100 ELSE IF r > 1000 THEN 1000 ELSE r

\* calculateRate, rounded to two digits; without a base there is no change.
Change(price, first) ==
    IF first = 0 THEN 0 ELSE Clamp((200 * (price - first) + first) \div (2 * first))

\* The domain UINT256.
Uint256 == {a \in Whole : a < UintLimit}

\* The CHECK constraints of symbol_market.
Accepted(row) ==
    /\ row.price >= 0
    /\ row.change \in Rate
    /\ row.cap \in Uint256

-----------------------------------------------------------------------------
(* The worker: onPriceData.                                                *)

\* The lists are loaded, with the currencies that are switched on; the prices
\* are read and aggregated.
RoundStart ==
    /\ pc = "idle"
    /\ \E P \in SUBSET Symbols : \E f \in [P -> UNION {PricesOf[s] : s \in P}] :
          /\ \A s \in P : f[s] \in PricesOf[s]
          /\ priced' = f /\ todo' = P
    /\ pc' = "quotes" /\ from' = Len(rows) /\ curr' \in SUBSET Currencies
    /\ UNCHANGED <<now, zone, tables, quotes, held>>

\* Faulty variant: without quotes the round is over.
FetchQuotesOrNothing ==
    /\ pc = "quotes"
    /\ \E D \in SUBSET Coins : \E data \in [D -> Entry] :
          quotes' = Parsed(data) /\ todo' = IF Parsed(data) = Nothing THEN {} ELSE todo
    /\ pc' = "store"
    /\ UNCHANGED <<now, zone, tables, from, priced, curr, held>>

\* One request for all coins, answered for some of them; none when it fails.
FetchQuotes ==
    /\ pc = "quotes"
    /\ \E D \in SUBSET Coins : \E data \in [D -> Entry] : quotes' = Parsed(data)
    /\ pc' = "store"
    /\ UNCHANGED <<now, zone, tables, from, priced, curr, todo, held>>

\* Symbols are stored in the order of their guids.
Next1st(s) == s \in todo /\ \A t \in todo : s <= t

Found(s, t, b) ==
    [day |-> DayOf(t), base |-> b,
     change |-> IF b = 0 THEN 0 ELSE Change(priced[s], rows[b].price)]

\* calcRate: the first row of the day it is now.  No row yet, or a query that
\* fails, is a change of 0.
CalcRate(s) ==
    /\ pc = "store" /\ held = {} /\ Next1st(s)
    /\ \E b \in FirstIn(Today(s, now)) \cup {0} : held' = {Found(s, now, b)}
    /\ UNCHANGED <<now, zone, tables, pc, from, priced, curr, quotes, todo>>

\* The row: stamped with a later reading of the clock than calcRate used.
NewRow(s, h) ==
    [sym |-> s, at |-> Stamp(now), price |-> priced[s], change |-> h.change,
     cap |-> IF CoinOf[s] \in DOMAIN quotes THEN quotes[CoinOf[s]] ELSE 0,
     day |-> h.day, base |-> h.base,
     curr |-> IF s \in Convertible THEN curr ELSE {}]

\* Faulty variant: the fiat prices are left to the next round.
CommitRowOnly(s, row) ==
    /\ rows' = Append(rows, row)
    /\ UNCHANGED fiat

\* What the transaction of one symbol commits: the row, and for every currency
\* of the round the fiat price, inserted or overwritten.
CommitRow(s, row) ==
    /\ rows' = Append(rows, row)
    /\ fiat' = [fiat EXCEPT ![s] =
                  [c \in Currencies |->
                     IF c \in row.curr THEN Len(rows) + 1 ELSE @[c]]]

RoundOver ==
    /\ pc' = "idle" /\ from' = 0 /\ priced' = Nothing /\ curr' = {} /\ quotes' = Nothing
    /\ todo' = {} /\ held' = {}

\* The database refuses the row: the round returns the error and the loop is
\* gone, so the next round is that of a process started again.
RowRefused == RoundOver /\ UNCHANGED tables

StoreRow(s) ==
    /\ pc = "store" /\ Next1st(s) /\ Len(rows) < MaxRows
    /\ \E h \in held :
          IF Accepted(NewRow(s, h))
          THEN /\ CommitRow(s, NewRow(s, h))
               /\ todo' = todo \ {s} /\ held' = {}
               /\ UNCHANGED <<pc, from, priced, curr, quotes>>
          ELSE RowRefused
    /\ UNCHANGED <<now, zone>>

RoundEnd ==
    /\ pc = "store" /\ todo = {}
    /\ RoundOver
    /\ UNCHANGED <<now, zone, tables>>

\* A query or a transaction fails and the loop is gone, or the process is
\* killed; a COMMIT may have gone through.
WorkerFails ==
    /\ pc # "idle" /\ RoundOver
    /\ \/ UNCHANGED tables
       \/ /\ pc = "store" /\ Len(rows) < MaxRows
          /\ \E s \in todo, h \in held :
                /\ Next1st(s)
                /\ Accepted(NewRow(s, h)) /\ CommitRow(s, NewRow(s, h))
    /\ UNCHANGED <<now, zone>>

Worker ==
    \/ RoundStart \/ FetchQuotes \/ RoundEnd \/ WorkerFails
    \/ \E s \in Symbols : CalcRate(s) \/ StoreRow(s)

-----------------------------------------------------------------------------
(* The lookups of both front ends.  0 stands for an answer of 404.         *)

RowsOf(s) == {i \in DOMAIN rows : rows[i].sym = s}

\* ORDER BY updated_at DESC, created_at DESC, guid DESC.
LastIn(S) == {i \in S : \A j \in S : rows[j].at <= rows[i].at}

\* GetSymbolMarket: a newest row.
GetSymbolMarket(s) == IF RowsOf(s) = {} THEN {0} ELSE LastIn(RowsOf(s))

\* GetSymbolMarketCurrency: the one row of the symbol and the currency; that
\* the currency has been switched off is not in it.
GetSymbolMarketCurrency(s, k) == fiat[s][k]

-----------------------------------------------------------------------------
Tick ==
    /\ now < MaxTime
    /\ now' = now + 1
    /\ UNCHANGED <<zone, tables, pc, work>>

Next == Worker \/ Tick

Spec == Init /\ [][Next]_vars

-----------------------------------------------------------------------------
(* Properties                                                              *)

TypeOK ==
    /\ now \in Nat /\ zone \in Zones
    /\ rows \in Seq(Row)
    /\ fiat \in [Symbols -> [Currencies -> 0 .. Len(rows)]]
    /\ pc \in {"idle", "quotes", "store"}
    /\ from \in 0 .. Len(rows)
    /\ DOMAIN priced \subseteq Symbols
    /\ \A s \in DOMAIN priced : priced[s] \in PricesOf[s]
    /\ curr \in SUBSET Currencies
    /\ \A c \in DOMAIN quotes : quotes[c] \in Whole
    /\ todo \subseteq DOMAIN priced
    /\ held \in SUBSET Finding

\* However far a price moves in a day and whatever else CoinMarketCap answers,
\* the database refuses a row, which ends the loop, only for an amount that
\* does not fit UINT256, of which the client passes on any
\* (market_price_handle.go:456-468, cmc_client.go:189-196,
\* 2026032500001.sql:11).
RefusedOnlyForItsCap ==
    [][\A s \in Symbols : \A h \in held :
          StoreRow(s) /\ UNCHANGED rows => NewRow(s, h).cap >= UintLimit]_vars

\* All rows whose change was calculated on one day, and that had a base, are
\* measured against rows of one and the same second: nothing that is written
\* later, by however many restarted workers, takes the place of the day's
\* first row, in any time zone, except within its second, where the order of
\* the guids decides (symbol_market.go:110-128).
OneBasePerDay ==
    \A i, j \in DOMAIN rows :
        /\ rows[i].sym = rows[j].sym /\ rows[i].day = rows[j].day
        /\ rows[i].base # 0 /\ rows[j].base # 0
        => rows[rows[i].base].at = rows[rows[j].base].at

\* In a worker that runs in UTC, a row is measured against a row of an earlier
\* day only when midnight passed between calcRate and its stamp, and then no
\* older row is one its own day's lookups would find
\* (market_price_handle.go:208-211).
StrayOnlyOverMidnight ==
    zone = 0 => \A i \in DOMAIN rows :
        LET day == rows[i].at \div Day
        IN  rows[i].base # 0 /\ rows[rows[i].base].at \div Day < day =>
              \A j \in 1 .. i - 1 :
                  rows[j].sym = rows[i].sym => rows[j].at <= Midnight(day)

\* A request to CoinMarketCap that fails, or an answer that lacks a coin or
\* cannot be read, costs no symbol its row; an answer whose amount the
\* database refuses ends the whole round, as RowRefused says
\* (market_price_handle.go:199-201, 213-217).
QuotesCostNoRow ==
    pc = "store" =>
        \A s \in DOMAIN priced \ todo :
            \E i \in DOMAIN rows : i > from /\ rows[i].sym = s

\* A client that goes back and forth between the two lookups never sees the
\* time go back and never loses what it had found: a market row is not older
\* than any answer before it, and a fiat price not older than the market row
\* before it, unless its currency was not in use for that row, whose last
\* price stays (symbol_market.go:92-108, symbol_market_currency.go:97-116,
\* market_price_handle.go:239-252).
LookupsNeverGoBack ==
    [][\A s \in Symbols :
        LET NotOlder(j, i) == i # 0 => j # 0 /\ rows'[j].at >= rows[i].at
        IN  /\ \A j \in GetSymbolMarket(s)' :
                  /\ \A i \in GetSymbolMarket(s) : NotOlder(j, i)
                  /\ \A k \in Currencies : NotOlder(j, GetSymbolMarketCurrency(s, k))
            /\ \A k \in Currencies, i \in GetSymbolMarket(s) \ {0} :
                  k \in rows[i].curr => NotOlder(GetSymbolMarketCurrency(s, k)', i)]_vars
=============================================================================
