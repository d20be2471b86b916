----------------------------- MODULE FiatRates -----------------------------
(***************************************************************************)
(* The fiat rate loop of the crawler: ExchangeRateWorker.FetchAndStoreRates*)
(* A round loads the active currency rows, asks every platform at once in  *)
(* a goroutine of its own, takes the results from a channel in the order   *)
(* they arrive, and stores each rate by itself: an UPDATE of the row with  *)
(* the currency's guid, an INSERT when there is none.  With no active row  *)
(* at all the round takes every currency the platforms offer ("bootstrap").*)
(*                                                                         *)
(* A row's guid is its position in `rows'; a rate is represented by the    *)
(* round that fetched it.  Names and spreads are left out.                 *)
(***************************************************************************)
EXTENDS Naturals, Sequences, FiniteSets

CONSTANTS
    Platforms,   \* exchange rate platforms that may be configured
    Codes,       \* currency codes the platforms can offer
    MaxRounds,   \* bound: rounds
    MaxTable     \* bound: rows of the currency table

ASSUME FiatAssumption ==
    /\ IsFiniteSet(Platforms) /\ IsFiniteSet(Codes)
    /\ MaxRounds \in Nat /\ MaxTable \in Nat

VARIABLES
    platforms, \* those that are configured
    rows,      \* the currency table
    pc,        \* "idle" or "round"
    batch,     \* number of the round: its batchTimestamp
    known,     \* currencyMap: the row loaded for each active code
    fetching,  \* platforms whose goroutine has not finished
    chan,      \* rateChan
    cur        \* rates of the result in hand that are not stored yet

vars == <<platforms, rows, pc, batch, known, fetching, chan, cur>>

Row    == [code : Codes, born : Nat, at : Nat, fetched : Nat, active : BOOLEAN]
Result == [ok : BOOLEAN, rates : SUBSET Codes, of : Nat]
NoCur  == [ok |-> TRUE, rates |-> {}, of |-> 0]

Init ==
    /\ platforms \in (SUBSET Platforms) \ {{}}
    /\ rows = <<>>
    /\ pc = "idle" /\ batch = 0
    /\ known = [c \in {} |-> 0]
    /\ fetching = {} /\ chan = <<>> /\ cur = NoCur

\* QueryActiveCurrency and the map by code: the first row listed for a code
\* wins, and the query has no order.  When the query fails the round is over.
RoundStart ==
    /\ pc = "idle" /\ batch < MaxRounds
    /\ LET listed == {g \in DOMAIN rows : rows[g].active}
       IN  \E m \in [{rows[g].code : g \in listed} -> listed] :
               /\ \A c \in DOMAIN m : rows[m[c]].code = c
               /\ known' = m
    /\ pc' = "round" /\ batch' = batch + 1 /\ fetching' = platforms
    /\ UNCHANGED <<platforms, rows, chan, cur>>

\* exchangeRateAPIResponseParser: every offered rate when no currency was
\* asked for, otherwise those asked for.
Parsed(offered) ==
    IF DOMAIN known = {} THEN offered ELSE offered \cap DOMAIN known

\* What a platform may answer: a failure, or a non-empty offer.
Answer ==
    {[ok |-> FALSE, rates |-> {}, of |-> batch]} \cup
    {[ok |-> TRUE, rates |-> Parsed(offered), of |-> batch] :
        offered \in (SUBSET Codes) \ {{}}}

\* Faulty variant: a platform that fails never calls wg.Done.
DeliverNoDone(p) ==
    /\ p \in fetching
    /\ \E r \in Answer :
        /\ chan' = Append(chan, r)
        /\ fetching' = IF r.ok THEN fetching \ {p} ELSE fetching
    /\ Len(chan) < 3
    /\ UNCHANGED <<platforms, rows, pc, batch, known, cur>>

\* fetchRatesFromProvider: the channel has room for every platform.
Deliver(p) ==
    /\ p \in fetching
    /\ \E r \in Answer : chan' = Append(chan, r)
    /\ fetching' = fetching \ {p}
    /\ UNCHANGED <<platforms, rows, pc, batch, known, cur>>

\* The consumer's loop: next result; a failed one holds nothing to store.
Take ==
    /\ pc = "round" /\ cur.rates = {} /\ chan # <<>>
    /\ cur' = Head(chan) /\ chan' = Tail(chan)
    /\ UNCHANGED <<platforms, rows, pc, batch, known, fetching>>

\* The row storeRates writes: always active for a code it loaded as active or
\* did not know.
Fresh(c, born) ==
    [code |-> c, born |-> born, at |-> batch, fetched |-> cur.of, active |-> TRUE]

\* Faulty variant: UPDATE ... WHERE currency_code instead of the guid.
WriteByCode(c) ==
    IF c \in DOMAIN known
    THEN rows' = [g \in DOMAIN rows |->
                    IF rows[g].code = c THEN Fresh(c, rows[g].born) ELSE rows[g]]
    ELSE Len(rows) < MaxTable /\ rows' = Append(rows, Fresh(c, batch))

\* Faulty variant: the loaded guid is not reused.
WriteNew(c) ==
    Len(rows) < MaxTable /\ rows' = Append(rows, Fresh(c, batch))

\* StoreCurrency: a known code updates its row, an unknown one is inserted
\* under a new guid; the map of known codes is not extended.
Write(c) ==
    IF c \in DOMAIN known
    THEN rows' = [rows EXCEPT ![known[c]] = Fresh(c, @.born)]
    ELSE Len(rows) < MaxTable /\ rows' = Append(rows, Fresh(c, batch))

\* One rate of the result in hand, in no particular order.  A failed write is
\* logged and the next rate is tried.
Store(c) ==
    /\ pc = "round" /\ c \in cur.rates
    /\ Write(c) \/ UNCHANGED rows
    /\ cur' = [cur EXCEPT !.rates = @ \ {c}]
    /\ UNCHANGED <<platforms, pc, batch, known, fetching, chan>>

\* Faulty variant: the round ends when the channel is empty for a moment.
RoundEndEarly ==
    /\ pc = "round" /\ cur.rates = {} /\ chan = <<>>
    /\ pc' = "idle" /\ known' = [c \in {} |-> 0] /\ cur' = NoCur
    /\ UNCHANGED <<platforms, rows, batch, fetching, chan>>

\* Every goroutine is done, the channel is closed and drained.
RoundEnd ==
    /\ pc = "round" /\ cur.rates = {} /\ chan = <<>> /\ fetching = {}
    /\ pc' = "idle" /\ known' = [c \in {} |-> 0] /\ cur' = NoCur
    /\ UNCHANGED <<platforms, rows, batch, fetching, chan>>

\* The process is killed and started again.
Crash ==
    /\ pc = "round"
    /\ pc' = "idle" /\ known' = [c \in {} |-> 0] /\ cur' = NoCur
    /\ fetching' = {} /\ chan' = <<>>
    /\ UNCHANGED <<platforms, rows, batch>>

\* An operator switches a currency on or off in the table.
Toggle(g) ==
    /\ rows' = [rows EXCEPT ![g].active = ~@]
    /\ UNCHANGED <<platforms, pc, batch, known, fetching, chan, cur>>

StoreSome == \E c \in Codes : Store(c)

Next ==
    \/ RoundStart \/ Take \/ StoreSome \/ RoundEnd \/ Crash
    \/ \E p \in Platforms : Deliver(p)
    \/ \E g \in DOMAIN rows : Toggle(g)

Spec == Init /\ [][Next]_vars

\* The requests have a timeout of 10 s, the writes come back, and the loop's
\* goroutine runs when it can.
FairSpec ==
    /\ Spec /\ WF_vars(Take) /\ WF_vars(StoreSome) /\ WF_vars(RoundEnd)
    /\ \A p \in Platforms : WF_vars(Deliver(p))

-----------------------------------------------------------------------------
(* Properties                                                              *)

\* Types; a result is only in hand or under way while its round runs.
TypeOK ==
    /\ platforms \subseteq Platforms
    /\ rows \in Seq(Row)
    /\ pc \in {"idle", "round"}
    /\ batch \in Nat
    /\ DOMAIN known \subseteq Codes
    /\ \A c \in DOMAIN known : known[c] \in DOMAIN rows /\ rows[known[c]].code = c
    /\ fetching \subseteq platforms
    /\ chan \in Seq(Result)
    /\ cur \in Result
    /\ pc = "idle" => fetching = {} /\ chan = <<>> /\ cur = NoCur

\* A rate is stored under the time of the round that fetched it: no answer
\* outlives its round, however late it comes (fiatcurrency_client.go:208-251).
RateOfItsRound == \A g \in DOMAIN rows : rows[g].fetched = rows[g].at

\* Rows are only added by a round that found no active currency at all, so a
\* code that is quoted gets no second row from a normal round
\* (fiatcurrency_client.go:196-206, 277-298, 342-351).
OnlyBootstrapInserts == [][Len(rows') > Len(rows) => DOMAIN known = {}]_vars

\* A round writes no row but those it had loaded as active: neither a row that
\* was switched off before the round nor the twin of a code
\* (fiatcurrency_client.go:277-289, currency.go:112).
OnlyLoadedRowsChange ==
    [][\A g \in DOMAIN rows :
        rows'[g].at # rows[g].at => \E c \in DOMAIN known : known[c] = g]_vars

\* The steps a round has ahead of it at most, when every answer still to come
\* offers every code.
WorkLeft ==
    LET codes == Cardinality(Codes)
    IN  Cardinality(fetching) * (codes + 2) + Len(chan) * (codes + 1)
            + Cardinality(cur.rates)

\* Whatever a round does brings it nearer to its end: each platform answers
\* once, each answer is taken once, each rate is tried once, and the edits of
\* other users add nothing (fiatcurrency_client.go:208-251, 276-318).
RoundGetsShorter ==
    [][pc = "round" /\ pc' = "round" /\ <<fetching, chan, cur>>' # <<fetching, chan, cur>>
        => WorkLeft' < WorkLeft]_vars

\* Every round comes to an end, whichever platforms fail
\* (fiatcurrency_client.go:208-251).
RoundCompletes == pc = "round" ~> pc = "idle"
=============================================================================
