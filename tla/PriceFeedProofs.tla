-------------------------- MODULE PriceFeedProofs --------------------------
(***************************************************************************)
(* Proofs about PriceFeed, for any pairs, symbols, currencies, lifetime    *)
(* and bounds.                                                             *)
(***************************************************************************)
EXTENDS PriceFeed, TLAPS

USE PriceFeedAssumption

(***************************************************************************)
(* Type correctness; with it, a record is always complete.                 *)
(***************************************************************************)

\* A record is appended by the third GET only, which needs what the first
\* two have read: the fields read so far are real quotes.
ReadSoFar ==
    /\ wpc \in {"ask", "bid"} => got["avg"] \in Quote
    /\ wpc = "bid" => got["ask"] \in Quote

TypeInv == TypeOK /\ ReadSoFar

LEMMA FieldFacts ==
    /\ Fields = {"avg", "ask", "bid"}
    /\ After["avg"] = "ask" /\ After["ask"] = "bid" /\ After["bid"] = "pick"
    /\ Nothing \in [Fields -> Entry]
    /\ Quote \subseteq Entry
  BY DEF Fields, After, Nothing, NoKey, Entry, Quote

LEMMA InitTypeInv == Init => TypeInv
  BY FieldFacts DEF Init, TypeInv, TypeOK, ReadSoFar, Entry, NoKey, Row

\* What a commit leaves in the tables is well typed.
LEMMA CommitTypes ==
  ASSUME TypeOK, NEW s \in Symbols, CommitSymbol(s)
  PROVE  /\ market' \in [Symbols -> Row]
         /\ smc' \in [Symbols -> [Currencies -> Nat]]
         /\ shown' \in [Fields -> [Pairs -> Nat]]
<1>1. PartsOf(s) \in SUBSET Record
  BY DEF TypeOK, PartsOf
<1>2. [id |-> market[s].id + 1, parts |-> PartsOf(s), curr |-> curr] \in Row
  BY <1>1 DEF TypeOK, Row
<1>3. FiatRow(s) \in [Currencies -> Nat]
  BY DEF FiatRow, TypeOK, Row
<1>4. shown' \in [Fields -> [Pairs -> Nat]]
  <2>1. \A r \in Record, f \in Fields : r.read[f].gen \in Nat
    BY DEF Record, Quote
  <2>2. ASSUME NEW f \in Fields, NEW p \in Pairs
        PROVE  (IF \E r \in PartsOf(s) : r.pair = p
                THEN (CHOOSE r \in PartsOf(s) : r.pair = p).read[f].gen
                ELSE shown[f][p]) \in Nat
    BY <1>1, <2>1 DEF TypeOK
  <2> QED
    BY <2>2 DEF CommitSymbol, ShownBy
<1>5. QED
  BY <1>2, <1>3, <1>4 DEF CommitSymbol, TypeOK

\* The second statement runs in a transaction that needs it.
LEMMA CommitEffect ==
  ASSUME NEW s \in Symbols, CommitSymbol(s)
  PROVE  /\ market' = [market EXCEPT ![s] =
                        [id |-> @.id + 1, parts |-> PartsOf(s), curr |-> curr]]
         /\ smc' = IF s \in Convertible /\ curr # {}
                   THEN [smc EXCEPT ![s] = FiatRow(s)] ELSE smc
         /\ shown' = ShownBy(PartsOf(s))
  BY DEF CommitSymbol, Statements

LEMMA TypeStep == TypeInv /\ [Next]_vars => TypeInv'
<1> SUFFICES ASSUME TypeOK, ReadSoFar, [Next]_vars
             PROVE  TypeOK' /\ ReadSoFar'
  BY DEF TypeInv
<1> USE FieldFacts
<1>1. CASE Feed
  <2>1. CASE FeedTick
    BY <2>1 DEF FeedTick, workVars, tables, TypeOK, ReadSoFar
  <2>2. CASE FeedRoundEnd
    BY <2>2 DEF FeedRoundEnd, workVars, tables, TypeOK, ReadSoFar
  <2>3. CASE StoreQuote
    BY <2>3 DEF StoreQuote, WriteQuote, workVars, tables, TypeOK, ReadSoFar
  <2>4. CASE FeedAbort
    <3>1. exSymbol' \in [Pairs -> Nat]
      BY <2>4 DEF FeedAbort, WriteQuote, TypeOK
    <3>2. redis' \in [Fields -> [Pairs -> Entry]]
      <4>1. CASE UNCHANGED redis
        BY <4>1 DEF TypeOK
      <4>2. ASSUME NEW f \in Fields, WriteKey(f)
            PROVE  redis' \in [Fields -> [Pairs -> Entry]]
        BY <4>2 DEF WriteKey, Entry, TypeOK
      <4>3. QED
        BY <2>4, <4>1, <4>2 DEF FeedAbort
    <3>3. aborts' \in [Pairs -> Nat]
      BY <2>4 DEF FeedAbort, TypeOK
    <3>4. QED
      BY <2>4, <3>1, <3>2, <3>3 DEF FeedAbort, workVars, TypeOK, ReadSoFar, tables
  <2>5. CASE FeedRestart
    BY <2>5 DEF FeedRestart, workVars, tables, TypeOK, ReadSoFar
  <2>6. ASSUME NEW p \in Pairs, FeedFetch(p)
        PROVE  TypeOK' /\ ReadSoFar'
    BY <2>6 DEF FeedFetch, workVars, tables, TypeOK, ReadSoFar
  <2>7. ASSUME NEW p \in Pairs, FeedSkip(p)
        PROVE  TypeOK' /\ ReadSoFar'
    BY <2>7 DEF FeedSkip, workVars, tables, TypeOK, ReadSoFar
  <2>8. ASSUME NEW f \in Fields, SetKey(f)
        PROVE  TypeOK' /\ ReadSoFar'
    BY <2>8 DEF SetKey, WriteKey, Entry, workVars, tables, TypeOK, ReadSoFar
  <2>9. QED
    BY <1>1, <2>1, <2>2, <2>3, <2>4, <2>5, <2>6, <2>7, <2>8 DEF Feed
<1>2. CASE Work
  <2>1. CASE WorkTick
    BY <2>1 DEF WorkTick, feedVars, tables, TypeOK, ReadSoFar
  <2>2. CASE SkipPair
    BY <2>2 DEF SkipPair, feedVars, tables, TypeOK, ReadSoFar
  <2>3. CASE Aggregate
    BY <2>3 DEF Aggregate, Record, feedVars, tables, TypeOK, ReadSoFar
  <2>4. CASE WorkRoundEnd
    BY <2>4 DEF WorkRoundEnd, feedVars, tables, TypeOK, ReadSoFar
  <2>5. CASE WorkAbort
    <3>1. /\ market' \in [Symbols -> Row]
          /\ smc' \in [Symbols -> [Currencies -> Nat]]
          /\ shown' \in [Fields -> [Pairs -> Nat]]
      BY <2>5, CommitTypes DEF WorkAbort, tables, TypeOK
    <3>2. QED
      BY <2>5, <3>1 DEF WorkAbort, feedVars, TypeOK, ReadSoFar
  <2>6. CASE WorkRestart
    BY <2>6 DEF WorkRestart, feedVars, tables, TypeOK, ReadSoFar
  <2>7. ASSUME NEW p \in Pairs, WorkPick(p)
        PROVE  TypeOK' /\ ReadSoFar'
    BY <2>7 DEF WorkPick, feedVars, tables, TypeOK, ReadSoFar
  <2>8. ASSUME NEW f \in Fields, ReadKey(f)
        PROVE  TypeOK' /\ ReadSoFar'
    <3>1. redis[f][wpair] \in Quote
      <4>1. redis[f][wpair] \in Entry
        <5>1. wpair \in Pairs /\ redis \in [Fields -> [Pairs -> Entry]]
          BY DEF TypeOK
        <5>2. QED
          BY <5>1
      <4>2. redis[f][wpair].gen > 0
        BY <2>8 DEF ReadKey, Live
      <4> DEFINE e == redis[f][wpair]
      <4>3. e = [gen |-> e.gen, at |-> e.at] /\ e.gen \in Nat /\ e.at \in Nat
        BY <4>1 DEF Entry
      <4>4. e.gen \in Nat \ {0}
        BY <4>2, <4>3
      <4> HIDE DEF e
      <4>5. [gen |-> e.gen, at |-> e.at] \in Quote
        BY <4>3, <4>4 DEF Quote
      <4>6. e \in Quote
        BY <4>3, <4>5
      <4>7. QED
        BY <4>6 DEF e
    <3> DEFINE read == [got EXCEPT ![f] = redis[f][wpair]]
    <3>2. read \in [Fields -> Entry] /\ read[f] \in Quote
      BY <3>1 DEF TypeOK
    <3>3. CASE f = "bid"
      <4>1. read["avg"] \in Quote /\ read["ask"] \in Quote
        BY <2>8, <3>3 DEF ReadKey, ReadSoFar, TypeOK
      <4>2. [pair |-> wpair, read |-> read] \in Record
        BY <3>2, <3>3, <4>1 DEF Record, TypeOK
      <4>3. /\ records' = records \cup {[pair |-> wpair, read |-> read]}
            /\ got' = Nothing /\ wpc' = "pick"
        BY <2>8, <3>3 DEF ReadKey
      <4>4. QED
        BY <2>8, <4>2, <4>3 DEF ReadKey, feedVars, tables, TypeOK, ReadSoFar
    <3>4. CASE f # "bid"
      <4>1. got' = read /\ records' = records /\ wpc' = After[f] /\ wpc = f
        BY <2>8, <3>4 DEF ReadKey
      <4>2. ReadSoFar'
        BY <3>2, <3>4, <4>1 DEF ReadSoFar, TypeOK
      <4>3. QED
        BY <2>8, <3>2, <3>4, <4>1, <4>2 DEF ReadKey, feedVars, tables, TypeOK
    <3>5. QED
      BY <3>3, <3>4
  <2>9. ASSUME NEW s \in Symbols, StoreSymbol(s)
        PROVE  TypeOK' /\ ReadSoFar'
    <3>1. /\ market' \in [Symbols -> Row]
          /\ smc' \in [Symbols -> [Currencies -> Nat]]
          /\ shown' \in [Fields -> [Pairs -> Nat]]
      BY <2>9, CommitTypes DEF StoreSymbol
    <3>2. QED
      BY <2>9, <3>1 DEF StoreSymbol, feedVars, TypeOK, ReadSoFar
  <2>10. ASSUME NEW s \in Symbols, InsertRow(s) \/ UpsertFiat(s)
         PROVE  TypeOK' /\ ReadSoFar'
    <3>1. tx' \in SUBSET {"symbol_market", "symbol_market_currency"}
      BY <2>10 DEF InsertRow, UpsertFiat, Statements
    <3>2. QED
      BY <2>10, <3>1 DEF InsertRow, UpsertFiat, feedVars, tables, TypeOK, ReadSoFar
  <2>11. QED
    BY <1>2, <2>1, <2>2, <2>3, <2>4, <2>5, <2>6, <2>7, <2>8, <2>9, <2>10 DEF Work
<1>3. CASE Tick
  BY <1>3 DEF Tick, feedVars, workVars, tables, TypeOK, ReadSoFar
<1>4. CASE UNCHANGED vars
  BY <1>4 DEF vars, feedVars, workVars, tables, TypeOK, ReadSoFar
<1>5. QED
  BY <1>1, <1>2, <1>3, <1>4 DEF Next

\* The state is always well typed, and every record that the aggregation
\* sees or a row is made of has its three fields read from live keys.
THEOREM TypeCorrect == Spec => []TypeOK
<1>1. TypeInv => TypeOK
  BY DEF TypeInv
<1>2. QED
  BY <1>1, InitTypeInv, TypeStep, PTL DEF Spec

-----------------------------------------------------------------------------
(***************************************************************************)
(* The crawler's side: how far the keys of a pair can be apart.            *)
(***************************************************************************)

\* Visits of p that are under way or were cut short.
Lag(p) == aborts[p] + (IF Visiting /\ fpair = p THEN 1 ELSE 0)

\* The keys already set in this visit show the fetched book, which is what
\* makes each further Set keep the order of the keys.
WrittenSoFar ==
    /\ fpc \in Fields => exSymbol[fpair] = fetched[fpair]
    /\ fpc \in {"ask", "bid"} => redis["avg"][fpair].gen = fetched[fpair]
    /\ fpc = "bid" => redis["ask"][fpair].gen = fetched[fpair]

KeysInv ==
    /\ KeysFollowTheBook
    /\ WrittenSoFar
    /\ \A p \in Pairs : fetched[p] <= redis["bid"][p].gen + Lag(p)
    /\ \A f \in Fields, p \in Pairs : redis[f][p].at <= now

\* The numbers a well typed feed is made of.
LEMMA FeedNat ==
  ASSUME TypeOK
  PROVE  /\ now \in Nat /\ fpair \in Pairs
         /\ \A p \in Pairs :
              /\ fetched[p] \in Nat /\ exSymbol[p] \in Nat /\ aborts[p] \in Nat
              /\ \A g \in Fields : redis[g][p].gen \in Nat /\ redis[g][p].at \in Nat
<1>1. \A g \in Fields, p \in Pairs : redis[g][p] \in Entry
  BY DEF TypeOK
<1>2. \A e \in Entry : e.gen \in Nat /\ e.at \in Nat
  BY DEF Entry
<1>3. QED
  BY <1>1, <1>2 DEF TypeOK

LEMMA InitKeys == Init => KeysInv
  BY FieldFacts DEF Init, KeysInv, KeysFollowTheBook, WrittenSoFar, Lag, NoKey

\* A Set of field f for the pair being visited, alone.
LEMMA SetKeepsKeys ==
  ASSUME TypeOK, KeysInv, NEW f \in Fields, fpc = f, WriteKey(f),
         UNCHANGED <<now, exSymbol, fetched>>
  PROVE  /\ KeysFollowTheBook'
         /\ \A g \in Fields, p \in Pairs : /\ redis'[g][p].at <= now'
                                          /\ redis[g][p].gen <= redis'[g][p].gen
         /\ redis'[f][fpair].gen = fetched[fpair]
         /\ \A g \in Fields, p \in Pairs :
              g # f \/ p # fpair => redis'[g][p] = redis[g][p]
<1> USE FieldFacts
<1>1. /\ fpair \in Pairs
      /\ redis'[f][fpair] = [gen |-> fetched[fpair], at |-> now]
      /\ \A g \in Fields, p \in Pairs :
            g # f \/ p # fpair => redis'[g][p] = redis[g][p]
  BY DEF WriteKey, TypeOK
<1>2. \A p \in Pairs : /\ fetched[p] \in Nat /\ exSymbol[p] \in Nat
                       /\ \A g \in Fields : redis[g][p].gen \in Nat /\ redis[g][p].at \in Nat
  BY FeedNat
<1>3. redis'[f][fpair].gen = fetched[fpair] /\ redis'[f][fpair].at = now
  BY <1>1
<1>4. now \in Nat
  BY DEF TypeOK
<1>5. KeysFollowTheBook'
  <2> SUFFICES ASSUME NEW p \in Pairs
               PROVE  /\ redis'["bid"][p].gen <= redis'["ask"][p].gen
                      /\ redis'["ask"][p].gen <= redis'["avg"][p].gen
                      /\ redis'["avg"][p].gen <= exSymbol'[p]
                      /\ exSymbol'[p] <= fetched'[p]
    BY DEF KeysFollowTheBook
  <2>1. CASE p # fpair
    BY <2>1, <1>1 DEF KeysInv, KeysFollowTheBook
  <2>2. CASE p = fpair
    BY <2>2, <1>1, <1>2, <1>3 DEF KeysInv, KeysFollowTheBook, WrittenSoFar
  <2>3. QED
    BY <2>1, <2>2
<1>6. \A g \in Fields, p \in Pairs : /\ redis'[g][p].at <= now'
                                   /\ redis[g][p].gen <= redis'[g][p].gen
  <2> SUFFICES ASSUME NEW g \in Fields, NEW p \in Pairs
               PROVE  redis'[g][p].at <= now' /\ redis[g][p].gen <= redis'[g][p].gen
    OBVIOUS
  <2>1. redis[g][p].gen <= fetched[p]
    BY <1>2 DEF KeysInv, KeysFollowTheBook
  <2>2. CASE g = f /\ p = fpair
    BY <2>1, <2>2, <1>3, <1>4
  <2>3. CASE g # f \/ p # fpair
    BY <2>3, <1>1, <1>2 DEF KeysInv
  <2>4. QED
    BY <2>2, <2>3
<1>7. QED
  BY <1>1, <1>3, <1>5, <1>6

\* Generations in Redis, the fetch counters and the abort counters only grow.
Growing ==
    /\ \A f \in Fields, p \in Pairs : redis[f][p].gen <= redis'[f][p].gen
    /\ \A p \in Pairs : aborts[p] <= aborts'[p]
    /\ now <= now'

LEMMA KeysStep == TypeOK /\ TypeOK' /\ KeysInv /\ [Next]_vars => KeysInv' /\ Growing
<1> SUFFICES ASSUME TypeOK, TypeOK', KeysInv, [Next]_vars
             PROVE  KeysInv' /\ Growing
  OBVIOUS
<1> USE FieldFacts
<1>1. /\ now \in Nat /\ fpair \in Pairs
      /\ \A p \in Pairs :
           /\ fetched[p] \in Nat /\ exSymbol[p] \in Nat /\ aborts[p] \in Nat
           /\ \A g \in Fields : redis[g][p].gen \in Nat /\ redis[g][p].at \in Nat
  BY FeedNat
<1>2. ASSUME UNCHANGED feedVars, now <= now', now' \in Nat
      PROVE  KeysInv' /\ Growing
  BY <1>1, <1>2 DEF feedVars, KeysInv, KeysFollowTheBook, WrittenSoFar, Lag,
                    Visiting, Growing
<1>3. CASE Feed
  <2>1. CASE FeedTick
    BY <1>1, <2>1 DEF FeedTick, KeysInv, KeysFollowTheBook, WrittenSoFar, Lag,
                      Visiting, Growing
  <2>2. CASE FeedRoundEnd
    BY <1>1, <2>2 DEF FeedRoundEnd, KeysInv, KeysFollowTheBook, WrittenSoFar,
                      Lag, Visiting, Growing
  <2>3. CASE StoreQuote
    <3>1. KeysFollowTheBook'
      BY <1>1, <2>3 DEF StoreQuote, WriteQuote, TypeOK, KeysInv, KeysFollowTheBook
    <3>2. WrittenSoFar'
      BY <1>1, <2>3 DEF StoreQuote, WriteQuote, TypeOK, WrittenSoFar
    <3>3. \A p \in Pairs : Lag(p)' = Lag(p)
      BY <2>3 DEF StoreQuote, Lag, Visiting
    <3>4. QED
      BY <1>1, <2>3, <3>1, <3>2, <3>3 DEF StoreQuote, KeysInv, Growing
  <2>4. CASE FeedAbort
    <3>1. /\ KeysFollowTheBook'
          /\ \A g \in Fields, p \in Pairs : /\ redis'[g][p].at <= now'
                                           /\ redis[g][p].gen <= redis'[g][p].gen
      <4>1. CASE UNCHANGED <<exSymbol, redis>>
        BY <1>1, <2>4, <4>1 DEF FeedAbort, KeysInv, KeysFollowTheBook
      <4>2. CASE fpc = "db" /\ WriteQuote /\ UNCHANGED redis
        BY <1>1, <2>4, <4>2 DEF FeedAbort, WriteQuote, TypeOK, KeysInv,
                                KeysFollowTheBook
      <4>3. ASSUME NEW f \in Fields, fpc = f, WriteKey(f), UNCHANGED exSymbol
            PROVE  /\ KeysFollowTheBook'
                   /\ \A g \in Fields, p \in Pairs :
                         /\ redis'[g][p].at <= now'
                         /\ redis[g][p].gen <= redis'[g][p].gen
        <5>1. UNCHANGED <<now, exSymbol, fetched>>
          BY <2>4, <4>3 DEF FeedAbort
        <5>2. QED
          BY <4>3, <5>1, SetKeepsKeys
      <4>4. QED
        BY <2>4, <4>1, <4>2, <4>3 DEF FeedAbort
    <3>2. WrittenSoFar'
      BY <2>4 DEF FeedAbort, WrittenSoFar
    <3>3. \A p \in Pairs : Lag(p)' = Lag(p) /\ Lag(p) \in Nat
      <4> SUFFICES ASSUME NEW p \in Pairs
                   PROVE  Lag(p)' = Lag(p) /\ Lag(p) \in Nat
        OBVIOUS
      <4>1. ~Visiting' /\ fpair' = fpair
        BY <2>4 DEF FeedAbort, Visiting
      <4>2. aborts'[p] = aborts[p] + (IF Visiting /\ fpair = p THEN 1 ELSE 0)
        BY <1>1, <2>4 DEF FeedAbort, TypeOK
      <4>3. QED
        BY <1>1, <4>1, <4>2 DEF Lag
    <3>4. \A p \in Pairs : fetched'[p] <= redis'["bid"][p].gen + Lag(p)'
      <4> SUFFICES ASSUME NEW p \in Pairs
                   PROVE  fetched'[p] <= redis'["bid"][p].gen + Lag(p)'
        OBVIOUS
      <4>1. fetched'[p] = fetched[p] /\ fetched[p] <= redis["bid"][p].gen + Lag(p)
        BY <2>4 DEF FeedAbort, KeysInv
      <4>2. redis'["bid"][p].gen \in Nat
        <5>1. redis' \in [Fields -> [Pairs -> Entry]]
          BY DEF TypeOK
        <5>2. redis'["bid"][p] \in Entry
          BY <5>1
        <5>3. QED
          BY <5>2 DEF Entry
      <4>3. QED
        BY <1>1, <3>1, <3>3, <4>1, <4>2
    <3>5. \A p \in Pairs : aborts[p] <= aborts'[p]
      BY <1>1, <2>4 DEF FeedAbort, TypeOK
    <3>6. QED
      BY <1>1, <2>4, <3>1, <3>2, <3>4, <3>5 DEF FeedAbort, KeysInv, Growing
  <2>5. CASE FeedRestart
    BY <1>1, <2>5 DEF FeedRestart, KeysInv, KeysFollowTheBook, WrittenSoFar,
                      Lag, Visiting, Growing
  <2>6. ASSUME NEW p \in Pairs, FeedFetch(p)
        PROVE  KeysInv' /\ Growing
    <3>1. /\ fetched'[p] = fetched[p] + 1
          /\ \A q \in Pairs : q # p => fetched'[q] = fetched[q]
          /\ Lag(p)' = Lag(p) + 1
          /\ \A q \in Pairs : q # p => Lag(q)' = Lag(q)
          /\ \A q \in Pairs : Lag(q) \in Nat
      BY <1>1, <2>6 DEF FeedFetch, Lag, Visiting, TypeOK
    <3>2. KeysFollowTheBook'
      BY <1>1, <2>6, <3>1 DEF FeedFetch, KeysInv, KeysFollowTheBook
    <3>3. \A q \in Pairs : fetched'[q] <= redis'["bid"][q].gen + Lag(q)'
      BY <1>1, <2>6, <3>1 DEF FeedFetch, KeysInv
    <3>4. QED
      BY <1>1, <2>6, <3>2, <3>3 DEF FeedFetch, KeysInv, WrittenSoFar, Growing
  <2>7. ASSUME NEW p \in Pairs, FeedSkip(p)
        PROVE  KeysInv' /\ Growing
    BY <1>1, <2>7 DEF FeedSkip, KeysInv, KeysFollowTheBook, WrittenSoFar, Lag,
                      Visiting, Growing
  <2>8. ASSUME NEW f \in Fields, SetKey(f)
        PROVE  KeysInv' /\ Growing
    <3>1. /\ UNCHANGED <<now, exSymbol, fetched, aborts, fpair>>
          /\ fpc = f /\ fpc' = After[f] /\ WriteKey(f)
      BY <2>8 DEF SetKey
    <3>2. /\ KeysFollowTheBook'
          /\ \A g \in Fields, p \in Pairs : /\ redis'[g][p].at <= now'
                                           /\ redis[g][p].gen <= redis'[g][p].gen
          /\ redis'[f][fpair].gen = fetched[fpair]
          /\ \A g \in Fields, p \in Pairs :
               g # f \/ p # fpair => redis'[g][p] = redis[g][p]
      BY <3>1, SetKeepsKeys
    <3>3. WrittenSoFar'
      BY <1>1, <3>1, <3>2 DEF KeysInv, WrittenSoFar
    <3>4. \A p \in Pairs : fetched'[p] <= redis'["bid"][p].gen + Lag(p)'
      <4> SUFFICES ASSUME NEW p \in Pairs
                   PROVE  fetched'[p] <= redis'["bid"][p].gen + Lag(p)'
        OBVIOUS
      <4>1. CASE p = fpair /\ f = "bid"
        <5>1. Lag(p)' = aborts[p]
          BY <1>1, <3>1, <4>1 DEF Lag, Visiting
        <5>2. redis'["bid"][p].gen = fetched[p] /\ fetched'[p] = fetched[p]
          BY <3>1, <3>2, <4>1
        <5>3. QED
          BY <1>1, <5>1, <5>2
      <4>2. CASE p # fpair \/ f # "bid"
        <5>1. Lag(p)' = Lag(p)
          BY <3>1, <4>2 DEF Lag, Visiting
        <5>2. QED
          BY <3>1, <3>2, <4>2, <5>1 DEF KeysInv
      <4>3. QED
        BY <4>1, <4>2
    <3>5. QED
      BY <1>1, <3>1, <3>2, <3>3, <3>4 DEF KeysInv, Growing
  <2>9. QED
    BY <1>3, <2>1, <2>2, <2>3, <2>4, <2>5, <2>6, <2>7, <2>8 DEF Feed
<1>4. CASE Work
  <2>1. UNCHANGED <<now, feedVars>>
    BY <1>4 DEF Work, WorkTick, SkipPair, Aggregate, WorkRoundEnd, WorkAbort,
                WorkRestart, WorkPick, ReadKey, InsertRow, UpsertFiat, StoreSymbol
  <2>2. QED
    BY <1>1, <1>2, <2>1
<1>5. CASE Tick
  BY <1>1, <1>2, <1>5 DEF Tick
<1>6. CASE UNCHANGED vars
  BY <1>1, <1>2, <1>6 DEF vars
<1>7. QED
  BY <1>3, <1>4, <1>5, <1>6 DEF Next

\* A reader of the four places a price is kept in (exchange_symbol and the
\* three keys) always finds a newer prefix and an older rest.
THEOREM KeysOrdered == Spec => []KeysFollowTheBook
<1>1. KeysInv => KeysFollowTheBook
  BY DEF KeysInv
<1>2. TypeOK /\ TypeOK' /\ KeysInv /\ [Next]_vars => KeysInv'
  BY KeysStep
<1>3. QED
  BY <1>1, <1>2, InitKeys, TypeCorrect, PTL DEF Spec

-----------------------------------------------------------------------------
(***************************************************************************)
(* The worker's side: what a record may mix.                               *)
(***************************************************************************)
TornReads ==
    /\ wpc \in {"ask", "bid"} =>
         /\ got["avg"].at <= now
         /\ \A f \in {"ask", "bid"} :
              got["avg"].gen <= redis[f][wpair].gen + 1 + aborts[wpair]
    /\ wpc = "bid" =>
         /\ got["avg"].gen <= got["ask"].gen + 1 + aborts[wpair]
         /\ got["avg"].at < got["ask"].at + TTL

TornInv == TornReads /\ TornByAtMostOne /\ TornWithinTTL

\* The bounds one record has to meet.
Torn(r) == \A f \in {"ask", "bid"} :
    /\ r.read["avg"].gen <= r.read[f].gen + 1 + aborts[r.pair]
    /\ r.read["avg"].at < r.read[f].at + TTL

LEMMA TornInvIs == TornInv <=> TornReads /\ \A r \in AllRecords : Torn(r)
  BY DEF TornInv, TornByAtMostOne, TornWithinTTL, Torn

LEMMA RecordFacts ==
  ASSUME TypeOK
  PROVE  /\ AllRecords \subseteq Record
         /\ \A r \in Record : /\ r.pair \in Pairs /\ r.read \in [Fields -> Quote]
                             /\ \A f \in Fields : r.read[f].gen \in Nat /\ r.read[f].at \in Nat
<1>1. \A s \in Symbols : market[s].parts \subseteq Record
  BY DEF TypeOK, Row
<1>2. \A q \in Quote : q.gen \in Nat /\ q.at \in Nat
  BY DEF Quote
<1>3. QED
  BY <1>1, <1>2 DEF TypeOK, AllRecords, Record

\* Every action of the worker but the last GET works on records it has.
LEMMA RecordsKept ==
  ASSUME TypeOK, NEW s \in Symbols,
         \/ UNCHANGED market
         \/ CommitSymbol(s),
         records' \subseteq records
  PROVE  AllRecords' \subseteq AllRecords
<1>1. PartsOf(s) \subseteq records
  BY DEF PartsOf
<1>2. \A t \in Symbols : market'[t].parts \subseteq AllRecords
  <2>1. CASE UNCHANGED market
    BY <2>1 DEF AllRecords
  <2>2. CASE CommitSymbol(s)
    <3>1. market'[s].parts = PartsOf(s)
      BY <2>2, CommitEffect DEF TypeOK
    <3>2. \A t \in Symbols : t # s => market'[t] = market[t]
      BY <2>2, CommitEffect DEF TypeOK
    <3>3. QED
      BY <1>1, <3>1, <3>2 DEF AllRecords
  <2>3. QED
    BY <2>1, <2>2
<1>3. QED
  BY <1>2 DEF AllRecords

LEMMA InitTorn == Init => TornInv
  BY FieldFacts DEF Init, TornInv, TornReads, TornByAtMostOne, TornWithinTTL,
                    AllRecords

LEMMA TornStep ==
  TypeInv /\ TypeInv' /\ KeysInv /\ TornInv /\ [Next]_vars => TornInv'
<1> SUFFICES ASSUME TypeInv, TypeInv', KeysInv, TornInv, [Next]_vars
             PROVE  TornInv'
  OBVIOUS
<1> USE FieldFacts
<1>1. TypeOK /\ TypeOK' /\ Growing
  BY KeysStep DEF TypeInv
<1>2. /\ wpair \in Pairs /\ now \in Nat /\ now' \in Nat
      /\ \A f \in Fields : got[f].gen \in Nat /\ got[f].at \in Nat
      /\ \A p \in Pairs : /\ aborts[p] \in Nat /\ fetched[p] \in Nat
                          /\ \A f \in Fields : redis[f][p].gen \in Nat /\ redis[f][p].at \in Nat
  <2>1. \A f \in Fields : got[f] \in Entry
    BY <1>1 DEF TypeOK
  <2>2. QED
    BY <1>1, <2>1, FeedNat DEF TypeOK, Entry
<1>3. /\ AllRecords \subseteq Record
      /\ \A r \in Record : /\ r.pair \in Pairs
                          /\ \A f \in Fields : r.read[f].gen \in Nat /\ r.read[f].at \in Nat
  BY <1>1, RecordFacts
<1>4. \A p \in Pairs : aborts'[p] \in Nat /\ \A f \in Fields : redis'[f][p].gen \in Nat
  <2>1. aborts' \in [Pairs -> Nat] /\ redis' \in [Fields -> [Pairs -> Entry]]
    BY <1>1 DEF TypeOK
  <2>2. \A f \in Fields, p \in Pairs : redis'[f][p] \in Entry
    BY <2>1
  <2>3. QED
    BY <2>1, <2>2 DEF Entry
<1>0. TornReads' /\ (\A r \in AllRecords' : Torn(r)') => TornInv'
  BY DEF TornInv, TornByAtMostOne, TornWithinTTL, Torn
\* Records that were there keep their bounds: the counters only grow.
<1>5. \A r \in AllRecords : Torn(r)'
  <2> SUFFICES ASSUME NEW r \in AllRecords
               PROVE  Torn(r)'
    OBVIOUS
  <2>1. r.pair \in Pairs /\ aborts[r.pair] <= aborts'[r.pair]
    BY <1>1, <1>3 DEF Growing
  <2>2. QED
    BY <1>2, <1>3, <1>4, <2>1, TornInvIs DEF Torn
\* When the worker does not move, neither do its reads.
<1>6. ASSUME UNCHANGED <<workVars, tables>>
      PROVE  TornInv'
  <2>1. AllRecords' = AllRecords
    BY <1>6 DEF workVars, tables, AllRecords
  <2>2. TornReads'
    <3>1. /\ got' = got /\ wpc' = wpc /\ wpair' = wpair
          /\ aborts[wpair] <= aborts'[wpair] /\ now <= now'
          /\ \A f \in Fields : redis[f][wpair].gen <= redis'[f][wpair].gen
      BY <1>1, <1>2, <1>6 DEF workVars, Growing
    <3>2. wpc \in {"ask", "bid"} => got["avg"].at <= now'
      BY <1>2, <3>1 DEF TornInv, TornReads
    <3>3. ASSUME wpc \in {"ask", "bid"}, NEW f \in {"ask", "bid"}
          PROVE  got["avg"].gen <= redis'[f][wpair].gen + 1 + aborts'[wpair]
      <4>1. got["avg"].gen <= redis[f][wpair].gen + 1 + aborts[wpair]
        BY <3>3 DEF TornInv, TornReads
      <4>2. QED
        BY <1>2, <1>4, <3>1, <4>1
    <3>4. wpc = "bid" => /\ got["avg"].gen <= got["ask"].gen + 1 + aborts'[wpair]
                         /\ got["avg"].at < got["ask"].at + TTL
      BY <1>2, <1>4, <3>1 DEF TornInv, TornReads
    <3>5. QED
      BY <3>1, <3>2, <3>3, <3>4 DEF TornReads
  <2>3. QED
    BY <1>5, <2>1, <2>2, <1>0
\* When it moves without reading, it only drops records or stores them.
<1>7. ASSUME records' \subseteq records, wpc' \notin {"ask", "bid"},
             UNCHANGED market \/ \E s \in Symbols : CommitSymbol(s)
      PROVE  TornInv'
  <2>1. AllRecords' \subseteq AllRecords
    <3>1. CASE \E s \in Symbols : CommitSymbol(s)
      BY <1>1, <1>7, <3>1, RecordsKept
    <3>2. CASE UNCHANGED market
      BY <1>7, <3>2 DEF AllRecords
    <3>3. QED
      BY <1>7, <3>1, <3>2
  <2>2. TornReads'
    BY <1>7 DEF TornReads
  <2>3. QED
    BY <1>5, <2>1, <2>2, <1>0
<1>8. ASSUME NEW f \in Fields, ReadKey(f)
      PROVE  TornInv'
  <2>1. /\ UNCHANGED <<now, feedVars, market, wpair>>
        /\ wpc = f /\ wpc' = After[f] /\ Live(f, wpair)
    BY <1>8 DEF ReadKey, tables
  <2>2. UNCHANGED <<now, aborts, redis, fetched>>
    BY <2>1 DEF feedVars
  \* What any one field may lag the avg key by, at this instant.
  <2>3. \A g \in {"ask", "bid"} :
          redis["avg"][wpair].gen <= redis[g][wpair].gen + 1 + aborts[wpair]
    <3>1. /\ redis["bid"][wpair].gen <= redis["ask"][wpair].gen
          /\ redis["avg"][wpair].gen <= fetched[wpair]
      BY <1>1, <1>2, FeedNat DEF KeysInv, KeysFollowTheBook
    <3>2. fetched[wpair] <= redis["bid"][wpair].gen + Lag(wpair)
      BY <1>2 DEF KeysInv
    <3>3. Lag(wpair) \in Nat /\ Lag(wpair) <= aborts[wpair] + 1
      BY <1>2 DEF Lag
    <3>4. QED
      BY <1>2, <3>1, <3>2, <3>3
  <2>4. CASE f = "avg"
    <3>1. /\ got' = [got EXCEPT !["avg"] = redis["avg"][wpair]]
          /\ records' = records /\ wpc' = "ask"
      BY <1>8, <2>4 DEF ReadKey
    <3>2. got'["avg"] = redis["avg"][wpair]
      BY <1>1, <3>1 DEF TypeOK
    <3>3. redis["avg"][wpair].at <= now
      BY <1>2 DEF KeysInv
    <3>4. TornReads'
      BY <2>1, <2>2, <2>3, <3>1, <3>2, <3>3 DEF TornReads
    <3>5. AllRecords' = AllRecords
      BY <2>1, <3>1 DEF AllRecords
    <3>6. QED
      BY <1>5, <3>4, <3>5, <1>0
  <2>5. CASE f = "ask"
    <3>1. /\ got' = [got EXCEPT !["ask"] = redis["ask"][wpair]]
          /\ records' = records /\ wpc' = "bid" /\ wpc = "ask"
      BY <1>8, <2>1, <2>5 DEF ReadKey
    <3>2. got'["ask"] = redis["ask"][wpair] /\ got'["avg"] = got["avg"]
      BY <1>1, <3>1 DEF TypeOK
    <3>3. got["avg"].at < redis["ask"][wpair].at + TTL
      BY <1>2, <2>1, <2>5, <3>1 DEF TornInv, TornReads, Live
    <3>4. TornReads'
      BY <2>1, <2>2, <3>1, <3>2, <3>3 DEF TornInv, TornReads
    <3>5. AllRecords' = AllRecords
      BY <2>1, <3>1 DEF AllRecords
    <3>6. QED
      BY <1>5, <3>4, <3>5, <1>0
  <2>6. CASE f = "bid"
    <3> DEFINE read == [got EXCEPT !["bid"] = redis["bid"][wpair]]
               rec == [pair |-> wpair, read |-> read]
    <3>1. records' = records \cup {rec} /\ wpc' = "pick" /\ wpc = "bid"
      BY <1>8, <2>1, <2>6 DEF ReadKey
    <3>2. /\ read["bid"] = redis["bid"][wpair]
          /\ read["avg"] = got["avg"] /\ read["ask"] = got["ask"]
      BY <1>1 DEF TypeOK
    <3>3. got["avg"].at < redis["bid"][wpair].at + TTL
      BY <1>2, <2>1, <2>6, <3>1 DEF TornInv, TornReads, Live
    <3>4. Torn(rec)
      BY <3>1, <3>2, <3>3 DEF TornInv, TornReads, Torn
    <3>5. AllRecords' = AllRecords \cup {rec}
      BY <2>1, <3>1 DEF AllRecords
    <3>6. ASSUME NEW r \in AllRecords'
          PROVE  Torn(r)'
      <4>1. CASE r \in AllRecords
        BY <1>5, <4>1
      <4>2. CASE r = rec
        <5>1. Torn(r)
          BY <3>4, <4>2
        <5> HIDE DEF rec
        <5>2. QED
          BY <2>2, <5>1 DEF Torn
      <4>3. QED
        BY <3>5, <3>6, <4>1, <4>2
    <3>7. TornReads'
      BY <3>1 DEF TornReads
    <3>8. QED
      BY <1>0, <3>6, <3>7
  <2>7. QED
    BY <2>4, <2>5, <2>6
<1>9. CASE Feed
  BY <1>6, <1>9 DEF Feed, FeedTick, FeedRoundEnd, StoreQuote, FeedAbort,
                    FeedRestart, FeedFetch, FeedSkip, SetKey
<1>10. CASE Work
  <2>1. CASE WorkTick
    BY <1>7, <2>1 DEF WorkTick, tables
  <2>2. CASE SkipPair
    BY <1>7, <2>2 DEF SkipPair, tables
  <2>3. CASE Aggregate
    BY <1>7, <2>3 DEF Aggregate, tables
  <2>4. CASE WorkRoundEnd
    BY <1>7, <2>4 DEF WorkRoundEnd, tables
  <2>5. CASE WorkAbort
    <3>1. wpc' \in {"dead", "idle"} /\ records' = {}
      BY <2>5 DEF WorkAbort
    <3>2. UNCHANGED market \/ \E s \in Symbols : CommitSymbol(s)
      BY <2>5 DEF WorkAbort, tables
    <3>3. QED
      BY <1>7, <3>1, <3>2
  <2>6. CASE WorkRestart
    BY <1>7, <2>6 DEF WorkRestart, tables
  <2>7. ASSUME NEW p \in Pairs, WorkPick(p)
        PROVE  TornInv'
    BY <1>7, <2>7 DEF WorkPick, tables
  <2>8. ASSUME NEW s \in Symbols, StoreSymbol(s)
        PROVE  TornInv'
    BY <1>7, <2>8 DEF StoreSymbol
  <2>9. ASSUME NEW s \in Symbols, InsertRow(s) \/ UpsertFiat(s)
        PROVE  TornInv'
    BY <1>7, <2>9 DEF InsertRow, UpsertFiat, tables
  <2>10. QED
    BY <1>8, <1>10, <2>1, <2>2, <2>3, <2>4, <2>5, <2>6, <2>7, <2>8, <2>9 DEF Work
<1>11. CASE Tick
  BY <1>6, <1>11 DEF Tick
<1>12. CASE UNCHANGED vars
  BY <1>6, <1>12 DEF vars
<1>13. QED
  BY <1>9, <1>10, <1>11, <1>12 DEF Next

LEMMA FeedInvariants == Spec => [](TypeInv /\ KeysInv /\ TornInv)
<1>1. TypeInv /\ TypeInv' => TypeOK /\ TypeOK'
  BY DEF TypeInv
<1>2. QED
  BY <1>1, InitTypeInv, TypeStep, InitKeys, KeysStep, InitTorn, TornStep,
     PTL DEF Spec

\* The avg of any record, in flight or stored, is ahead of its ask and its bid
\* by one book at most, plus one per interrupted visit of the crawler.  Nothing
\* bounds how far the ask and the bid are ahead of the avg.
THEOREM TornBounded == Spec => []TornByAtMostOne
<1>1. TornInv => TornByAtMostOne
  BY DEF TornInv
<1>2. QED
  BY <1>1, FeedInvariants, PTL

\* However often the crawler is interrupted, a record never combines an avg
\* with an ask or a bid that was set a TTL or more before that avg.
THEOREM TornBoundedByTTL == Spec => []TornWithinTTL
<1>1. TornInv => TornWithinTTL
  BY DEF TornInv
<1>2. QED
  BY <1>1, FeedInvariants, PTL

-----------------------------------------------------------------------------
(***************************************************************************)
(* The rows: records never run ahead of Redis, nor behind the row stored.  *)
(***************************************************************************)
OneRecordPerPair ==
    /\ wpc \in {"idle", "dead"} => records = {}
    /\ \A r, q \in records : r.pair = q.pair => r = q
    /\ \A s \in Symbols : \A r, q \in market[s].parts : r.pair = q.pair => r = q
    /\ wpc \in {"pick"} \cup Fields => \A r \in records : r.pair \notin wtodo
    /\ wpc \in Fields => wpair \notin wtodo /\ \A r \in records : r.pair # wpair

NotAheadOfRedis ==
    /\ \A r \in AllRecords, f \in Fields : r.read[f].gen <= redis[f][r.pair].gen
    /\ \A s \in Symbols : \A r \in market[s].parts : SymbolOf[r.pair] = s
    /\ wpc \in {"ask", "bid"} => got["avg"].gen <= redis["avg"][wpair].gen
    /\ wpc = "bid" => got["ask"].gen <= redis["ask"][wpair].gen

\* Records still to be stored are at least as new as the row they replace.
NotBehindMarket ==
    /\ \A r \in records : wpc # "store" \/ SymbolOf[r.pair] \in out =>
         \A q \in market[SymbolOf[r.pair]].parts : q.pair = r.pair =>
            \A f \in Fields : q.read[f].gen <= r.read[f].gen
    /\ \A q \in market[SymbolOf[wpair]].parts : q.pair = wpair =>
         /\ wpc \in {"ask", "bid"} => q.read["avg"].gen <= got["avg"].gen
         /\ wpc = "bid" => q.read["ask"].gen <= got["ask"].gen

RowsInv == OneRecordPerPair /\ NotAheadOfRedis /\ NotBehindMarket

LEMMA InitRows == Init => RowsInv
  BY FieldFacts DEF Init, RowsInv, OneRecordPerPair, NotAheadOfRedis,
                    NotBehindMarket, AllRecords

\* What the transaction of s does to the rows.
LEMMA CommitRows ==
  ASSUME TypeOK, RowsInv, NEW s \in Symbols, CommitSymbol(s), wpc = "store", s \in out
  PROVE  /\ market'[s].parts \subseteq records
         /\ \A r \in market'[s].parts : SymbolOf[r.pair] = s
         /\ \A t \in Symbols : t # s => market'[t] = market[t]
         /\ NoOlderThan(market[s], market'[s])
<1>1. /\ market'[s].parts = PartsOf(s)
      /\ \A t \in Symbols : t # s => market'[t] = market[t]
  BY CommitEffect DEF TypeOK
<1>2. NoOlderThan(market[s], market'[s])
  BY <1>1 DEF NoOlderThan, PartsOf, RowsInv, NotBehindMarket
<1>3. QED
  BY <1>1, <1>2 DEF PartsOf

\* A step changes the row of one symbol at most, to one that is no older.
RowsForward ==
    \/ UNCHANGED market
    \/ \E s \in Symbols : /\ \A t \in Symbols : t # s => market'[t] = market[t]
                          /\ NoOlderThan(market[s], market'[s])

LEMMA RowsStep ==
  TypeInv /\ TypeInv' /\ KeysInv /\ RowsInv /\ [Next]_vars => RowsInv' /\ RowsForward
<1> SUFFICES ASSUME TypeInv, TypeInv', KeysInv, RowsInv, [Next]_vars
             PROVE  RowsInv' /\ RowsForward
  OBVIOUS
<1> USE FieldFacts
<1>1. TypeOK /\ TypeOK' /\ Growing
  BY KeysStep DEF TypeInv
<1>2. /\ wpair \in Pairs
      /\ \A f \in Fields : got[f].gen \in Nat
      /\ \A f \in Fields, p \in Pairs : redis[f][p].gen \in Nat /\ redis'[f][p].gen \in Nat
  <2>1. \A f \in Fields, p \in Pairs : redis[f][p] \in Entry /\ redis'[f][p] \in Entry
    <3>1. redis \in [Fields -> [Pairs -> Entry]] /\ redis' \in [Fields -> [Pairs -> Entry]]
      BY <1>1 DEF TypeOK
    <3>2. QED
      BY <3>1
  <2>2. \A f \in Fields : got[f] \in Entry
    BY <1>1 DEF TypeOK
  <2>3. QED
    BY <1>1, <2>1, <2>2 DEF TypeOK, Entry
<1>3. /\ AllRecords \subseteq Record
      /\ \A r \in Record : r.pair \in Pairs /\ \A f \in Fields : r.read[f].gen \in Nat
  BY <1>1, RecordFacts
\* Redis only moves forward under the records there are.
<1>4. \A r \in AllRecords, f \in Fields : r.read[f].gen <= redis'[f][r.pair].gen
  <2> SUFFICES ASSUME NEW r \in AllRecords, NEW f \in Fields
               PROVE  r.read[f].gen <= redis'[f][r.pair].gen
    OBVIOUS
  <2>1. r.pair \in Pairs /\ r.read[f].gen \in Nat
    BY <1>3
  <2>2. r.read[f].gen <= redis[f][r.pair].gen
    BY DEF RowsInv, NotAheadOfRedis
  <2>3. redis[f][r.pair].gen <= redis'[f][r.pair].gen
    BY <1>1, <2>1 DEF Growing
  <2>4. QED
    BY <1>2, <2>1, <2>2, <2>3
<1>5. ASSUME UNCHANGED <<wpc, wtodo, wpair, got, records, out, market>>
      PROVE  RowsInv' /\ RowsForward
  <2>1. OneRecordPerPair' /\ NotBehindMarket' /\ RowsForward
    BY <1>5 DEF RowsInv, OneRecordPerPair, NotBehindMarket, RowsForward
  <2>2. AllRecords' = AllRecords /\ market' = market /\ got' = got /\ wpair' = wpair /\ wpc' = wpc
    BY <1>5 DEF AllRecords
  <2>3. \A f \in Fields : redis[f][wpair].gen <= redis'[f][wpair].gen
    BY <1>1, <1>2 DEF Growing
  <2>4. NotAheadOfRedis'
    BY <1>2, <1>4, <2>2, <2>3 DEF RowsInv, NotAheadOfRedis
  <2>5. QED
    BY <2>1, <2>4 DEF RowsInv
<1>6. CASE Feed
  BY <1>5, <1>6 DEF Feed, FeedTick, FeedRoundEnd, StoreQuote, FeedAbort,
                    FeedRestart, FeedFetch, FeedSkip, SetKey, workVars, tables
<1>7. CASE Work
  <2>1. UNCHANGED redis
    BY <1>7 DEF Work, WorkTick, SkipPair, Aggregate, WorkRoundEnd, WorkAbort,
                WorkRestart, WorkPick, ReadKey, InsertRow, UpsertFiat, StoreSymbol,
                feedVars
  \* Steps that read and store nothing.
  <2>2. ASSUME UNCHANGED market, records' \subseteq records, wpc' \notin {"ask", "bid"},
               wpc = "store" /\ wpc' = "store" => FALSE,
               OneRecordPerPair',
               wpc = "store" => records' = {}
        PROVE  RowsInv' /\ RowsForward
    <3>1. AllRecords' \subseteq AllRecords
      BY <2>2 DEF AllRecords
    <3>2. NotAheadOfRedis'
      BY <1>4, <2>2, <3>1 DEF RowsInv, NotAheadOfRedis
    <3>3. NotBehindMarket'
      BY <2>2 DEF RowsInv, NotBehindMarket
    <3>4. QED
      BY <2>2, <3>2, <3>3 DEF RowsInv, RowsForward
  \* Steps that commit the first symbol to be stored.
  <2>3. ASSUME NEW s \in Symbols, CommitSymbol(s), wpc = "store", First(s),
               records' \subseteq records, out' \subseteq out \ {s},
               wpc' \in {"store", "idle", "dead"},
               wpc' # "store" => records' = {}
        PROVE  RowsInv' /\ RowsForward
    <3>1. s \in out
      BY <2>3 DEF First
    <3>2. /\ market'[s].parts \subseteq records
          /\ \A r \in market'[s].parts : SymbolOf[r.pair] = s
          /\ \A t \in Symbols : t # s => market'[t] = market[t]
          /\ NoOlderThan(market[s], market'[s])
      BY <1>1, <2>3, <3>1, CommitRows
    <3>3. AllRecords' \subseteq AllRecords
      BY <2>3, <3>2 DEF AllRecords
    <3>4. NotAheadOfRedis'
      BY <1>4, <2>3, <3>2, <3>3 DEF RowsInv, NotAheadOfRedis
    <3>5. OneRecordPerPair'
      BY <2>3, <3>2 DEF RowsInv, OneRecordPerPair
    <3>6. NotBehindMarket'
      <4> SUFFICES ASSUME NEW r \in records', SymbolOf[r.pair] \in out'
                   PROVE  market'[SymbolOf[r.pair]] = market[SymbolOf[r.pair]] /\ r \in records
        BY <2>3, <3>1 DEF RowsInv, NotBehindMarket
      <4>1. SymbolOf[r.pair] # s /\ SymbolOf[r.pair] \in Symbols
        BY <1>1, <2>3 DEF TypeOK
      <4>2. QED
        BY <2>3, <3>2, <4>1
    <3>7. QED
      BY <3>2, <3>4, <3>5, <3>6 DEF RowsInv, RowsForward
  <2>4. CASE WorkTick
    BY <2>2, <2>4 DEF WorkTick, tables, RowsInv, OneRecordPerPair
  <2>5. CASE SkipPair
    BY <2>2, <2>5 DEF SkipPair, tables, RowsInv, OneRecordPerPair
  <2>6. CASE Aggregate
    BY <2>2, <2>6 DEF Aggregate, tables, RowsInv, OneRecordPerPair
  <2>7. CASE WorkRoundEnd
    BY <2>2, <2>7 DEF WorkRoundEnd, tables, RowsInv, OneRecordPerPair
  <2>8. CASE WorkRestart
    BY <2>2, <2>8 DEF WorkRestart, tables, RowsInv, OneRecordPerPair
  <2>9. CASE WorkAbort
    <3>1. records' = {} /\ out' = {} /\ wpc' \in {"idle", "dead"}
      BY <2>9 DEF WorkAbort
    <3>2. CASE UNCHANGED tables
      BY <2>2, <3>1, <3>2 DEF tables, RowsInv, OneRecordPerPair
    <3>3. CASE wpc = "store" /\ \E s \in Symbols : First(s) /\ CommitSymbol(s)
      BY <2>3, <3>1, <3>3
    <3>4. QED
      BY <2>9, <3>2, <3>3 DEF WorkAbort
  <2>10. ASSUME NEW s \in Symbols, StoreSymbol(s)
         PROVE  RowsInv' /\ RowsForward
    BY <2>3, <2>10 DEF StoreSymbol
  <2>11. ASSUME NEW p \in Pairs, WorkPick(p)
         PROVE  RowsInv' /\ RowsForward
    <3>1. OneRecordPerPair'
      BY <2>11 DEF WorkPick, tables, RowsInv, OneRecordPerPair
    <3>2. QED
      BY <2>2, <2>11, <3>1 DEF WorkPick, tables
  <2>12. ASSUME NEW f \in Fields, ReadKey(f)
         PROVE  RowsInv' /\ RowsForward
    <3>1. /\ wpc = f /\ wpc' = After[f] /\ UNCHANGED <<market, wpair, wtodo, out>>
      BY <2>12 DEF ReadKey, tables
    <3>2. \A q \in market[SymbolOf[wpair]].parts : q.pair = wpair =>
             q.read[f].gen <= redis[f][wpair].gen
      BY <1>2 DEF RowsInv, NotAheadOfRedis, AllRecords
    <3>3. CASE f # "bid"
      <4>1. /\ got' = [got EXCEPT ![f] = redis[f][wpair]] /\ records' = records
            /\ got'[f] = redis[f][wpair]
            /\ \A g \in Fields : g # f => got'[g] = got[g]
        BY <1>1, <2>12, <3>3 DEF ReadKey, TypeOK
      <4>2. AllRecords' = AllRecords
        BY <3>1, <4>1 DEF AllRecords
      <4>3. OneRecordPerPair'
        BY <3>1, <3>3, <4>1 DEF RowsInv, OneRecordPerPair
      <4>4. NotAheadOfRedis'
        BY <1>2, <1>4, <2>1, <3>1, <3>3, <4>1, <4>2 DEF RowsInv, NotAheadOfRedis
      <4>5. NotBehindMarket'
        BY <3>1, <3>2, <3>3, <4>1 DEF RowsInv, NotBehindMarket
      <4>6. QED
        BY <3>1, <4>3, <4>4, <4>5 DEF RowsInv, RowsForward
    <3>4. CASE f = "bid"
      <4> DEFINE read == [got EXCEPT !["bid"] = redis["bid"][wpair]]
      <4>1. /\ read["bid"] = redis["bid"][wpair]
            /\ read["avg"] = got["avg"] /\ read["ask"] = got["ask"]
        BY <1>1 DEF TypeOK
      <4>2. PICK rec \in {[pair |-> wpair, read |-> read]} :
               records' = records \cup {rec}
        BY <2>12, <3>4 DEF ReadKey
      <4>3. rec.pair = wpair /\ rec.read = read
        BY <4>2
      <4>4. \A g \in Fields : rec.read[g].gen <= redis[g][wpair].gen
        BY <1>2, <3>1, <3>4, <4>1, <4>3 DEF RowsInv, NotAheadOfRedis
      <4>5. \A q \in market[SymbolOf[wpair]].parts : q.pair = wpair =>
               \A g \in Fields : q.read[g].gen <= rec.read[g].gen
        BY <3>1, <3>2, <3>4, <4>1, <4>3 DEF RowsInv, NotBehindMarket
      <4> HIDE DEF read
      <4>6. AllRecords' = AllRecords \cup {rec}
        BY <3>1, <4>2 DEF AllRecords
      <4>7. OneRecordPerPair'
        BY <3>1, <3>4, <4>2, <4>3 DEF RowsInv, OneRecordPerPair
      <4>8. NotAheadOfRedis'
        BY <1>4, <2>1, <3>1, <3>4, <4>3, <4>4, <4>6 DEF RowsInv, NotAheadOfRedis
      <4>9. NotBehindMarket'
        BY <3>1, <3>4, <4>2, <4>3, <4>5 DEF RowsInv, NotBehindMarket
      <4>10. QED
        BY <3>1, <4>7, <4>8, <4>9 DEF RowsInv, RowsForward
    <3>5. QED
      BY <3>3, <3>4
  <2>13. ASSUME NEW s \in Symbols, InsertRow(s) \/ UpsertFiat(s)
         PROVE  RowsInv' /\ RowsForward
    BY <1>5, <2>13 DEF InsertRow, UpsertFiat, tables
  <2>14. QED
    BY <1>7, <2>4, <2>5, <2>6, <2>7, <2>8, <2>9, <2>10, <2>11, <2>12, <2>13 DEF Work
<1>8. CASE Tick
  BY <1>5, <1>8 DEF Tick, workVars, tables
<1>9. CASE UNCHANGED vars
  BY <1>5, <1>9 DEF vars, workVars, tables
<1>10. QED
  BY <1>6, <1>7, <1>8, <1>9 DEF Next

\* The prices of a pair never go back in time between rows of its symbol.
THEOREM RowsMonotone == Spec => RowsNeverGoBack
<1>1. TypeOK /\ RowsInv /\ RowsForward =>
        \A s \in Symbols : NoOlderThan(market[s], market'[s])
  <2> SUFFICES ASSUME TypeOK, RowsInv, RowsForward, NEW s \in Symbols
               PROVE  NoOlderThan(market[s], market'[s])
    OBVIOUS
  <2>1. NoOlderThan(market[s], market[s])
    <3>1. \A r \in market[s].parts, f \in Fields : r.read[f].gen \in Nat
      BY RecordFacts DEF AllRecords
    <3>2. \A r, q \in market[s].parts : r.pair = q.pair => r = q
      BY DEF RowsInv, OneRecordPerPair
    <3>3. \A r, q \in market[s].parts :
             r.pair = q.pair => \A f \in Fields : r.read[f].gen <= q.read[f].gen
      <4> SUFFICES ASSUME NEW r \in market[s].parts, NEW q \in market[s].parts,
                          r.pair = q.pair, NEW f \in Fields
                   PROVE  r.read[f].gen <= q.read[f].gen
        OBVIOUS
      <4>1. r = q /\ r.read[f].gen \in Nat
        BY <3>1, <3>2
      <4>2. QED
        BY <4>1
    <3>4. QED
      BY <3>3 DEF NoOlderThan
  <2>2. QED
    BY <2>1 DEF RowsForward
<1>2. TypeInv /\ TypeInv' /\ KeysInv /\ RowsInv /\ [Next]_vars =>
        RowsInv' /\ [\A s \in Symbols : NoOlderThan(market[s], market'[s])]_vars
  BY <1>1, RowsStep DEF TypeInv
<1>3. QED
  BY <1>2, InitRows, FeedInvariants, PTL DEF Spec, RowsNeverGoBack

-----------------------------------------------------------------------------
(***************************************************************************)
(* The books shown: whatever is on its way to a row is at least as new.    *)
(***************************************************************************)
ShownInv ==
    /\ \A f \in Fields, p \in Pairs : shown[f][p] <= redis[f][p].gen
    /\ \A r \in records, f \in Fields : shown[f][r.pair] <= r.read[f].gen
    /\ wpc \in {"ask", "bid"} => shown["avg"][wpair] <= got["avg"].gen
    /\ wpc = "bid" => shown["ask"][wpair] <= got["ask"].gen

LEMMA InitShown == Init => ShownInv
  BY FieldFacts DEF Init, ShownInv, NoKey

\* A commit shows, for each pair of its symbol that has a record, that record.
LEMMA CommitShows ==
  ASSUME TypeOK, OneRecordPerPair, NEW s \in Symbols, CommitSymbol(s),
         NEW f \in Fields, NEW p \in Pairs
  PROVE  \/ /\ \A r \in PartsOf(s) : r.pair # p
            /\ shown'[f][p] = shown[f][p]
         \/ \E r \in PartsOf(s) : /\ r.pair = p /\ SymbolOf[p] = s
                                  /\ shown'[f][p] = r.read[f].gen
<1>1. shown'[f][p] = IF \E r \in PartsOf(s) : r.pair = p
                     THEN (CHOOSE r \in PartsOf(s) : r.pair = p).read[f].gen
                     ELSE shown[f][p]
  <2>1. shown' = ShownBy(PartsOf(s))
    BY CommitEffect
  <2> QED
    BY <2>1 DEF ShownBy
<1>2. CASE \E r \in PartsOf(s) : r.pair = p
  <2> DEFINE c == CHOOSE r \in PartsOf(s) : r.pair = p
  <2>1. c \in PartsOf(s) /\ c.pair = p
    BY <1>2
  <2>2. SymbolOf[p] = s
    BY <2>1 DEF PartsOf
  <2> QED
    BY <1>1, <1>2, <2>1, <2>2
<1> QED
  BY <1>1, <1>2

LEMMA ShownStep ==
  TypeInv /\ TypeInv' /\ KeysInv /\ RowsInv /\ ShownInv /\ [Next]_vars => ShownInv'
<1> SUFFICES ASSUME TypeInv, TypeInv', KeysInv, RowsInv, ShownInv, [Next]_vars
             PROVE  ShownInv'
  OBVIOUS
<1> USE FieldFacts
<1>1. TypeOK /\ TypeOK' /\ Growing
  BY KeysStep DEF TypeInv
<1>2. /\ wpair \in Pairs
      /\ \A f \in Fields, p \in Pairs :
           /\ redis[f][p].gen \in Nat /\ redis'[f][p].gen \in Nat
           /\ shown[f][p] \in Nat
  <2>1. \A f \in Fields, p \in Pairs : redis[f][p] \in Entry /\ redis'[f][p] \in Entry
    <3>1. redis \in [Fields -> [Pairs -> Entry]] /\ redis' \in [Fields -> [Pairs -> Entry]]
      BY <1>1 DEF TypeOK
    <3>2. QED
      BY <3>1
  <2>2. \A e \in Entry : e.gen \in Nat
    BY DEF Entry
  <2>3. shown \in [Fields -> [Pairs -> Nat]] /\ wpair \in Pairs
    BY <1>1 DEF TypeOK
  <2>4. QED
    BY <2>1, <2>2, <2>3
<1>3. records \subseteq Record
      /\ \A r \in Record : r.pair \in Pairs /\ \A f \in Fields : r.read[f].gen \in Nat
  BY <1>1, RecordFacts DEF TypeOK
\* Redis moves forward under what was shown.
<1>4. \A f \in Fields, p \in Pairs : shown[f][p] <= redis'[f][p].gen
  <2> SUFFICES ASSUME NEW f \in Fields, NEW p \in Pairs
               PROVE  shown[f][p] <= redis'[f][p].gen
    OBVIOUS
  <2>1. shown[f][p] <= redis[f][p].gen /\ redis[f][p].gen <= redis'[f][p].gen
    BY <1>1 DEF ShownInv, Growing
  <2> QED
    BY <1>2, <2>1
<1>5. ASSUME UNCHANGED shown, records' \subseteq records,
             wpc' \notin {"ask", "bid"} \/ UNCHANGED <<wpc, wpair, got>>
      PROVE  ShownInv'
  BY <1>4, <1>5 DEF ShownInv
<1>6. ASSUME NEW s \in Symbols, CommitSymbol(s), records' \subseteq records,
             wpc' \notin {"ask", "bid"}, UNCHANGED redis
      PROVE  ShownInv'
  <2>1. OneRecordPerPair /\ PartsOf(s) \subseteq records
    BY DEF RowsInv, PartsOf
  <2>2. \A r \in records, f \in Fields : r.read[f].gen <= redis[f][r.pair].gen
    BY DEF RowsInv, NotAheadOfRedis, AllRecords
  <2>3. ASSUME NEW f \in Fields, NEW p \in Pairs
        PROVE  shown'[f][p] <= redis'[f][p].gen
    <3>1. CASE shown'[f][p] = shown[f][p]
      BY <1>4, <3>1
    <3>2. ASSUME NEW r \in PartsOf(s), r.pair = p, shown'[f][p] = r.read[f].gen
          PROVE  shown'[f][p] <= redis'[f][p].gen
      BY <1>6, <2>1, <2>2, <3>2
    <3>3. \/ shown'[f][p] = shown[f][p]
          \/ \E r \in PartsOf(s) : r.pair = p /\ shown'[f][p] = r.read[f].gen
      BY <1>1, <1>6, <2>1, CommitShows
    <3> QED
      BY <3>1, <3>2, <3>3
  <2>4. ASSUME NEW r \in records, NEW f \in Fields
        PROVE  shown'[f][r.pair] <= r.read[f].gen
    <3>1. r.pair \in Pairs /\ r.read[f].gen \in Nat
      BY <1>3
    <3>2. \/ shown'[f][r.pair] = shown[f][r.pair]
          \/ \E q \in PartsOf(s) : q.pair = r.pair /\ shown'[f][r.pair] = q.read[f].gen
      BY <1>1, <1>6, <2>1, <3>1, CommitShows
    <3>3. \A q \in PartsOf(s) : q.pair = r.pair => q = r
      BY <2>1 DEF OneRecordPerPair
    <3>4. shown[f][r.pair] <= r.read[f].gen
      BY DEF ShownInv
    <3> QED
      BY <3>1, <3>2, <3>3, <3>4
  <2> QED
    BY <1>6, <2>3, <2>4 DEF ShownInv
<1>7. ASSUME NEW f \in Fields, ReadKey(f)
      PROVE  ShownInv'
  <2>1. /\ UNCHANGED <<shown, redis, wpair>> /\ wpc = f /\ wpc' = After[f]
        /\ got \in [Fields -> Entry]
    BY <1>1, <1>7 DEF ReadKey, tables, feedVars, TypeOK
  <2>2. CASE f # "bid"
    <3>1. /\ got' = [got EXCEPT ![f] = redis[f][wpair]] /\ records' = records
      BY <1>7, <2>2 DEF ReadKey
    <3>2. got'[f] = redis[f][wpair] /\ \A g \in Fields : g # f => got'[g] = got[g]
      BY <2>1, <3>1
    <3> QED
      BY <1>2, <1>4, <2>1, <2>2, <3>1, <3>2 DEF ShownInv
  <2>3. CASE f = "bid"
    <3> DEFINE read == [got EXCEPT !["bid"] = redis["bid"][wpair]]
    <3>1. /\ read["bid"] = redis["bid"][wpair]
          /\ read["avg"] = got["avg"] /\ read["ask"] = got["ask"]
      BY <2>1
    <3>2. PICK rec \in {[pair |-> wpair, read |-> read]} : records' = records \cup {rec}
      BY <1>7, <2>3 DEF ReadKey
    <3>3. rec.pair = wpair /\ rec.read = read
      BY <3>2
    <3>4. \A g \in Fields : shown[g][wpair] <= read[g].gen
      BY <1>2, <2>1, <2>3, <3>1 DEF ShownInv
    <3> HIDE DEF read
    <3>5. \A r \in records', g \in Fields : shown'[g][r.pair] <= r.read[g].gen
      BY <2>1, <3>2, <3>3, <3>4 DEF ShownInv
    <3> QED
      BY <1>4, <2>1, <2>3, <3>5 DEF ShownInv
  <2> QED
    BY <2>2, <2>3
<1>8. CASE Feed
  BY <1>5, <1>8 DEF Feed, FeedTick, FeedRoundEnd, StoreQuote, FeedAbort,
                    FeedRestart, FeedFetch, FeedSkip, SetKey, workVars, tables
<1>9. CASE Work
  <2>1. CASE WorkAbort
    <3>1. records' = {} /\ wpc' \in {"idle", "dead"} /\ UNCHANGED redis
      BY <2>1 DEF WorkAbort, feedVars
    <3>2. UNCHANGED shown \/ \E s \in Symbols : CommitSymbol(s)
      BY <2>1 DEF WorkAbort, tables
    <3> QED
      BY <1>5, <1>6, <3>1, <3>2
  <2>2. ASSUME NEW s \in Symbols, StoreSymbol(s)
        PROVE  ShownInv'
    BY <1>6, <2>2 DEF StoreSymbol, feedVars
  <2>3. CASE WorkTick \/ SkipPair \/ Aggregate \/ WorkRoundEnd \/ WorkRestart
    BY <1>5, <2>3 DEF WorkTick, SkipPair, Aggregate, WorkRoundEnd, WorkRestart, tables
  <2>4. ASSUME NEW p \in Pairs, WorkPick(p)
        PROVE  ShownInv'
    BY <1>5, <2>4 DEF WorkPick, tables
  <2>5. ASSUME NEW s \in Symbols, InsertRow(s) \/ UpsertFiat(s)
        PROVE  ShownInv'
    BY <1>5, <2>5 DEF InsertRow, UpsertFiat, tables
  <2> QED
    BY <1>7, <1>9, <2>1, <2>2, <2>3, <2>4, <2>5 DEF Work
<1>10. CASE Tick \/ UNCHANGED vars
  BY <1>5, <1>10 DEF Tick, workVars, tables, vars
<1> QED
  BY <1>8, <1>9, <1>10 DEF Next

-----------------------------------------------------------------------------
(***************************************************************************)
(* The fiat rows, and the board they make up with the market rows.         *)
(***************************************************************************)
LEMMA InitFiat == Init => FiatMatchesMarket /\ Board!Init
  BY DEF Init, FiatMatchesMarket, Board!Init, Board!Prices, Fields

\* A commit keeps the fiat rows in step with the market row.
LEMMA CommitMatches ==
  ASSUME TypeOK, FiatMatchesMarket, NEW s \in Symbols, CommitSymbol(s)
  PROVE  FiatMatchesMarket'
<1>1. /\ market'[s].id = market[s].id + 1 /\ market'[s].curr = curr
      /\ \A t \in Symbols : t # s => market'[t] = market[t] /\ smc'[t] = smc[t]
      /\ \A c \in Currencies :
           smc'[s][c] = IF s \in Convertible /\ c \in curr THEN market[s].id + 1
                                                           ELSE smc[s][c]
  BY CommitEffect DEF FiatRow, TypeOK
<1>2. market[s].id \in Nat /\ \A c \in Currencies : smc[s][c] \in Nat
  BY DEF TypeOK, Row
<1> SUFFICES ASSUME NEW t \in Symbols, NEW c \in Currencies
             PROVE  /\ smc'[t][c] <= market'[t].id
                    /\ t \in Convertible /\ c \in market'[t].curr
                          => smc'[t][c] = market'[t].id
  BY DEF FiatMatchesMarket
<1>3. CASE t = s
  <2>1. smc[s][c] <= market[s].id
    BY DEF FiatMatchesMarket
  <2>2. smc'[s][c] = market[s].id + 1 \/ smc'[s][c] = smc[s][c]
    BY <1>1
  <2>3. smc'[s][c] <= market'[s].id
    BY <1>1, <1>2, <2>1, <2>2
  <2>4. s \in Convertible /\ c \in curr => smc'[s][c] = market[s].id + 1
    BY <1>1
  <2> QED
    BY <1>1, <1>3, <2>3, <2>4
<1>4. CASE t # s
  BY <1>1, <1>4 DEF FiatMatchesMarket
<1> QED
  BY <1>3, <1>4

\* What a step can do to the books and the tables.
LEMMA TableSteps ==
  [Next]_vars =>
    \/ UNCHANGED <<fetched, tables>>
    \/ \E p \in Pairs : FeedFetch(p)
    \/ UNCHANGED fetched /\ \E s \in Symbols : CommitSymbol(s)
<1>1. CASE Feed
  BY <1>1 DEF Feed, FeedTick, FeedRoundEnd, StoreQuote, FeedAbort, FeedRestart,
              FeedSkip, SetKey
<1>2. CASE Work
  BY <1>2 DEF Work, WorkTick, SkipPair, Aggregate, WorkRoundEnd, WorkAbort,
              WorkRestart, WorkPick, ReadKey, InsertRow, UpsertFiat, StoreSymbol, feedVars
<1>3. CASE Tick \/ UNCHANGED vars
  BY <1>3 DEF Tick, vars, feedVars
<1> QED
  BY <1>1, <1>2, <1>3 DEF Next

\* Fiat prices are always those of the latest market row they belong to.
THEOREM FiatConsistent == Spec => []FiatMatchesMarket
<1>1. TypeOK /\ FiatMatchesMarket /\ [Next]_vars => FiatMatchesMarket'
  <2> SUFFICES ASSUME TypeOK, FiatMatchesMarket, [Next]_vars
               PROVE  FiatMatchesMarket'
    OBVIOUS
  <2>1. UNCHANGED tables => FiatMatchesMarket'
    BY DEF tables, FiatMatchesMarket
  <2>2. \A p \in Pairs : FeedFetch(p) => UNCHANGED tables
    BY DEF FeedFetch
  <2> QED
    BY <2>1, <2>2, TableSteps, CommitMatches
<1>2. QED
  BY <1>1, InitFiat, TypeCorrect, PTL DEF Spec

\* The prices of a commit are those of fetched books, none behind one shown.
LEMMA CommitMovesOn ==
  ASSUME TypeInv, TypeInv', KeysInv, RowsInv, ShownInv,
         NEW s \in Symbols, CommitSymbol(s)
  PROVE  Board!MoveOn(s)
<1> USE FieldFacts
<1>1. TypeOK /\ TypeOK' /\ OneRecordPerPair /\ PartsOf(s) \subseteq records
  BY DEF TypeInv, RowsInv, PartsOf
<1>2. shown' \in [Board!Prices -> [Pairs -> Nat]]
  BY <1>1 DEF TypeOK, Board!Prices, Fields
<1>3. ASSUME NEW f \in Fields, NEW p \in Pairs
      PROVE  /\ redis[f][p].gen <= fetched[p] /\ shown[f][p] <= redis[f][p].gen
             /\ redis[f][p].gen \in Nat /\ fetched[p] \in Nat /\ shown[f][p] \in Nat
  <2>1. /\ fetched[p] \in Nat /\ exSymbol[p] \in Nat
        /\ \A g \in Fields : redis[g][p].gen \in Nat
    BY <1>1, FeedNat
  <2>2. redis[f][p].gen <= fetched[p]
    BY <2>1 DEF KeysInv, KeysFollowTheBook
  <2>3. shown \in [Fields -> [Pairs -> Nat]]
    BY <1>1 DEF TypeOK
  <2> QED
    BY <2>1, <2>2, <2>3 DEF ShownInv
<1>4. ASSUME NEW r \in PartsOf(s), NEW f \in Fields
      PROVE  /\ r.read[f].gen <= redis[f][r.pair].gen /\ shown[f][r.pair] <= r.read[f].gen
             /\ r.pair \in Pairs /\ r.read[f].gen \in Nat
  BY <1>1, RecordFacts DEF ShownInv, RowsInv, NotAheadOfRedis, AllRecords
<1>5. ASSUME NEW f \in Fields, NEW p \in Pairs
      PROVE  IF SymbolOf[p] = s
             THEN shown[f][p] <= shown'[f][p] /\ shown'[f][p] <= fetched[p]
             ELSE shown'[f][p] = shown[f][p]
  <2>1. CASE /\ \A r \in PartsOf(s) : r.pair # p
             /\ shown'[f][p] = shown[f][p]
    BY <1>3, <2>1
  <2>2. ASSUME NEW r \in PartsOf(s), r.pair = p, SymbolOf[p] = s,
               shown'[f][p] = r.read[f].gen
        PROVE  shown[f][p] <= shown'[f][p] /\ shown'[f][p] <= fetched[p]
    BY <1>3, <1>4, <2>2
  <2> QED
    BY <1>1, <2>1, <2>2, CommitShows
<1> QED
  BY <1>2, <1>5 DEF Board!MoveOn, Board!Prices, Fields

\* A transaction is one publication of the board.
LEMMA CommitPublishes ==
  ASSUME TypeInv, TypeInv', KeysInv, RowsInv, ShownInv, UNCHANGED fetched,
         NEW s \in Symbols, CommitSymbol(s)
  PROVE  Board!Next
<1> DEFINE latest == [t \in Symbols |-> market[t].id]
<1>1. PICK w \in SUBSET Currencies : w = IF s \in Convertible THEN curr ELSE {}
  BY DEF TypeInv, TypeOK
<1>2. latest' = [latest EXCEPT ![s] = @ + 1]
  <2>1. /\ market'[s].id = market[s].id + 1
        /\ \A t \in Symbols : t # s => market'[t] = market[t]
    BY CommitEffect DEF TypeInv, TypeOK
  <2> QED
    BY <2>1
<1>3. smc' = [smc EXCEPT ![s] =
                [c \in Currencies |-> IF c \in w THEN latest[s] + 1 ELSE @[c]]]
  <2>1. latest[s] = market[s].id
    OBVIOUS
  <2> HIDE DEF latest
  <2>2. CASE s \in Convertible /\ curr # {}
    <3>1. smc' = [smc EXCEPT ![s] = FiatRow(s)] /\ w = curr
      BY <1>1, <2>2, CommitEffect
    <3> QED
      BY <2>1, <3>1 DEF FiatRow
  <2>3. CASE ~ (s \in Convertible /\ curr # {})
    <3>1. smc' = smc /\ w = {}
      BY <1>1, <2>3, CommitEffect
    <3>2. smc \in [Symbols -> [Currencies -> Nat]]
      BY DEF TypeInv, TypeOK
    <3>3. [c \in Currencies |-> IF c \in w THEN latest[s] + 1 ELSE smc[s][c]] = smc[s]
      BY <3>1, <3>2
    <3> QED
      BY <3>1, <3>2, <3>3
  <2> QED
    BY <2>2, <2>3
<1>4. Board!MoveOn(s)
  BY CommitMovesOn
<1>5. Board!Publish(s, w)
  BY <1>2, <1>3, <1>4 DEF Board!Publish
<1> QED
  BY <1>5 DEF Board!Next

\* The price feed implements the board its readers are promised, over
\* interrupted visits, rounds and transactions, expiring keys and restarts.
THEOREM Refinement == Spec => ImplementsMarketBoard
<1>1. Init => Board!Init
  BY InitFiat
<1>2. TypeInv /\ TypeInv' /\ KeysInv /\ RowsInv /\ ShownInv /\ [Next]_vars =>
        [Board!Next]_<<fetched, shown, [s \in Symbols |-> market[s].id], smc>>
  <2> SUFFICES ASSUME TypeInv, TypeInv', KeysInv, RowsInv, ShownInv, [Next]_vars
               PROVE  [Board!Next]_<<fetched, shown, [s \in Symbols |-> market[s].id], smc>>
    OBVIOUS
  <2>1. CASE UNCHANGED <<fetched, tables>>
    BY <2>1 DEF tables
  <2>2. ASSUME NEW p \in Pairs, FeedFetch(p)
        PROVE  Board!Next
    <3>1. Board!NewBook(p)
      BY <2>2 DEF FeedFetch, tables, Board!NewBook
    <3> QED
      BY <3>1 DEF Board!Next
  <2>3. CASE UNCHANGED fetched /\ \E s \in Symbols : CommitSymbol(s)
    BY <2>3, CommitPublishes
  <2> QED
    BY <2>1, <2>2, <2>3, TableSteps
<1>3. QED
  BY <1>1, <1>2, InitRows, RowsStep, InitShown, ShownStep, FeedInvariants, PTL
     DEF Spec, ImplementsMarketBoard, Board!Spec
=============================================================================
