--------------------------- MODULE CrawlerProofs ---------------------------
(***************************************************************************)
(* Theorems about the two loops that fetch prices of their own: the fiat   *)
(* rates of FiatRates and the pair on the chain of DexMarket, for any      *)
(* platforms, currencies, rounds, tokens, decimals and amounts.            *)
(***************************************************************************)
EXTENDS FiatRates, DexMarket, FiniteSetTheorems, WellFoundedInduction, TLAPS

-----------------------------------------------------------------------------
(* Fiat rates: types                                                       *)

LEMMA Dequeue ==
  ASSUME NEW S, NEW s \in Seq(S), s # <<>>
  PROVE  /\ Head(s) \in S /\ Head(s) = s[1] /\ 1 \in DOMAIN s
         /\ Tail(s) \in Seq(S) /\ Len(Tail(s)) = Len(s) - 1 /\ Len(s) \in Nat \ {0}
         /\ \A i \in DOMAIN Tail(s) : i + 1 \in DOMAIN s /\ Tail(s)[i] = s[i + 1]
OBVIOUS

LEMMA Enqueue ==
  ASSUME NEW S, NEW s \in Seq(S), NEW x \in S
  PROVE  /\ Append(s, x) \in Seq(S) /\ Len(Append(s, x)) = Len(s) + 1
         /\ DOMAIN s \subseteq DOMAIN Append(s, x)
         /\ \A i \in DOMAIN s : Append(s, x)[i] = s[i]
         /\ \A i \in DOMAIN Append(s, x) : i \in DOMAIN s \/ Append(s, x)[i] = x
OBVIOUS

LEMMA ChangeOne ==
  ASSUME NEW S, NEW s \in Seq(S), NEW i \in DOMAIN s, NEW x \in S
  PROVE  /\ [s EXCEPT ![i] = x] \in Seq(S) /\ Len([s EXCEPT ![i] = x]) = Len(s)
         /\ DOMAIN [s EXCEPT ![i] = x] = DOMAIN s
         /\ [s EXCEPT ![i] = x][i] = x
         /\ \A j \in DOMAIN s : j # i => [s EXCEPT ![i] = x][j] = s[j]
OBVIOUS

LEMMA RowType ==
  ASSUME TypeOK, NEW g \in DOMAIN rows
  PROVE  /\ rows[g] \in Row /\ rows[g].code \in Codes /\ rows[g].born \in Nat
         /\ rows[g].active \in BOOLEAN
<1>1. rows[g] \in Row
  BY DEF TypeOK
<1> QED BY <1>1 DEF Row

LEMMA NoCurType == NoCur \in Result /\ NoCur.rates = {}
BY DEF NoCur, Result

\* Whatever a platform answers is of this round, and names only codes that
\* were asked for, if any were.
LEMMA AnswerType ==
  ASSUME TypeOK, NEW r \in Answer
  PROVE  r \in Result /\ r.of = batch /\ (DOMAIN known # {} => r.rates \subseteq DOMAIN known)
<1>1. CASE r = [ok |-> FALSE, rates |-> {}, of |-> batch]
  BY <1>1 DEF TypeOK, Result
<1>2. CASE r \in {[ok |-> TRUE, rates |-> Parsed(offered), of |-> batch] :
                    offered \in (SUBSET Codes) \ {{}}}
  <2>1. PICK offered \in SUBSET Codes : r = [ok |-> TRUE, rates |-> Parsed(offered), of |-> batch]
    BY <1>2
  <2> QED BY <2>1 DEF TypeOK, Result, Parsed
<1> QED BY <1>1, <1>2 DEF Answer

\* What is known of a result: the round it belongs to, and its codes.
Current(r) == r.of = batch /\ (DOMAIN known # {} => r.rates \subseteq DOMAIN known)

\* No answer outlives the round that asked for it.
RoundInv ==
    /\ \A i \in DOMAIN chan : Current(chan[i])
    /\ cur.rates # {} => Current(cur)

FiatInv == TypeOK /\ RoundInv /\ RateOfItsRound

\* The row that is written for a rate in hand.
LEMMA FreshType ==
  ASSUME FiatInv, NEW c \in cur.rates, NEW born \in Nat
  PROVE  /\ Fresh(c, born) \in Row /\ Fresh(c, born).code = c /\ Fresh(c, born).at = batch
         /\ Fresh(c, born).fetched = Fresh(c, born).at
<1>1. c \in Codes /\ cur.of \in Nat /\ cur.of = batch
  BY DEF FiatInv, TypeOK, Result, RoundInv, Current
<1> QED BY <1>1 DEF FiatInv, TypeOK, Row, Fresh

\* What a write leaves of the table: the rows keep their codes, and every row
\* that is not as it was is the one loaded for the code, or is new.
LEMMA Written ==
  ASSUME FiatInv, NEW c \in cur.rates, Write(c)
  PROVE  /\ rows' \in Seq(Row) /\ DOMAIN rows \subseteq DOMAIN rows'
         /\ \A g \in DOMAIN rows : rows'[g].code = rows[g].code
         /\ \A g \in DOMAIN rows' :
              rows'[g].fetched = rows'[g].at
         /\ \A g \in DOMAIN rows : rows'[g] = rows[g] \/ (c \in DOMAIN known /\ g = known[c])
         /\ Len(rows') > Len(rows) => DOMAIN known = {}
<1>1. rows \in Seq(Row) /\ \A g \in DOMAIN rows : rows[g].fetched = rows[g].at
  BY DEF FiatInv, TypeOK, RateOfItsRound
<1>2. CASE c \in DOMAIN known
  <2>1. known[c] \in DOMAIN rows /\ rows[known[c]].code = c
    BY <1>2 DEF FiatInv, TypeOK
  <2> DEFINE x == Fresh(c, rows[known[c]].born)
  <2>2. rows[known[c]].born \in Nat
    BY <2>1, RowType DEF FiatInv
  <2>3. x \in Row /\ x.code = c /\ x.fetched = x.at
    BY <2>2, FreshType
  <2>4. rows' = [rows EXCEPT ![known[c]] = x]
    BY <1>2 DEF Write
  <2> HIDE DEF x
  <2> QED BY <1>1, <1>2, <2>1, <2>3, <2>4, ChangeOne
<1>3. CASE c \notin DOMAIN known
  <2>1. DOMAIN known = {}
    BY <1>3 DEF FiatInv, RoundInv, Current
  <2> DEFINE x == Fresh(c, batch)
  <2>2. x \in Row /\ x.fetched = x.at
    BY FreshType DEF FiatInv, TypeOK
  <2>3. rows' = Append(rows, x)
    BY <1>3 DEF Write
  <2> HIDE DEF x
  <2>4. /\ rows' \in Seq(Row) /\ DOMAIN rows \subseteq DOMAIN rows'
        /\ \A g \in DOMAIN rows : rows'[g] = rows[g]
        /\ \A g \in DOMAIN rows' : g \in DOMAIN rows \/ rows'[g] = x
    BY <1>1, <2>2, <2>3, Enqueue
  <2>5. \A g \in DOMAIN rows' : rows'[g].fetched = rows'[g].at
    BY <1>1, <2>2, <2>4
  <2> QED BY <2>1, <2>4, <2>5
<1> QED BY <1>2, <1>3

LEMMA InitFiat == Init => FiatInv
<1> SUFFICES ASSUME Init PROVE FiatInv
  OBVIOUS
<1>1. cur \in Result /\ rows \in Seq(Row) /\ chan \in Seq(Result) /\ DOMAIN rows = {} /\ DOMAIN chan = {}
  BY NoCurType DEF Init
<1>2. TypeOK
  BY <1>1 DEF Init, TypeOK
<1> QED BY <1>1, <1>2, NoCurType DEF Init, FiatInv, RoundInv, RateOfItsRound

LEMMA StepFiat == FiatInv /\ [Next]_vars => FiatInv'
<1> SUFFICES ASSUME FiatInv, [Next]_vars PROVE FiatInv'
  OBVIOUS
<1>0. TypeOK /\ RoundInv /\ RateOfItsRound
  BY DEF FiatInv
<1>1. CASE UNCHANGED vars
  BY <1>0, <1>1 DEF vars, FiatInv, TypeOK, RoundInv, RateOfItsRound, Current
<1>2. CASE RoundStart
  <2>1. chan = <<>> /\ cur = NoCur /\ DOMAIN chan = {}
    BY <1>0, <1>2 DEF RoundStart, TypeOK
  <2>2. /\ DOMAIN known' \subseteq Codes
        /\ \A c \in DOMAIN known' : known'[c] \in DOMAIN rows /\ rows[known'[c]].code = c
    <3> DEFINE listed == {g \in DOMAIN rows : rows[g].active}
    <3>1. PICK m \in [{rows[g].code : g \in listed} -> listed] :
            /\ \A c \in DOMAIN m : rows[m[c]].code = c
            /\ known' = m
      BY <1>2 DEF RoundStart
    <3>2. \A g \in DOMAIN rows : rows[g].code \in Codes
      BY <1>0, RowType
    <3> QED BY <3>1, <3>2
  <2>3. TypeOK'
    BY <1>0, <1>2, <2>2 DEF RoundStart, TypeOK
  <2> QED BY <1>0, <1>2, <2>1, <2>3, NoCurType DEF RoundStart, FiatInv, RoundInv, RateOfItsRound
<1>3. CASE Take
  <2>1. /\ cur' = chan[1] /\ cur' \in Result /\ 1 \in DOMAIN chan
        /\ chan' \in Seq(Result)
        /\ \A i \in DOMAIN chan' : i + 1 \in DOMAIN chan /\ chan'[i] = chan[i + 1]
    BY <1>0, <1>3, Dequeue DEF Take, TypeOK
  <2>2. TypeOK'
    BY <1>0, <1>3, <2>1 DEF Take, TypeOK
  <2>3. RoundInv'
    BY <1>0, <1>3, <2>1 DEF Take, RoundInv, Current
  <2> QED BY <1>0, <1>3, <2>2, <2>3 DEF Take, FiatInv, RateOfItsRound
<1>4. CASE StoreSome
  <2>1. PICK c \in Codes : Store(c)
    BY <1>4 DEF StoreSome
  <2>2. c \in cur.rates
    BY <2>1 DEF Store
  <2>3. /\ rows' \in Seq(Row) /\ DOMAIN rows \subseteq DOMAIN rows'
        /\ \A g \in DOMAIN rows : rows'[g].code = rows[g].code
        /\ \A g \in DOMAIN rows' : rows'[g].fetched = rows'[g].at
    BY <1>0, <2>1, <2>2, Written DEF Store, TypeOK, RateOfItsRound
  <2>4. cur' \in Result /\ cur'.of = cur.of /\ cur'.rates \subseteq cur.rates
    BY <1>0, <2>1 DEF Store, TypeOK, Result
  <2>5. TypeOK'
    BY <1>0, <2>1, <2>3, <2>4 DEF Store, TypeOK
  <2>6. RoundInv'
    BY <1>0, <2>1, <2>2, <2>4 DEF Store, RoundInv, Current
  <2> QED BY <2>3, <2>5, <2>6 DEF FiatInv, RateOfItsRound
<1>5. CASE RoundEnd
  <2>1. DOMAIN chan = {}
    BY <1>5 DEF RoundEnd
  <2> QED BY <1>0, <1>5, <2>1, NoCurType DEF RoundEnd, FiatInv, TypeOK, RoundInv, RateOfItsRound
<1>6. CASE Crash
  <2>1. chan' \in Seq(Result) /\ DOMAIN chan' = {}
    BY <1>6 DEF Crash
  <2> QED BY <1>0, <1>6, <2>1, NoCurType DEF Crash, FiatInv, TypeOK, RoundInv, RateOfItsRound
<1>7. ASSUME NEW p \in Platforms, Deliver(p) PROVE FiatInv'
  <2>1. PICK r \in Answer : chan' = Append(chan, r)
    BY <1>7 DEF Deliver
  <2>2. r \in Result /\ Current(r)
    BY <1>0, AnswerType DEF Current
  <2>3. /\ chan' \in Seq(Result)
        /\ \A i \in DOMAIN chan : chan'[i] = chan[i]
        /\ \A i \in DOMAIN chan' : i \in DOMAIN chan \/ chan'[i] = r
    BY <1>0, <2>1, <2>2, Enqueue DEF TypeOK
  <2>4. TypeOK'
    BY <1>0, <1>7, <2>3 DEF Deliver, TypeOK
  <2>5. RoundInv'
    BY <1>0, <1>7, <2>2, <2>3 DEF Deliver, RoundInv, Current
  <2> QED BY <1>0, <1>7, <2>4, <2>5 DEF Deliver, FiatInv, RateOfItsRound
<1>8. ASSUME NEW g \in DOMAIN rows, Toggle(g) PROVE FiatInv'
  <2> DEFINE x == [rows[g] EXCEPT !.active = ~@]
  <2>1. x \in Row /\ x.code = rows[g].code /\ x.fetched = x.at
    BY <1>0, RowType DEF Row, RateOfItsRound
  <2>2. rows' = [rows EXCEPT ![g] = x]
    BY <1>8 DEF Toggle
  <2> HIDE DEF x
  <2>3. /\ rows' \in Seq(Row) /\ DOMAIN rows' = DOMAIN rows
        /\ rows'[g] = x /\ \A h \in DOMAIN rows : h # g => rows'[h] = rows[h]
    BY <1>0, <2>1, <2>2, ChangeOne DEF TypeOK
  <2>4. \A h \in DOMAIN rows : rows'[h].code = rows[h].code /\ rows'[h].fetched = rows'[h].at
    BY <1>0, <2>1, <2>3 DEF RateOfItsRound
  <2>5. TypeOK'
    BY <1>0, <1>8, <2>3, <2>4 DEF Toggle, TypeOK
  <2> QED BY <1>0, <1>8, <2>3, <2>4, <2>5 DEF Toggle, FiatInv, RoundInv, Current, RateOfItsRound
<1> QED BY <1>1, <1>2, <1>3, <1>4, <1>5, <1>6, <1>7, <1>8 DEF Next

LEMMA AlwaysFiat == Spec => []FiatInv
BY InitFiat, StepFiat, PTL DEF Spec

\* The state is well typed, the rows a round has loaded keep their codes under
\* its feet, and nothing is under way between two rounds.
THEOREM FiatTypeCorrect == Spec => []TypeOK
<1>1. FiatInv => TypeOK
  BY DEF FiatInv
<1> QED BY <1>1, AlwaysFiat, PTL

\* A rate is stored under the time of the round that fetched it, however late
\* an answer comes, whatever fails and whenever the process is killed
\* (fiatcurrency_client.go:208-251).
THEOREM RatesCorrect == Spec => []RateOfItsRound
<1>1. FiatInv => RateOfItsRound
  BY DEF FiatInv
<1> QED BY <1>1, AlwaysFiat, PTL

\* Only a round that found no active currency adds rows, so a code in use gets
\* no second row (fiatcurrency_client.go:196-206, 277-298, 342-351).
THEOREM InsertsCorrect == Spec => OnlyBootstrapInserts
<1>1. FiatInv /\ [Next]_vars => [Len(rows') > Len(rows) => DOMAIN known = {}]_vars
  <2> SUFFICES ASSUME FiatInv, Next, Len(rows') > Len(rows), DOMAIN known # {} PROVE FALSE
    OBVIOUS
  <2>1. rows' # rows /\ Len(rows') # Len(rows)
    BY DEF FiatInv, TypeOK
  <2>2. ASSUME NEW c \in Codes, Store(c) PROVE FALSE
    BY <2>1, <2>2, Written DEF Store
  <2>3. ASSUME NEW g \in DOMAIN rows, Toggle(g) PROVE FALSE
    BY <2>1, <2>3 DEF Toggle, FiatInv, TypeOK
  <2> QED BY <2>1, <2>2, <2>3 DEF Next, RoundStart, Take, StoreSome, RoundEnd, Crash, Deliver
<1> QED BY <1>1, AlwaysFiat, PTL DEF Spec, OnlyBootstrapInserts

\* A round writes no row but those it has loaded: neither one that was switched
\* off before nor the twin of a code (fiatcurrency_client.go:277-289,
\* currency.go:112).
THEOREM WritesCorrect == Spec => OnlyLoadedRowsChange
<1> DEFINE Loaded ==
      \A g \in DOMAIN rows : rows'[g].at # rows[g].at => \E c \in DOMAIN known : known[c] = g
<1>1. FiatInv /\ [Next]_vars => [Loaded]_vars
  <2> SUFFICES ASSUME FiatInv, Next, NEW g \in DOMAIN rows, rows'[g].at # rows[g].at
               PROVE  \E c \in DOMAIN known : known[c] = g
    OBVIOUS
  <2>1. ASSUME NEW c \in Codes, Store(c) PROVE \E d \in DOMAIN known : known[d] = g
    <3>1. c \in cur.rates /\ Write(c)
      BY <2>1 DEF Store
    <3>2. rows'[g] = rows[g] \/ (c \in DOMAIN known /\ g = known[c])
      BY <3>1, Written
    <3> QED BY <3>2
  <2>2. ASSUME NEW h \in DOMAIN rows, Toggle(h) PROVE FALSE
    BY <2>2 DEF Toggle, FiatInv, TypeOK, Row
  <2> QED BY <2>1, <2>2 DEF Next, RoundStart, Take, StoreSome, RoundEnd, Crash, Deliver
<1> QED BY <1>1, AlwaysFiat, PTL DEF Spec, OnlyLoadedRowsChange

\* The three kinds of steps of a round, as numbers: one answer moves from the
\* platforms to the channel, one from the channel into hand, one rate is tried.
LEMMA Countdown ==
  ASSUME NEW f \in Nat, NEW n \in Nat, NEW k \in Nat, NEW r \in Nat, NEW q \in 0 .. k
  PROVE  /\ f # 0 => (f - 1) * (k + 2) + (n + 1) * (k + 1) + r < f * (k + 2) + n * (k + 1) + r
         /\ n # 0 => f * (k + 2) + (n - 1) * (k + 1) + q < f * (k + 2) + n * (k + 1)
<1>1. (f - 1) * (k + 2) = f * (k + 2) - (k + 2) /\ f * (k + 2) \in Int
  OBVIOUS
<1>2. (n + 1) * (k + 1) = n * (k + 1) + (k + 1) /\ n * (k + 1) \in Int
  OBVIOUS
<1>3. (n - 1) * (k + 1) = n * (k + 1) - (k + 1)
  OBVIOUS
<1> QED BY <1>1, <1>2, <1>3

\* Every step of a round that is not an edit of the table by others brings the
\* round nearer to its end, for any number of platforms and codes, so the round
\* takes no more steps than WorkLeft says (fiatcurrency_client.go:208-251,
\* 276-318).
THEOREM RoundsShorten == Spec => RoundGetsShorter
<1> DEFINE Shorter ==
      pc = "round" /\ pc' = "round" /\ <<fetching, chan, cur>>' # <<fetching, chan, cur>>
        => WorkLeft' < WorkLeft
<1>1. FiatInv /\ [Next]_vars => [Shorter]_vars
  <2> SUFFICES ASSUME FiatInv, Next, pc = "round", pc' = "round",
                      <<fetching, chan, cur>>' # <<fetching, chan, cur>>
               PROVE  WorkLeft' < WorkLeft
    OBVIOUS
  <2> DEFINE k == Cardinality(Codes)
             f == Cardinality(fetching)
             n == Len(chan)
             r == Cardinality(cur.rates)
  <2>1. k \in Nat /\ f \in Nat /\ n \in Nat /\ IsFiniteSet(fetching)
    BY FiatAssumption, FS_CardinalityType, FS_Subset DEF FiatInv, TypeOK
  <2>2. \A s \in SUBSET Codes : IsFiniteSet(s) /\ Cardinality(s) \in 0 .. k
    BY FiatAssumption, FS_Subset, FS_CardinalityType
  <2>3. cur.rates \in SUBSET Codes /\ r \in Nat /\ IsFiniteSet(cur.rates)
    BY <2>2 DEF FiatInv, TypeOK, Result
  <2>4. ASSUME NEW p \in Platforms, Deliver(p) PROVE WorkLeft' < WorkLeft
    <3>1. PICK a \in Answer : chan' = Append(chan, a)
      BY <2>4 DEF Deliver
    <3>2. Len(chan') = n + 1
      BY <3>1, AnswerType, Enqueue DEF FiatInv, TypeOK
    <3>3. f # 0 /\ Cardinality(fetching') = f - 1
      BY <2>1, <2>4, FS_RemoveElement, FS_EmptySet DEF Deliver
    <3>4. WorkLeft' = (f - 1) * (k + 2) + (n + 1) * (k + 1) + r
      BY <2>4, <3>2, <3>3 DEF Deliver, WorkLeft
    <3>5. WorkLeft = f * (k + 2) + n * (k + 1) + r
      BY DEF WorkLeft
    <3> HIDE DEF k, f, n, r
    <3> QED BY <2>1, <2>3, <3>3, <3>4, <3>5, Countdown
  <2>5. CASE Take
    <3>1. n # 0 /\ Len(chan') = n - 1 /\ cur' \in Result
      BY <2>5, Dequeue DEF Take, FiatInv, TypeOK
    <3>2. Cardinality(cur'.rates) \in 0 .. k /\ r = 0
      BY <2>2, <2>5, <3>1, FS_EmptySet DEF Take, Result
    <3>3. WorkLeft' = f * (k + 2) + (n - 1) * (k + 1) + Cardinality(cur'.rates)
      BY <2>5, <3>1 DEF Take, WorkLeft
    <3>4. WorkLeft = f * (k + 2) + n * (k + 1) + r
      BY DEF WorkLeft
    <3>5. f * (k + 2) \in Int /\ n * (k + 1) \in Int
      BY <2>1
    <3> HIDE DEF k, f, n, r
    <3>6. f * (k + 2) + (n - 1) * (k + 1) + Cardinality(cur'.rates) < f * (k + 2) + n * (k + 1)
      BY <2>1, <3>1, <3>2, Countdown
    <3> QED BY <3>2, <3>3, <3>4, <3>5, <3>6
  <2>6. ASSUME NEW c \in Codes, Store(c) PROVE WorkLeft' < WorkLeft
    <3>1. c \in cur.rates /\ cur'.rates = cur.rates \ {c}
      BY <2>6 DEF Store, FiatInv, TypeOK, Result
    <3>2. Cardinality(cur'.rates) = r - 1
      BY <2>3, <3>1, FS_RemoveElement
    <3>3. WorkLeft' = f * (k + 2) + n * (k + 1) + (r - 1)
      BY <2>6, <3>2 DEF Store, WorkLeft
    <3>4. WorkLeft = f * (k + 2) + n * (k + 1) + r
      BY DEF WorkLeft
    <3>5. f * (k + 2) \in Int /\ n * (k + 1) \in Int
      BY <2>1
    <3> HIDE DEF k, f, n, r
    <3> QED BY <2>3, <3>3, <3>4, <3>5
  <2> QED BY <2>4, <2>5, <2>6 DEF Next, RoundStart, StoreSome, RoundEnd, Crash, Toggle
<1> QED BY <1>1, AlwaysFiat, PTL DEF Spec, RoundGetsShorter
-----------------------------------------------------------------------------
(* The dex: powers of ten                                                  *)

\* The library states induction for an operator; for a set of numbers its fact
\* about well-founded relations does the same.
LEMMA LeastNumber ==
  ASSUME NEW S, S \subseteq Nat, S # {}
  PROVE  \E n \in S : \A m \in S : n <= m
<1> DEFINE R == {p \in Nat \X Nat : p[1] < p[2]}
<1>1. IsWellFoundedOn(R, Nat)
  <2>1. OpToRel(<, Nat) = R
    BY DEF OpToRel
  <2> QED BY <2>1, NatLessThanWellFounded
<1>2. PICK x \in S : \A y \in S : ~(<<y, x>> \in R)
  <2> HIDE DEF R
  <2> QED BY <1>1, WFMin
<1>3. \A y \in S : ~(y < x)
  <2> TAKE y \in S
  <2>1. <<y, x>> \in Nat \X Nat /\ <<y, x>>[1] = y /\ <<y, x>>[2] = x
    OBVIOUS
  <2> QED BY <1>2, <2>1
<1> QED BY <1>3

\* What a power of ten is.
Positive == Nat \ {0}
\* The first n + 1 powers of ten.
Powers(n) == {f \in [0 .. n -> Positive] : f[0] = 1 /\ \A i \in 1 .. n : f[i] = 10 * f[i - 1]}

\* Every finite piece of the table of powers exists, by the least n it would be
\* missing for.
LEMMA PowersExist == \A n \in Nat : Powers(n) # {}
<1> DEFINE Missing == {n \in Nat : Powers(n) = {}}
<1> SUFFICES ASSUME Missing # {} PROVE FALSE
  OBVIOUS
<1>1. PICK n \in Missing : \A m \in Missing : n <= m
  BY LeastNumber
<1>2. n # 0
  <2>1. [i \in 0 .. 0 |-> 1] \in Powers(0)
    BY DEF Powers, Positive
  <2> QED BY <2>1
<1>3. n \in Nat /\ n - 1 \in Nat /\ n - 1 \notin Missing
  BY <1>1, <1>2
<1>4. PICK f : f \in Powers(n - 1)
  BY <1>3
<1> DEFINE g == [i \in 0 .. n |-> IF i < n THEN f[i] ELSE 10 * f[n - 1]]
<1>5. f \in [0 .. n - 1 -> Positive] /\ f[0] = 1 /\ \A i \in 1 .. n - 1 : f[i] = 10 * f[i - 1]
  BY <1>4 DEF Powers
<1>6. g \in [0 .. n -> Positive]
  BY <1>3, <1>5 DEF Positive
<1>7. g[0] = 1 /\ \A i \in 1 .. n : g[i] = 10 * g[i - 1]
  BY <1>2, <1>3, <1>5
<1>8. g \in Powers(n)
  BY <1>6, <1>7 DEF Powers
<1> QED BY <1>1, <1>8

\* Two pieces agree where both are defined.
LEMMA PowersAgree ==
  ASSUME NEW n \in Nat, NEW m \in Nat, n <= m, NEW f \in Powers(n), NEW g \in Powers(m)
  PROVE  f[n] = g[n]
<1> DEFINE Differ == {i \in 0 .. n : f[i] # g[i]}
<1> SUFFICES ASSUME Differ # {} PROVE FALSE
  OBVIOUS
<1>0. Differ \subseteq Nat
  OBVIOUS
<1>1. PICK i \in Differ : \A j \in Differ : i <= j
  <2> HIDE DEF Differ
  <2> QED BY <1>0, LeastNumber
<1>2. f[0] = 1 /\ g[0] = 1
  BY DEF Powers
<1>3. i \in 1 .. n /\ i - 1 \in 0 .. n /\ i - 1 \notin Differ
  BY <1>1, <1>2
<1>4. f[i] = 10 * f[i - 1] /\ g[i] = 10 * g[i - 1]
  BY <1>3 DEF Powers
<1> QED BY <1>1, <1>3, <1>4

\* So the recursive definition defines a function, and its values are positive.
LEMMA PowersOfTen ==
  /\ Pow10 = [n \in Nat |-> IF n = 0 THEN 1 ELSE 10 * Pow10[n - 1]]
  /\ \A n \in Nat : Pow10[n] \in Positive
<1> DEFINE Pow(n) == CHOOSE f : f \in Powers(n)
           h == [n \in Nat |-> Pow(n)[n]]
<1>1. \A n \in Nat : Pow(n) \in Powers(n)
  BY PowersExist
<1>2. h[0] = 1
  BY <1>1 DEF Powers
<1>3. ASSUME NEW n \in Nat, n # 0 PROVE h[n] = 10 * h[n - 1]
  <2> HIDE DEF Pow
  <2>1. n - 1 \in Nat /\ n - 1 <= n /\ n \in 1 .. n
    BY <1>3
  <2>2. Pow(n) \in Powers(n) /\ Pow(n - 1) \in Powers(n - 1)
    BY <1>1, <2>1
  <2>3. Pow(n)[n] = 10 * Pow(n)[n - 1]
    BY <2>1, <2>2 DEF Powers
  <2>4. Pow(n - 1)[n - 1] = Pow(n)[n - 1]
    BY <2>1, <2>2, PowersAgree
  <2> QED BY <2>1, <2>3, <2>4
<1>4. h = [n \in Nat |-> IF n = 0 THEN 1 ELSE 10 * h[n - 1]]
  <2> HIDE DEF h
  <2>1. \A n \in Nat : h[n] = IF n = 0 THEN 1 ELSE 10 * h[n - 1]
    BY <1>2, <1>3
  <2>2. h = [n \in Nat |-> h[n]]
    BY DEF h
  <2> QED BY <2>1, <2>2
<1> DEFINE Table(f) == f = [n \in Nat |-> IF n = 0 THEN 1 ELSE 10 * f[n - 1]]
<1>5. \E f : Table(f)
  BY <1>4
<1>6. Pow10 = CHOOSE f : Table(f)
  BY DEF Pow10
<1>7. Table(Pow10)
  BY <1>5, <1>6
<1>8. \A n \in Nat : Pow10[n] \in Positive
  <2> DEFINE Odd == {n \in Nat : Pow10[n] \notin Positive}
  <2> SUFFICES ASSUME Odd # {} PROVE FALSE
    OBVIOUS
  <2>1. PICK n \in Odd : \A m \in Odd : n <= m
    BY LeastNumber
  <2>2. Pow10[n] = IF n = 0 THEN 1 ELSE 10 * Pow10[n - 1]
    BY <1>7
  <2>3. n = 0 \/ (n - 1 \in Nat /\ n - 1 \notin Odd)
    BY <2>1
  <2> QED BY <2>1, <2>2, <2>3 DEF Positive
<1> QED BY <1>7, <1>8

-----------------------------------------------------------------------------
(* The dex: prices                                                         *)

\* The base token's side of the pair.
BaseOf == CHOOSE t \in Tokens : t # quoted

\* How far a round has come, and what it knows by then: the contract it asks
\* is a pair from the second call on, and each decimals call has filled in one
\* half of the draft.
CallInv ==
    /\ contract \in {configured, "pair"}
    /\ contract = "pair" => configured # "neither"
    /\ draft \in [Tokens -> Decimals \cup {0}]
    /\ loop = "calling" =>
        /\ held \in lately
        /\ call \in {"token1", "decimals0", "decimals1", "symbol0", "symbol1"} =>
              contract = "pair"
        /\ call \in {"decimals1", "symbol0", "symbol1"} =>
              draft["token0"] = digits["token0"]
        /\ call \in {"symbol0", "symbol1"} => draft["token1"] = digits["token1"]

\* The metadata that is kept is complete and is that of the pair.
PairInv ==
    /\ loop = "calling" /\ call = "getReserves" => pair # Nothing
    /\ pair # Nothing =>
        /\ configured # "neither" /\ quoted \in Tokens
        /\ pair = [base |-> BaseOf, quote |-> quoted, decimals |-> digits]

\* The price that was logged last.
PriceInv ==
    /\ price # Nothing => pair # Nothing
    /\ price # Nothing /\ loop = "idle" => \E res \in lately : price = Worth(res)

TypeInv == digits \in [Tokens -> Decimals]

DexInv == TypeInv /\ CallInv /\ PairInv /\ PriceInv

LEMMA InitDex == DexInit => DexInv
<1> SUFFICES ASSUME DexInit PROVE DexInv
  OBVIOUS
<1>1. draft \in [Tokens -> Decimals \cup {0}]
  BY DEF DexInit, NoDigits
<1> QED BY <1>1 DEF DexInit, DexInv, TypeInv, CallInv, PairInv, PriceInv

LEMMA MissKeeps ==
  ASSUME DexInv, loop = "calling", Miss
  PROVE  DexInv'
<1>1. draft' \in [Tokens -> Decimals \cup {0}]
  BY DEF Miss, NoDigits
<1>2. loop' = "failed" \/ (loop' = loop /\ call' = "stakingToken")
  BY DEF Miss
<1>3. UNCHANGED <<configured, quoted, digits, held, lately, contract, pair, price>>
  BY DEF Miss, chain
<1> QED BY <1>1, <1>2, <1>3
        DEF DexInv, TypeInv, CallInv, PairInv, PriceInv, BaseOf, Worth

LEMMA StepDex == DexInv /\ [DexNext]_dexVars => DexInv'
<1> SUFFICES ASSUME DexInv, [DexNext]_dexVars PROVE DexInv'
  OBVIOUS
<1> USE DEF chain
<1>1. CASE UNCHANGED dexVars
  BY <1>1 DEF dexVars, round, DexInv, TypeInv, CallInv, PairInv, PriceInv, BaseOf, Worth
<1>2. CASE Begin
  <2>1. draft' \in [Tokens -> Decimals \cup {0}]
    BY <1>2 DEF Begin, NoDigits
  <2> QED BY <1>2, <2>1
          DEF Begin, DexInv, TypeInv, CallInv, PairInv, PriceInv, BaseOf, Worth
<1>3. CASE CallFails
  BY <1>3, MissKeeps DEF CallFails
<1>4. CASE AskToken
  BY <1>4 DEF AskToken, Following, DexInv, TypeInv, CallInv, PairInv, PriceInv, BaseOf, Worth
<1>5. CASE AskDecimals
  <2>1. CASE call = "decimals0"
    <3>1. draft' = [draft EXCEPT !["token0"] = digits["token0"]] /\ call' = "decimals1"
      BY <1>5, <2>1 DEF AskDecimals, Following
    <3>2. digits["token0"] \in Decimals
      BY DEF DexInv, TypeInv, Tokens
    <3>3. draft' \in [Tokens -> Decimals \cup {0}] /\ draft'["token0"] = digits["token0"]
      BY <3>1, <3>2 DEF DexInv, CallInv, Tokens
    <3> QED BY <1>5, <2>1, <3>1, <3>3
            DEF AskDecimals, DexInv, TypeInv, CallInv, PairInv, PriceInv, BaseOf, Worth
  <2>2. CASE call = "decimals1"
    <3>1. draft' = [draft EXCEPT !["token1"] = digits["token1"]] /\ call' = "symbol0"
      BY <1>5, <2>2 DEF AskDecimals, Following
    <3>2. digits["token1"] \in Decimals /\ loop = "calling"
      BY <1>5 DEF AskDecimals, DexInv, TypeInv, Tokens
    <3>3. draft["token0"] = digits["token0"]
      BY <2>2, <3>2 DEF DexInv, CallInv
    <3>4. draft' \in [Tokens -> Decimals \cup {0}]
          /\ draft'["token0"] = digits["token0"] /\ draft'["token1"] = digits["token1"]
      BY <3>1, <3>2, <3>3 DEF DexInv, CallInv, Tokens
    <3> QED BY <1>5, <2>2, <3>1, <3>4
            DEF AskDecimals, DexInv, TypeInv, CallInv, PairInv, PriceInv, BaseOf, Worth
  <2> QED BY <1>5, <2>1, <2>2 DEF AskDecimals
<1>6. CASE AskSymbol
  <2>1. CASE call = "symbol0"
    BY <1>6, <2>1
       DEF AskSymbol, DexInv, TypeInv, CallInv, PairInv, PriceInv, BaseOf, Worth
  <2>2. CASE call = "symbol1" /\ quoted \notin Tokens
    BY <1>6, <2>2, MissKeeps DEF AskSymbol
  <2>3. CASE call = "symbol1" /\ quoted \in Tokens
    <3>1. loop = "calling" /\ draft["token0"] = digits["token0"]
          /\ draft["token1"] = digits["token1"] /\ contract = "pair" /\ configured # "neither"
      BY <1>6, <2>3 DEF AskSymbol, DexInv, CallInv
    <3>2. draft = digits
      BY <3>1 DEF DexInv, TypeInv, CallInv, Tokens
    <3>3. pair' = [base |-> BaseOf, quote |-> quoted, decimals |-> digits]
      BY <1>6, <2>3, <3>2 DEF AskSymbol, BaseOf
    <3>4. pair' # Nothing
      <4> SUFFICES ASSUME pair' = Nothing PROVE FALSE
        OBVIOUS
      <4>1. DOMAIN pair' = {"base", "quote", "decimals"} /\ DOMAIN pair' = {"none"}
        BY <3>3 DEF Nothing
      <4> QED BY <4>1
    <3> QED BY <1>6, <2>3, <3>1, <3>3, <3>4
            DEF AskSymbol, DexInv, TypeInv, CallInv, PairInv, PriceInv, BaseOf, Worth
  <2> QED BY <1>6, <2>1, <2>2, <2>3 DEF AskSymbol
<1>7. CASE AskStakingToken
  BY <1>7 DEF AskStakingToken, DexInv, TypeInv, CallInv, PairInv, PriceInv, BaseOf, Worth
<1>8. CASE AskReserves
  <2>1. pair = [base |-> BaseOf, quote |-> quoted, decimals |-> digits] /\ pair # Nothing
        /\ held \in lately /\ loop = "calling"
    BY <1>8 DEF AskReserves, DexInv, CallInv, PairInv
  <2>2. CalcPrice(pair, held) = Worth(held)
    BY <2>1 DEF CalcPrice, Worth, BaseOf
  <2>3. CASE held[pair.base] = 0
    BY <1>8, <2>3 DEF AskReserves, DexInv, TypeInv, CallInv, PairInv, PriceInv, BaseOf, Worth
  <2>4. CASE held[pair.base] # 0
    <3>1. price' = Worth(held) /\ loop' = "idle" /\ UNCHANGED <<chain, lately, call, contract, draft, pair>>
      BY <1>8, <2>2, <2>4 DEF AskReserves
    <3>2. \E res \in lately' : price' = Worth(res)'
      BY <2>1, <3>1 DEF Worth
    <3> QED BY <2>1, <3>1, <3>2 DEF DexInv, TypeInv, CallInv, PairInv, PriceInv, BaseOf
  <2> QED BY <2>3, <2>4
<1>9. CASE Stop
  BY <1>9 DEF Stop, DexInv, TypeInv, CallInv, PairInv, PriceInv, BaseOf, Worth
<1>10. CASE Restart
  <2>1. draft' \in [Tokens -> Decimals \cup {0}]
    BY <1>10 DEF Restart, NoDigits
  <2> QED BY <1>10, <2>1 DEF Restart, DexInv, TypeInv, CallInv, PairInv, PriceInv
<1>11. CASE Trade
  <2>1. lately \subseteq lately' /\ (loop = "calling" => held' \in lately')
    BY <1>11 DEF Trade
  <2>2. UNCHANGED <<configured, quoted, digits, loop, call, contract, draft, pair, price>>
    BY <1>11 DEF Trade
  <2> QED BY <2>1, <2>2 DEF DexInv, TypeInv, CallInv, PairInv, PriceInv, BaseOf, Worth
<1> QED BY <1>1, <1>2, <1>3, <1>4, <1>5, <1>6, <1>7, <1>8, <1>9, <1>10, <1>11 DEF DexNext

\* A price is logged only for a pair that was found and that has the quote
\* token, and it is right for some moment of the round
\* (fetch_dex_market.go:251-347, 468-507).
THEOREM PriceCorrect == DexSpec => []PriceOfThisRound
<1>1. DexInv => PriceOfThisRound
  BY DEF DexInv, PairInv, PriceInv, PriceOfThisRound
<1> QED BY <1>1, InitDex, StepDex, PTL DEF DexSpec
\* A price has a denominator: both factors are positive.
LEMMA PriceType ==
  ASSUME NEW a \in Nat, NEW b \in Positive, NEW p \in Positive, NEW q \in Positive
  PROVE  [num |-> a * p, den |-> b * q] \in [num : Nat, den : Nat \ {0}]
<1>1. a * p \in Nat
  BY DEF Positive
<1>2. b * q \in Nat /\ b * q # 0
  BY DEF Positive
<1> QED BY <1>1, <1>2

LEMMA InitDexTypes == DexInit => DexTypeOK
<1> SUFFICES ASSUME DexInit PROVE DexTypeOK
  OBVIOUS
<1>1. draft \in [Tokens -> Decimals \cup {0}] /\ changes \in 0 .. MaxChanges
  BY DexAssumption DEF DexInit, NoDigits
<1> QED BY <1>1 DEF DexInit, DexTypeOK, Calls

LEMMA StepDexTypes == DexInv /\ DexTypeOK /\ [DexNext]_dexVars => DexTypeOK'
<1> SUFFICES ASSUME DexInv, DexTypeOK, [DexNext]_dexVars PROVE DexTypeOK'
  OBVIOUS
<1> USE DEF chain
<1>1. DexInv'
  BY StepDex
<1>2. contract' \in {configured', "pair"} /\ draft' \in [Tokens -> Decimals \cup {0}]'
  BY <1>1 DEF DexInv, CallInv
<1>3. pair' = Nothing \/
        pair' \in [base : Tokens \ {quoted'}, quote : {quoted'}, decimals : {digits'}]
  <2> SUFFICES ASSUME pair' # Nothing
               PROVE  pair' \in [base : Tokens \ {quoted'}, quote : {quoted'}, decimals : {digits'}]
    BY DEF Nothing
  <2>1. quoted' \in Tokens /\ pair' = [base |-> BaseOf', quote |-> quoted', decimals |-> digits']
    BY <1>1 DEF DexInv, PairInv, Nothing
  <2>2. BaseOf' \in Tokens \ {quoted'}
    <3>1. \E t \in Tokens : t # quoted'
      BY DEF Tokens
    <3> QED BY <3>1 DEF BaseOf
  <2> QED BY <2>1, <2>2
<1>4. /\ configured' \in {"pair", "staking", "neither"} /\ quoted' \in Tokens \cup {"other"}
      /\ digits' \in [Tokens -> Decimals] /\ held' \in [Tokens -> Reserves]
      /\ changes' \in 0 .. MaxChanges
  <2>1. CASE Trade
    BY <2>1, DexAssumption DEF Trade, DexTypeOK
  <2>2. CASE UNCHANGED chain
    BY <2>2 DEF DexTypeOK
  <2> QED BY <2>1, <2>2 DEF DexNext, dexVars, Begin, CallFails, Miss, AskToken, AskDecimals,
        AskSymbol, AskStakingToken, AskReserves, Stop, Restart
<1>5. lately' \subseteq [Tokens -> Reserves]
  BY DEF DexTypeOK, DexNext, dexVars, round, Begin, CallFails, Miss, AskToken, AskDecimals,
     AskSymbol, AskStakingToken, AskReserves, Stop, Restart, Trade
<1>6. loop' \in {"idle", "calling", "stopped", "failed"} /\ call' \in Calls
  BY DEF DexTypeOK, Calls, DexNext, dexVars, round, Begin, CallFails, Miss, AskToken, AskDecimals,
     AskSymbol, Following, AskStakingToken, AskReserves, Stop, Restart, Trade
<1>7. price' = Nothing \/ price' \in [num : Nat, den : Nat \ {0}]
  <2>1. CASE AskReserves
    <3>1. CASE held[pair.base] = 0
      BY <2>1, <3>1 DEF AskReserves, DexTypeOK
    <3>2. CASE held[pair.base] # 0
      <4>1. /\ pair.base \in Tokens /\ pair.quote \in Tokens /\ pair.decimals = digits
        BY <2>1 DEF AskReserves, DexInv, PairInv, DexTypeOK, BaseOf, Tokens
      <4>2. held[pair.quote] \in Nat /\ held[pair.base] \in Positive
        BY <3>2, <4>1, DexAssumption DEF DexTypeOK, Positive
      <4>3. \A t \in Tokens : Pow10[digits[t]] \in Positive
        BY PowersOfTen, DexAssumption DEF DexTypeOK
      <4>4. CalcPrice(pair, held) \in [num : Nat, den : Nat \ {0}]
        BY <4>1, <4>2, <4>3, PriceType DEF CalcPrice
      <4> QED BY <2>1, <3>2, <4>4 DEF AskReserves
    <3> QED BY <3>1, <3>2
  <2>2. CASE Restart
    BY <2>2 DEF Restart
  <2>3. CASE UNCHANGED price
    BY <2>3 DEF DexTypeOK, Nothing
  <2> QED BY <2>1, <2>2, <2>3 DEF DexNext, dexVars, round, Begin, CallFails, Miss, AskToken,
        AskDecimals, AskSymbol, AskStakingToken, Stop, Trade
<1> QED BY <1>2, <1>3, <1>4, <1>5, <1>6, <1>7 DEF DexTypeOK

\* The state is well typed: the metadata that is kept is that of the pair and
\* complete, and no price is ever divided by zero, however many decimals the
\* tokens have (fetch_dex_market.go:468-507).
THEOREM DexTypeCorrect == DexSpec => []DexTypeOK
<1>1. DexSpec => [](DexInv /\ DexTypeOK)
  BY InitDex, StepDex, InitDexTypes, StepDexTypes, PTL DEF DexSpec
<1> QED BY <1>1, PTL
=============================================================================
