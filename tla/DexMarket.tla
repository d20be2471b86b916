----------------------------- MODULE DexMarket -----------------------------
(***************************************************************************)
(* The dex process: every round it reads the reserves of one liquidity     *)
(* pair from a node of the chain and turns them into the price of the base *)
(* token in units of the quote token.  The first round also asks what the  *)
(* pair is made of, seven calls one after another, each of which may fail, *)
(* and finds the pair behind a staking contract when that is what was      *)
(* configured.  The reserves change all the time.                          *)
(***************************************************************************)
EXTENDS Integers

CONSTANTS
    Decimals,     \* decimals a token may have
    Reserves,     \* amounts a pair may hold, in the smallest units
    MaxChanges    \* bound: changes of the reserves explored

ASSUME DexAssumption ==
    Decimals \subseteq Nat /\ Reserves \subseteq Nat /\ MaxChanges \in Nat

Tokens == {"token0", "token1"}

\* pow10: ten to the number of decimals.
Pow10[n \in Nat] == IF n = 0 THEN 1 ELSE 10 * Pow10[n - 1]

\* Faulty variant: both amounts are scaled by the decimals of the base token.
CalcPriceOneScale(pair, res) ==
    [num |-> res[pair.quote] * Pow10[pair.decimals[pair.base]],
     den |-> res[pair.base] * Pow10[pair.decimals[pair.base]]]

\* Quote per base, each amount divided by ten to its token's decimals.
CalcPrice(pair, res) ==
    [num |-> res[pair.quote] * Pow10[pair.decimals[pair.base]],
     den |-> res[pair.base] * Pow10[pair.decimals[pair.quote]]]

VARIABLES
    configured,   \* what TokenPair is at the start: "pair", "staking" or "neither"
    quoted,       \* the token QuoteTokenAddress names; "other": none of the pair
    digits,       \* the decimals of the two tokens
    held,         \* the reserves on the chain
    changes,      \* bounded by MaxChanges
    lately,       \* history: the reserves held since the round began
    loop,         \* "idle", "calling", "stopped", "failed"
    call,         \* the next call of a round
    contract,     \* the contract asked: "pair", "staking" or "neither"
    draft,        \* what fetchPairMetadata has read so far
    pair,         \* the cached metadata
    price         \* the last price logged

chain == <<configured, quoted, digits, held, changes>>
round == <<lately, loop, call, contract, draft, pair, price>>
dexVars == <<chain, round>>

Nothing == [none |-> TRUE]
NoDigits == [t \in Tokens |-> 0]

DexInit ==
    /\ configured \in {"pair", "staking", "neither"}
    /\ quoted \in Tokens \cup {"other"}
    /\ digits \in [Tokens -> Decimals]
    /\ held \in [Tokens -> Reserves]
    /\ changes = 0
    /\ lately = {} /\ loop = "idle" /\ call = "token0"
    /\ contract = configured /\ draft = NoDigits
    /\ pair = Nothing /\ price = Nothing

-----------------------------------------------------------------------------
(* A round                                                                 *)

\* The order of the calls of fetchPairMetadata.
Following ==
    [token0 |-> "token1", token1 |-> "decimals0", decimals0 |-> "decimals1",
     decimals1 |-> "symbol0", symbol0 |-> "symbol1"]

Begin ==
    /\ loop = "idle" /\ loop' = "calling"
    /\ lately' = {held}
    /\ call' = IF pair = Nothing THEN "token0" ELSE "getReserves"
    /\ contract' = IF pair = Nothing THEN configured ELSE "pair"
    /\ draft' = NoDigits
    /\ UNCHANGED <<chain, pair, price>>

\* A call fails, or the answer cannot be unpacked: what was configured may be
\* a staking contract; after that the sync has failed, and the process with it.
Miss ==
    /\ IF call \in {"stakingToken", "getReserves"} \/ contract # configured
       THEN loop' = "failed" /\ UNCHANGED call
       ELSE call' = "stakingToken" /\ UNCHANGED loop
    /\ draft' = NoDigits
    /\ UNCHANGED <<chain, lately, contract, pair, price>>

\* Any call may fail, but a symbol is only a name: its address will do.
CallFails ==
    /\ loop = "calling" /\ call \notin {"symbol0", "symbol1"}
    /\ Miss

\* Only a pair knows its tokens.
AskToken ==
    /\ loop = "calling" /\ call \in {"token0", "token1"} /\ contract = "pair"
    /\ call' = Following[call]
    /\ UNCHANGED <<chain, lately, loop, contract, draft, pair, price>>

AskDecimals ==
    /\ loop = "calling" /\ call \in {"decimals0", "decimals1"}
    /\ LET t == IF call = "decimals0" THEN "token0" ELSE "token1"
       IN  draft' = [draft EXCEPT ![t] = digits[t]]
    /\ call' = Following[call]
    /\ UNCHANGED <<chain, lately, loop, contract, pair, price>>

\* The symbols are fetched, or the addresses taken; then the quote token must
\* be one of the two, and the metadata is kept for good.
AskSymbol ==
    /\ loop = "calling" /\ call \in {"symbol0", "symbol1"}
    /\ IF call = "symbol0"
       THEN call' = "symbol1" /\ UNCHANGED <<chain, lately, loop, contract, draft, pair, price>>
       ELSE IF quoted \notin Tokens THEN Miss
       ELSE /\ pair' = [base |-> CHOOSE t \in Tokens : t # quoted, quote |-> quoted,
                        decimals |-> draft]
            /\ call' = "getReserves"
            /\ UNCHANGED <<chain, lately, loop, contract, draft, price>>

\* Only a staking contract knows a staking token.
AskStakingToken ==
    /\ loop = "calling" /\ call = "stakingToken" /\ contract = "staking"
    /\ contract' = "pair" /\ call' = "token0"
    /\ UNCHANGED <<chain, lately, loop, draft, pair, price>>

\* Both amounts come with one call; nothing is divided by zero.
AskReserves ==
    /\ loop = "calling" /\ call = "getReserves" /\ contract = "pair"
    /\ IF held[pair.base] = 0
       THEN loop' = "failed" /\ UNCHANGED price
       ELSE loop' = "idle" /\ price' = CalcPrice(pair, held)
    /\ UNCHANGED <<chain, lately, call, contract, draft, pair>>

\* The loop sees the cancellation between two rounds.
Stop ==
    /\ loop = "idle" /\ loop' = "stopped"
    /\ UNCHANGED <<chain, lately, call, contract, draft, pair, price>>

\* The process is started again.
Restart ==
    /\ loop \in {"stopped", "failed"} /\ loop' = "idle"
    /\ call' = "token0" /\ contract' = configured /\ draft' = NoDigits
    /\ pair' = Nothing /\ price' = Nothing /\ lately' = {}
    /\ UNCHANGED chain

\* Somebody trades with the pair.
Trade ==
    /\ changes < MaxChanges /\ changes' = changes + 1
    /\ held' \in [Tokens -> Reserves]
    /\ lately' = IF loop = "calling" THEN lately \cup {held'} ELSE lately
    /\ UNCHANGED <<configured, quoted, digits, loop, call, contract, draft, pair, price>>

DexNext ==
    \/ Begin \/ CallFails \/ AskToken \/ AskDecimals \/ AskSymbol
    \/ AskStakingToken \/ AskReserves \/ Stop \/ Restart \/ Trade

DexSpec == DexInit /\ [][DexNext]_dexVars

-----------------------------------------------------------------------------
(* Properties                                                              *)

Calls == {"token0", "token1", "decimals0", "decimals1", "symbol0", "symbol1",
          "stakingToken", "getReserves"}

\* Types; metadata is cached for the quote token that was configured.
DexTypeOK ==
    /\ configured \in {"pair", "staking", "neither"} /\ quoted \in Tokens \cup {"other"}
    /\ digits \in [Tokens -> Decimals] /\ held \in [Tokens -> Reserves]
    /\ changes \in 0 .. MaxChanges
    /\ lately \subseteq [Tokens -> Reserves]
    /\ loop \in {"idle", "calling", "stopped", "failed"} /\ call \in Calls
    /\ contract \in {configured, "pair"} /\ draft \in [Tokens -> Decimals \cup {0}]
    /\ pair = Nothing \/
         pair \in [base : Tokens \ {quoted}, quote : {quoted}, decimals : {digits}]
    /\ price = Nothing \/ price \in [num : Nat, den : Nat \ {0}]

\* Quote tokens per base token for these reserves, by the tokens' own decimals.
Worth(res) ==
    LET base == CHOOSE t \in Tokens : t # quoted
    IN  [num |-> res[quoted] * Pow10[digits[base]], den |-> res[base] * Pow10[digits[quoted]]]

\* A price is logged only if the quote token is one of the pair and a pair
\* was found, and it is a price the pair had at some moment of the round,
\* whatever failed before and however the contract was found
\* (fetch_dex_market.go:251-347, 468-507).
PriceOfThisRound ==
    price # Nothing =>
        /\ configured # "neither" /\ quoted \in Tokens
        /\ loop = "idle" =>
              \E res \in lately : price.num * Worth(res).den = Worth(res).num * price.den
=============================================================================
