---------------------------- MODULE MarketBoard ----------------------------
(***************************************************************************)
(* What the tables symbol_market and symbol_market_currency promise to the *)
(* services that read them.  Exchanges move from one order book to the     *)
(* next; a publication is a new market row of a symbol, whose prices are   *)
(* those of fetched books and never older than what any earlier row has    *)
(* shown, and the fiat prices it touches show that row in the same         *)
(* instant.  There is no crash, no cache and no expiry here.               *)
(***************************************************************************)
EXTENDS Naturals

CONSTANTS
    Pairs,      \* an exchange's quotes of a symbol
    Symbols,
    SymbolOf,   \* the symbol of each pair
    Currencies

VARIABLES
    book,     \* number of the newest book of each pair, 0 for none
    shown,    \* number of the newest book shown, per price and pair
    latest,   \* number of the latest market row of each symbol, 0 for none
    fiat      \* the row each fiat price of a symbol was made from, 0 for none

Prices == {"avg", "ask", "bid"}

Init ==
    /\ book = [p \in Pairs |-> 0]
    /\ shown = [f \in Prices |-> [p \in Pairs |-> 0]]
    /\ latest = [s \in Symbols |-> 0]
    /\ fiat = [s \in Symbols |-> [c \in Currencies |-> 0]]

NewBook(p) ==
    /\ book' = [book EXCEPT ![p] = @ + 1]
    /\ UNCHANGED <<shown, latest, fiat>>

\* The prices of s move on, each as far as it likes within the books there are.
MoveOn(s) ==
    /\ shown' \in [Prices -> [Pairs -> Nat]]
    /\ \A f \in Prices, p \in Pairs :
         IF SymbolOf[p] = s
         THEN shown[f][p] <= shown'[f][p] /\ shown'[f][p] <= book[p]
         ELSE shown'[f][p] = shown[f][p]

Publish(s, chosen) ==
    /\ MoveOn(s)
    /\ latest' = [latest EXCEPT ![s] = @ + 1]
    /\ fiat' = [fiat EXCEPT ![s] =
                  [c \in Currencies |-> IF c \in chosen THEN latest[s] + 1 ELSE @[c]]]
    /\ UNCHANGED book

Next ==
    \/ \E p \in Pairs : NewBook(p)
    \/ \E s \in Symbols, chosen \in SUBSET Currencies : Publish(s, chosen)

Spec == Init /\ [][Next]_<<book, shown, latest, fiat>>
=============================================================================
