---------------------------- MODULE CandleBoard ----------------------------
(***************************************************************************)
(* What the tables exchange_symbol_kline and symbol_kline promise to those *)
(* who read them: candles arrive in batches, each of minutes that were     *)
(* over when the batch was begun; a symbol's candle counts only           *)
(* exchanges whose own candle is stored; and nothing that is stored or     *)
(* counted ever goes away again.                                           *)
(***************************************************************************)
EXTENDS Naturals

CONSTANT Pairs   \* an exchange's rows of a symbol

VARIABLES
    now,      \* the current minute
    stored,   \* candles in exchange_symbol_kline, as pair and minute
    counted   \* candles that are part of their symbol's

Init == now = 0 /\ stored = {} /\ counted = {}

\* The minutes a batch begun in minute `cut' may hold.
Closed(cut) == {k \in 0 .. cut : k < cut}

Store ==
    /\ stored \subseteq stored'
    /\ \E cut \in 0 .. now : stored' \ stored \subseteq Pairs \X Closed(cut)
    /\ UNCHANGED <<now, counted>>

Count ==
    /\ counted \subseteq counted' /\ counted' \subseteq counted \cup stored
    /\ UNCHANGED <<now, stored>>

Tick == now' = now + 1 /\ UNCHANGED <<stored, counted>>

Next == Store \/ Count \/ Tick

Spec == Init /\ [][Next]_<<now, stored, counted>>
=============================================================================
