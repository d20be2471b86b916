----------------------- MODULE MCServiceLifecycle -----------------------
(* The three services of cmd/market-services with background loops.        *)
EXTENDS ServiceLifecycle

Crawler == [n |-> 3, eager |-> {2}, deaf |-> {3}, noisy |-> {3}, vocal |-> {},
            spawning |-> {3}]
Worker  == [n |-> 2, eager |-> {2}, deaf |-> {}, noisy |-> {}, vocal |-> {},
            spawning |-> {}]
Dex     == [n |-> 1, eager |-> {1}, deaf |-> {}, noisy |-> {}, vocal |-> {1},
            spawning |-> {}]

AllServices == {Crawler, Worker, Dex}
=============================================================================
