----------------------------- MODULE MCStartup -----------------------------
(* All commands of cmd/market-services.                                    *)
EXTENDS Startup, MCServiceLifecycle

ServicesByCommand == [crawler |-> Crawler, worker |-> Worker, dex |-> Dex]
=============================================================================
