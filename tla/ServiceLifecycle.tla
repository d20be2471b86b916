------------------------- MODULE ServiceLifecycle -------------------------
(***************************************************************************)
(* One service process from its command to its exit status:                *)
(* cliapp.lifecycleCmd, the interrupt watchers of opio, and the background *)
(* loops of the crawler, the worker or the dex service, each in a          *)
(* tasks.Group of its own.  Stop closes the loops one after the other:     *)
(* cancel, wait for the goroutine, give up at the first error.             *)
(*                                                                         *)
(*   crawler: 1 order book, 2 exchange klines (eager), 3 fiat (deaf, noisy,*)
(*            spawning)                                                    *)
(*   worker:  1 market price, 2 symbol klines (eager)                      *)
(*   dex:     1 pair price (eager, vocal)                                  *)
(***************************************************************************)
EXTENDS Naturals

CONSTANTS
    Services,    \* the services: how many loops each has, and of what kind
    MaxSignals   \* bound: interrupts sent to the process

(***************************************************************************)
(* A service has loops 1 .. n, in the order Start and Stop visit them, and *)
(* of them                                                                 *)
(*   eager     run a sync before their first tick,                         *)
(*   deaf      never get an error from their sync,                         *)
(*   noisy     return an error when they are told to stop,                 *)
(*   vocal     call HandleCrit when a sync fails,                          *)
(*   spawning  start plain goroutines in their sync, in no tasks.Group.    *)
(***************************************************************************)
ASSUME LifecycleAssumption ==
    /\ \A s \in Services : s.n \in Nat \ {0}
    /\ MaxSignals \in Nat

VARIABLES
    svc,        \* the service this process runs
    ctl,        \* where lifecycleCmd is
    k,          \* the loop Start or Stop is at
    loop,       \* what each loop's goroutine is doing
    outcome,    \* how it ended
    cancelled,  \* loops whose resource context is cancelled
    appDone,    \* the application context is cancelled
    watch,      \* the two goroutines that wait for an interrupt
    forced,     \* the stop context was cancelled by an interrupt
    sent,       \* interrupts sent so far
    exit        \* exit status of the process

Loops == 1 .. svc.n
Watchers == {"app", "stop"}

vars == <<svc, ctl, k, loop, outcome, cancelled, appDone, watch, forced, sent, exit>>

Init ==
    /\ svc \in Services
    /\ ctl = "setup" /\ k = 1
    /\ loop = [i \in Loops |-> "off"]
    /\ outcome = [i \in Loops |-> "none"]
    /\ cancelled = {}
    /\ appDone = FALSE
    /\ watch = [w \in Watchers |-> IF w = "app" THEN "new" ELSE "off"]
    /\ forced = FALSE
    /\ sent = 0
    /\ exit = "none"

Alive == ctl # "done"

-----------------------------------------------------------------------------
(* The goroutine of the command.                                           *)

\* The factory (config, database, Redis, constructors) succeeds or fails.
\* It does not look at the application context.
SetupOk ==
    /\ ctl = "setup"
    /\ ctl' = "start"
    /\ UNCHANGED <<svc, k, loop, outcome, cancelled, appDone, watch, forced, sent, exit>>

SetupFail ==
    /\ ctl = "setup"
    /\ ctl' = "done" /\ exit' = "failed"
    /\ UNCHANGED <<svc, k, loop, outcome, cancelled, appDone, watch, forced, sent>>

\* Start of one loop: its goroutine exists, no loop's Start can fail.
StartLoop ==
    /\ ctl = "start"
    /\ loop' = [loop EXCEPT ![k] = IF k \in svc.eager THEN "sync" ELSE "wait"]
    /\ IF k = svc.n THEN ctl' = "run" /\ k' = 1
                ELSE k' = k + 1 /\ UNCHANGED ctl
    /\ UNCHANGED <<svc, outcome, cancelled, appDone, watch, forced, sent, exit>>

\* appCtx is done: the stop context is made, and a second watcher with it.
BeginStop ==
    /\ ctl = "run" /\ appDone
    /\ ctl' = "stop"
    /\ watch' = [watch EXCEPT !["stop"] = "new"]
    /\ UNCHANGED <<svc, k, loop, outcome, cancelled, appDone, forced, sent, exit>>

\* Faulty variant: Close waits for a loop it has not cancelled.
CancelForgotten ==
    /\ ctl = "stop"
    /\ ctl' = "join"
    /\ UNCHANGED <<svc, k, loop, outcome, cancelled, appDone, watch, forced, sent, exit>>

\* Close of loop k: resourceCancel(), then tasks.Wait().
Cancel ==
    /\ ctl = "stop"
    /\ cancelled' = cancelled \cup {k}
    /\ ctl' = "join"
    /\ UNCHANGED <<svc, k, loop, outcome, appDone, watch, forced, sent, exit>>

\* What a loop's goroutine returned to its errgroup.
Erred(i) == outcome[i] \in {"error", "stopped"}

\* Faulty variant: the loop is cancelled but not waited for.
JoinNoWait ==
    /\ ctl = "join"
    /\ IF Erred(k) THEN ctl' = "done" /\ exit' = "failed" /\ UNCHANGED k
       ELSE IF k = svc.n THEN ctl' = "done" /\ exit' = "clean" /\ UNCHANGED k
       ELSE ctl' = "stop" /\ k' = k + 1 /\ UNCHANGED exit
    /\ UNCHANGED <<svc, loop, outcome, cancelled, appDone, watch, forced, sent>>

\* Faulty variant: the loops share one group, whose first error ends the stop.
JoinShared ==
    /\ ctl = "join"
    /\ \/ \E i \in Loops : Erred(i) /\ ctl' = "done" /\ exit' = "failed" /\ UNCHANGED k
       \/ /\ loop[k] = "gone" /\ ~Erred(k)
          /\ IF k = svc.n THEN ctl' = "done" /\ exit' = "clean" /\ UNCHANGED k
                      ELSE ctl' = "stop" /\ k' = k + 1 /\ UNCHANGED exit
    /\ UNCHANGED <<svc, loop, outcome, cancelled, appDone, watch, forced, sent>>

\* tasks.Wait() returns.  An error ends Stop, and with it the process, before
\* the loops that come after k are cancelled.  Whatever happens to the stop
\* context, neither Stop nor Wait looks at it.
Join ==
    /\ ctl = "join" /\ loop[k] = "gone"
    /\ IF Erred(k) THEN ctl' = "done" /\ exit' = "failed" /\ UNCHANGED k
       ELSE IF k = svc.n THEN ctl' = "done" /\ exit' = "clean" /\ UNCHANGED k
       ELSE ctl' = "stop" /\ k' = k + 1 /\ UNCHANGED exit
    /\ UNCHANGED <<svc, loop, outcome, cancelled, appDone, watch, forced, sent>>

Command == SetupOk \/ SetupFail \/ StartLoop \/ BeginStop \/ Cancel \/ Join

-----------------------------------------------------------------------------
(* Interrupts.  main registers a channel that only CancelOnInterrupt reads,*)
(* so an interrupt no watcher listens for is swallowed.                    *)

\* A watcher reaches signal.Notify.
Listen(w) ==
    /\ Alive /\ watch[w] = "new"
    /\ watch' = [watch EXCEPT ![w] = "listening"]
    /\ UNCHANGED <<svc, ctl, k, loop, outcome, cancelled, appDone, forced, sent, exit>>

\* The application context is done for another reason: its watcher leaves.
StopListening ==
    /\ Alive /\ watch["app"] = "listening" /\ appDone
    /\ watch' = [watch EXCEPT !["app"] = "off"]
    /\ UNCHANGED <<svc, ctl, k, loop, outcome, cancelled, appDone, forced, sent, exit>>

Interrupt ==
    /\ Alive /\ sent < MaxSignals
    /\ sent' = sent + 1
    /\ appDone' = (appDone \/ watch["app"] = "listening")
    /\ forced' = (forced \/ watch["stop"] = "listening")
    /\ watch' = [w \in Watchers |->
                    IF watch[w] = "listening" THEN "off" ELSE watch[w]]
    /\ UNCHANGED <<svc, ctl, k, loop, outcome, cancelled, exit>>

-----------------------------------------------------------------------------
(* The loops.                                                              *)

\* The select takes the ticker, which it may do after cancellation too: with
\* both channels ready Go chooses at random.
Tick(i) ==
    /\ Alive /\ loop[i] = "wait"
    /\ loop' = [loop EXCEPT ![i] = "sync"]
    /\ UNCHANGED <<svc, ctl, k, outcome, cancelled, appDone, watch, forced, sent, exit>>

SyncOk(i) ==
    /\ Alive /\ loop[i] = "sync"
    /\ loop' = [loop EXCEPT ![i] = "wait"]
    /\ UNCHANGED <<svc, ctl, k, outcome, cancelled, appDone, watch, forced, sent, exit>>

\* Faulty variant: no loop reports its error to the application context.
SyncErrorMute(i) ==
    /\ Alive /\ loop[i] = "sync" /\ i \notin svc.deaf
    /\ loop' = [loop EXCEPT ![i] = "gone"]
    /\ outcome' = [outcome EXCEPT ![i] = "error"]
    /\ UNCHANGED <<svc, ctl, k, cancelled, appDone, watch, forced, sent, exit>>

\* A sync returns an error: the goroutine ends.  Nobody is told, unless the
\* loop itself calls HandleCrit.
SyncError(i) ==
    /\ Alive /\ loop[i] = "sync" /\ i \notin svc.deaf
    /\ loop' = [loop EXCEPT ![i] = "gone"]
    /\ outcome' = [outcome EXCEPT ![i] = "error"]
    /\ appDone' = (appDone \/ i \in svc.vocal)
    /\ UNCHANGED <<svc, ctl, k, cancelled, watch, forced, sent, exit>>

\* The goroutine of a loop panics in its sync: tasks.Group recovers, calls
\* HandleCrit, which cancels the application context, and the goroutine
\* returns nil.
SyncPanic(i) ==
    /\ Alive /\ loop[i] = "sync"
    /\ loop' = [loop EXCEPT ![i] = "gone"]
    /\ outcome' = [outcome EXCEPT ![i] = "panic"]
    /\ appDone' = TRUE
    /\ UNCHANGED <<svc, ctl, k, cancelled, watch, forced, sent, exit>>

\* A goroutine that a sync has started panics.  Nothing recovers it: the
\* process dies where it stands.
SpawnedPanic(i) ==
    /\ Alive /\ loop[i] = "sync" /\ i \in svc.spawning
    /\ ctl' = "done" /\ exit' = "crashed"
    /\ UNCHANGED <<svc, k, loop, outcome, cancelled, appDone, watch, forced, sent>>

\* Faulty variant: every loop returns an error when it is told to stop.
QuitNoisy(i) ==
    /\ Alive /\ loop[i] = "wait" /\ i \in cancelled
    /\ loop' = [loop EXCEPT ![i] = "gone"]
    /\ outcome' = [outcome EXCEPT ![i] = "stopped"]
    /\ UNCHANGED <<svc, ctl, k, cancelled, appDone, watch, forced, sent, exit>>

\* The select takes resourceCtx.Done().
Quit(i) ==
    /\ Alive /\ loop[i] = "wait" /\ i \in cancelled
    /\ loop' = [loop EXCEPT ![i] = "gone"]
    /\ outcome' = [outcome EXCEPT ![i] = IF i \in svc.noisy THEN "stopped" ELSE "ok"]
    /\ UNCHANGED <<svc, ctl, k, cancelled, appDone, watch, forced, sent, exit>>

SyncEnd(i) == SyncOk(i) \/ SyncError(i) \/ SyncPanic(i)

\* The process is over.
Over == ctl = "done" /\ UNCHANGED vars

Next ==
    \/ Command \/ Interrupt \/ StopListening \/ Over
    \/ \E w \in Watchers : Listen(w)
    \/ \E i \in Loops : Tick(i) \/ SyncEnd(i) \/ SpawnedPanic(i) \/ Quit(i)

Spec == Init /\ [][Next]_vars

\* Go's scheduler runs the goroutine of the command whenever it can.
CommandFairness == WF_vars(Command)

\* Loop numbers of any service.
AllLoops == UNION {1 .. s.n : s \in Services}

\* A select that sees Done() ready again and again takes it some day: Go picks
\* among the ready cases at random.
SelectFairness == \A i \in AllLoops : SF_vars(i \in Loops /\ Quit(i))

\* Every sync comes to an end: its remote calls and queries return.
SyncFairness == \A i \in AllLoops : WF_vars(i \in Loops /\ SyncEnd(i))

FairSpec == Spec /\ CommandFairness /\ SelectFairness /\ SyncFairness

\* The same program while a remote call or a query may hang.
HangingSpec == Spec /\ CommandFairness /\ SelectFairness

-----------------------------------------------------------------------------
(* Properties                                                              *)

TypeOK ==
    /\ svc \in Services
    /\ ctl \in {"setup", "start", "run", "stop", "join", "done"}
    /\ k \in Loops
    /\ loop \in [Loops -> {"off", "wait", "sync", "gone"}]
    /\ outcome \in [Loops -> {"none", "ok", "error", "panic", "stopped"}]
    /\ cancelled \in SUBSET Loops
    /\ appDone \in BOOLEAN /\ forced \in BOOLEAN
    /\ watch \in [Watchers -> {"off", "new", "listening"}]
    /\ sent \in Nat
    /\ exit \in {"none", "clean", "failed", "crashed"}

\* A clean exit status promises that no sync was cut in the middle and that no
\* loop had failed before: every goroutine has returned, none with an error
\* (crawler.go:67-81, worker.go:54-75, lifecycle.go:91-99).
CleanExitIsQuiet ==
    exit = "clean" => \A i \in Loops : loop[i] = "gone" /\ ~Erred(i)

\* Stop can let the process end under running syncs, but only under those of
\* loops that come after one that had returned an error; all before it were
\* waited for (crawler.go:67-81, worker.go:54-75).
CutOnlyBehindAnError ==
    \A j \in Loops :
        exit = "failed" /\ loop[j] \in {"wait", "sync"} =>
            \E i \in 1 .. j - 1 :
                Erred(i) /\ \A h \in 1 .. i : loop[h] = "gone"

\* A service whose loops were all healthy stops gracefully: its exit is a
\* failure only if its setup or one of its syncs had failed (lifecycle.go:50,
\* 80).  The crawler has a noisy loop and breaks it.
GracefulStopSucceeds ==
    exit = "failed" =>
        \/ \A i \in Loops : loop[i] = "off"
        \/ \E i \in Loops : outcome[i] = "error"

\* It is true of the services without one, the worker and dex
\* (worker.go:54-75, fetch_dex_market.go:215-221).
QuietServiceStops == svc.noisy = {} => GracefulStopSucceeds

\* A service with a noisy loop has no clean exit, whatever else goes well, but
\* for the one after a panic of that loop, which is recovered and forgotten
\* (fiatcurrency.go:65-71, tasks.go:29-35, lifecycle.go:91-99).
NoisyServiceFails ==
    exit = "clean" => \A i \in Loops \cap svc.noisy : outcome[i] = "panic"

\* Stop waits for no loop that was never started or was not told to end; what
\* a forced exit would cut short is work, never a wait for nothing
\* (crawler.go:67-81, worker.go:54-75, tasks.go:41-43).
NoWaitIsInVain ==
    ctl = "join" => k \in cancelled /\ loop[k] # "off"

\* Once the application context is cancelled, by an interrupt at any moment or
\* by a panic, the process comes to its end (lifecycle.go:80-99).
CancelledAppExits == appDone ~> ctl = "done"

\* A failure that is meant to be critical ends the process: a panic in any
\* loop, a failed sync of a loop that calls HandleCrit (tasks.go:29-35,
\* fetch_dex_market.go:194-204).
Critical == \E i \in Loops :
    outcome[i] = "panic" \/ (i \in svc.vocal /\ outcome[i] = "error")
CriticalFailureExits == Critical ~> ctl = "done"

\* A second interrupt during the stop forces the exit (lifecycle.go:51, 86).
SecondInterruptForcesExit == forced ~> ctl = "done"
=============================================================================
