---------------------- MODULE ServiceLifecycleProofs ----------------------
(***************************************************************************)
(* Proofs about ServiceLifecycle, for any number and kind of loops, and    *)
(* about Startup, for any number of exchanges, attempts and files.         *)
(***************************************************************************)
EXTENDS Startup, Integers, TLAPS

USE DEF Loops, Watchers

\* Every variable of ServiceLifecycle stays in its type
\* (lifecycle.go:53-101, tasks.go:24-44).
THEOREM TypeCorrect == Spec => []TypeOK
<1>1. Init => TypeOK
  <2> SUFFICES ASSUME Init PROVE TypeOK
    OBVIOUS
  <2> USE DEF Init
  <2>1. k \in Loops
    BY LifecycleAssumption
  <2>2. loop \in [Loops -> {"off", "wait", "sync", "gone"}]
    OBVIOUS
  <2>3. outcome \in [Loops -> {"none", "ok", "error", "panic", "stopped"}]
    OBVIOUS
  <2>4. watch \in [Watchers -> {"off", "new", "listening"}]
    OBVIOUS
  <2> QED
    BY <2>1, <2>2, <2>3, <2>4 DEF TypeOK
<1>2. TypeOK /\ [Next]_vars => TypeOK'
  <2> SUFFICES ASSUME TypeOK, [Next]_vars PROVE TypeOK'
    OBVIOUS
  <2> USE DEF TypeOK
  <2>1. CASE SetupOk  BY <2>1 DEF SetupOk
  <2>2. CASE SetupFail  BY <2>2 DEF SetupFail
  <2>3. CASE StartLoop  BY <2>3, LifecycleAssumption DEF StartLoop
  <2>4. CASE BeginStop  BY <2>4 DEF BeginStop
  <2>5. CASE Cancel  BY <2>5 DEF Cancel
  <2>6. CASE Join  BY <2>6, LifecycleAssumption DEF Join
  <2>7. CASE Interrupt  BY <2>7 DEF Interrupt
  <2>8. CASE StopListening  BY <2>8 DEF StopListening
  <2>9. CASE \E w \in Watchers : Listen(w)  BY <2>9 DEF Listen
  <2>10. CASE \E i \in Loops : Tick(i)  BY <2>10 DEF Tick
  <2>11. CASE \E i \in Loops : SyncOk(i)  BY <2>11 DEF SyncOk
  <2>12. CASE \E i \in Loops : SyncError(i)  BY <2>12 DEF SyncError
  <2>13. CASE \E i \in Loops : SyncPanic(i)  BY <2>13 DEF SyncPanic
  <2>14. CASE \E i \in Loops : Quit(i)  BY <2>14 DEF Quit
  <2>15. CASE UNCHANGED vars  BY <2>15 DEF vars
  <2>16. CASE \E i \in Loops : SpawnedPanic(i)  BY <2>16 DEF SpawnedPanic, Alive
  <2> QED
    BY <2>1, <2>2, <2>3, <2>4, <2>5, <2>6, <2>7, <2>8, <2>9, <2>10, <2>11,
       <2>12, <2>13, <2>14, <2>15, <2>16 DEF Next, Command, SyncEnd, Over
<1> QED
  BY <1>1, <1>2, PTL DEF Spec

\* What Stop has established when it is at loop k: every loop before k has
\* returned without an error.  At the end of the process this is said of the
\* loop it ended at, which for a failure is one that had returned an error.
JoinedBefore ==
    /\ ctl \in {"stop", "join"} =>
          \A j \in Loops : j < k => loop[j] = "gone" /\ ~Erred(j)
    /\ exit = "clean" => \A j \in Loops : loop[j] = "gone" /\ ~Erred(j)
    /\ ctl # "done" => exit = "none"
    /\ exit = "failed" =>
          \/ \A j \in Loops : loop[j] = "off"
          \/ /\ Erred(k) /\ loop[k] = "gone"
             /\ \A j \in Loops : j < k => loop[j] = "gone"
    /\ ctl = "run" => k = 1
    /\ ctl = "setup" => \A j \in Loops : loop[j] = "off"
    /\ ctl = "done" => exit \in {"clean", "failed", "crashed"}

LEMMA JoinedInvariant == Spec => []JoinedBefore
<1>1. Init => JoinedBefore
  BY DEF Init, JoinedBefore
<1>2. TypeOK /\ JoinedBefore /\ [Next]_vars => JoinedBefore'
  <2> SUFFICES ASSUME TypeOK, JoinedBefore, [Next]_vars PROVE JoinedBefore'
    OBVIOUS
  <2> USE DEF TypeOK, JoinedBefore, Erred
  <2>1. CASE SetupOk  BY <2>1 DEF SetupOk
  <2>2. CASE SetupFail  BY <2>2 DEF SetupFail
  <2>3. CASE StartLoop  BY <2>3, LifecycleAssumption DEF StartLoop
  <2>4. CASE BeginStop
    <3>1. k = 1
      BY <2>4 DEF BeginStop
    <3> QED
      BY <2>4, <3>1 DEF BeginStop
  <2>5. CASE Cancel  BY <2>5 DEF Cancel
  <2>6. CASE Join  BY <2>6, LifecycleAssumption DEF Join
  <2>7. CASE Interrupt  BY <2>7 DEF Interrupt
  <2>8. CASE StopListening  BY <2>8 DEF StopListening
  <2>9. CASE \E w \in Watchers : Listen(w)  BY <2>9 DEF Listen
  <2>10. CASE \E i \in Loops : Tick(i)  BY <2>10 DEF Tick, Alive
  <2>11. CASE \E i \in Loops : SyncOk(i)  BY <2>11 DEF SyncOk, Alive
  <2>12. CASE \E i \in Loops : SyncError(i)  BY <2>12 DEF SyncError, Alive
  <2>13. CASE \E i \in Loops : SyncPanic(i)  BY <2>13 DEF SyncPanic, Alive
  <2>14. CASE \E i \in Loops : Quit(i)  BY <2>14 DEF Quit, Alive
  <2>15. CASE UNCHANGED vars  BY <2>15 DEF vars
  <2>16. CASE \E i \in Loops : SpawnedPanic(i)  BY <2>16 DEF SpawnedPanic, Alive
  <2> QED
    BY <2>1, <2>2, <2>3, <2>4, <2>5, <2>6, <2>7, <2>8, <2>9, <2>10, <2>11,
       <2>12, <2>13, <2>14, <2>15, <2>16 DEF Next, Command, SyncEnd, Over
<1> QED
  BY <1>1, <1>2, TypeCorrect, PTL DEF Spec

\* Exit status 0 is only given when every loop has returned, and none with an
\* error (lifecycle.go:91-99).
THEOREM CleanIsQuiet == Spec => []CleanExitIsQuiet
<1>1. JoinedBefore => CleanExitIsQuiet
  BY DEF JoinedBefore, CleanExitIsQuiet
<1> QED
  BY <1>1, JoinedInvariant, PTL

\* Only loops behind one that returned an error are cut when Stop gives up
\* (crawler.go:67-81, worker.go:54-75).
THEOREM CutBehindError == Spec => []CutOnlyBehindAnError
<1>1. TypeOK /\ JoinedBefore => CutOnlyBehindAnError
  <2> SUFFICES ASSUME TypeOK, JoinedBefore, NEW j \in Loops,
                      exit = "failed", loop[j] \in {"wait", "sync"}
               PROVE  \E i \in 1 .. j - 1 :
                          Erred(i) /\ \A h \in 1 .. i : loop[h] = "gone"
    BY DEF CutOnlyBehindAnError
  <2>2. Erred(k) /\ loop[k] = "gone" /\ \A h \in Loops : h < k => loop[h] = "gone"
    BY DEF JoinedBefore
  <2>3. k \in Loops /\ k < j
    BY <2>2 DEF TypeOK
  <2>4. k \in 1 .. j - 1 /\ 1 .. k \subseteq Loops
    <3>1. svc.n \in Nat
      BY LifecycleAssumption DEF TypeOK
    <3> QED
      BY <2>3, <3>1
  <2>5. ASSUME NEW h \in 1 .. k PROVE loop[h] = "gone"
    <3>1. h \in Loops /\ (h < k \/ h = k)
      BY <2>3, <2>4
    <3> QED
      BY <3>1, <2>2
  <2> QED
    BY <2>2, <2>4, <2>5
<1> QED
  BY <1>1, TypeCorrect, JoinedInvariant, PTL

\* A service none of whose loops returns an error when it is told to stop, as
\* the worker and dex, exits with a failure only if something had failed
\* (worker.go:54-75, fetch_dex_market.go:215-221).
THEOREM QuietStop == Spec => []QuietServiceStops
<1> DEFINE NeverNoisy == svc.noisy = {} => \A i \in Loops : outcome[i] # "stopped"
<1>1. Init => NeverNoisy
  BY DEF Init
<1>2. TypeOK /\ NeverNoisy /\ [Next]_vars => NeverNoisy'
  <2> SUFFICES ASSUME TypeOK, NeverNoisy, [Next]_vars PROVE NeverNoisy'
    OBVIOUS
  <2> USE DEF TypeOK
  <2>1. CASE UNCHANGED <<svc, outcome>>  BY <2>1
  <2>2. CASE \E i \in Loops : SyncError(i)  BY <2>2 DEF SyncError
  <2>3. CASE \E i \in Loops : SyncPanic(i)  BY <2>3 DEF SyncPanic
  <2>4. CASE \E i \in Loops : Quit(i)  BY <2>4 DEF Quit
  <2> QED
    BY <2>1, <2>2, <2>3, <2>4
    DEF Next, Command, SyncEnd, Over, vars, SetupOk, SetupFail, StartLoop,
        BeginStop, Cancel, Join, Interrupt, StopListening, Listen, Tick, SyncOk,
        SpawnedPanic
<1>3. Spec => []NeverNoisy
  BY <1>1, <1>2, TypeCorrect, PTL DEF Spec
<1>4. TypeOK /\ JoinedBefore /\ NeverNoisy => QuietServiceStops
  BY DEF TypeOK, JoinedBefore, Erred, GracefulStopSucceeds, QuietServiceStops
<1> QED
  BY <1>3, <1>4, TypeCorrect, JoinedInvariant, PTL

\* How a loop's goroutine stands to the errgroup it belongs to, and which
\* loops exist: those Start has come by.
LoopsAccounted ==
    /\ \A i \in Loops :
        /\ loop[i] = "gone" => outcome[i] # "none"
        /\ outcome[i] = "ok" => i \notin svc.noisy
    /\ ctl = "setup" => k = 1
    /\ ctl = "start" => \A i \in Loops : i < k => loop[i] # "off"
    /\ ctl \in {"run", "stop", "join"} => \A i \in Loops : loop[i] # "off"
    /\ ctl = "join" => k \in cancelled

LEMMA AccountedInvariant == Spec => []LoopsAccounted
<1>1. Init => LoopsAccounted
  BY DEF Init, LoopsAccounted
<1>2. TypeOK /\ LoopsAccounted /\ [Next]_vars => LoopsAccounted'
  <2> SUFFICES ASSUME TypeOK, LoopsAccounted, [Next]_vars PROVE LoopsAccounted'
    OBVIOUS
  <2> USE DEF TypeOK, LoopsAccounted
  <2>1. CASE SetupOk  BY <2>1 DEF SetupOk
  <2>2. CASE SetupFail  BY <2>2 DEF SetupFail
  <2>3. CASE StartLoop  BY <2>3, LifecycleAssumption DEF StartLoop
  <2>4. CASE BeginStop  BY <2>4 DEF BeginStop
  <2>5. CASE Cancel  BY <2>5 DEF Cancel
  <2>6. CASE Join  BY <2>6 DEF Join
  <2>7. CASE Interrupt  BY <2>7 DEF Interrupt
  <2>8. CASE StopListening  BY <2>8 DEF StopListening
  <2>9. CASE \E w \in Watchers : Listen(w)  BY <2>9 DEF Listen
  <2>10. CASE \E i \in Loops : Tick(i)  BY <2>10 DEF Tick
  <2>11. CASE \E i \in Loops : SyncOk(i)  BY <2>11 DEF SyncOk
  <2>12. CASE \E i \in Loops : SyncError(i)  BY <2>12 DEF SyncError
  <2>13. CASE \E i \in Loops : SyncPanic(i)  BY <2>13 DEF SyncPanic
  <2>14. CASE \E i \in Loops : Quit(i)  BY <2>14 DEF Quit
  <2>15. CASE UNCHANGED vars  BY <2>15 DEF vars
  <2>16. CASE \E i \in Loops : SpawnedPanic(i)  BY <2>16 DEF SpawnedPanic, Alive
  <2> QED
    BY <2>1, <2>2, <2>3, <2>4, <2>5, <2>6, <2>7, <2>8, <2>9, <2>10, <2>11,
       <2>12, <2>13, <2>14, <2>15, <2>16 DEF Next, Command, SyncEnd, Over
<1> QED
  BY <1>1, <1>2, TypeCorrect, PTL DEF Spec

\* With a noisy loop a clean exit takes a panic of that loop, for any number of
\* loops of any kind (fiatcurrency.go:65-71, lifecycle.go:91-99).
THEOREM NoisyFails == Spec => []NoisyServiceFails
<1>1. TypeOK /\ JoinedBefore /\ LoopsAccounted => NoisyServiceFails
  BY DEF TypeOK, JoinedBefore, LoopsAccounted, Erred, NoisyServiceFails
<1> QED
  BY <1>1, TypeCorrect, JoinedInvariant, AccountedInvariant, PTL

\* Stop only waits for goroutines that exist and know that they are to end
\* (crawler.go:67-81, worker.go:54-75, tasks.go:41-43).
THEOREM WaitsEnd == Spec => []NoWaitIsInVain
<1>1. TypeOK /\ LoopsAccounted => NoWaitIsInVain
  BY DEF TypeOK, LoopsAccounted, NoWaitIsInVain
<1> QED
  BY <1>1, TypeCorrect, AccountedInvariant, PTL

-----------------------------------------------------------------------------
(* Startup.                                                                *)

\* A whole process, from the command line on, is a lifecycle: the steps of a
\* service command are its setup, everything else leaves it alone
\* (cli.go:84-135, lifecycle.go:53-100).
THEOREM StartupImplements == StartupSpec => Spec
<1>1. StartupInit => Init
  BY DEF StartupInit
<1>2. [StartupNext]_all => [Next]_vars
  <2> SUFFICES ASSUME [StartupNext]_all PROVE Next \/ UNCHANGED vars
    OBVIOUS
  <2>1. ASSUME Proceed PROVE Next \/ UNCHANGED vars
    BY <2>1 DEF Proceed, Next, Command, vars
  <2>2. ASSUME GiveUp PROVE Next \/ UNCHANGED vars
    BY <2>2 DEF GiveUp, Next, Command, vars
  <2>3. CASE Step
    BY <2>1, <2>2, <2>3
    DEF Step, ParseFlags, LoadConfig, OpenDB, DBOpened, PingRedis, LoadMarkets,
        BuildObjects, ListenHttp, ListenRpc, ExecuteFile, FilesDone, MigrateOver
  <2>4. CASE KillMigrate \/ MigrateAgain
    BY <2>4 DEF KillMigrate, MigrateAgain, MigrateOver
  <2>5. CASE Serve
    BY <2>5 DEF Serve, Next, Command
  <2>6. CASE Around
    BY <2>6 DEF Around, Next
  <2>7. CASE UNCHANGED all
    BY <2>7 DEF all
  <2> QED
    BY <2>3, <2>4, <2>5, <2>6, <2>7 DEF StartupNext
<1> QED
  BY <1>1, <1>2, PTL DEF StartupSpec, Spec

\* The files that have taken effect are a beginning, and all files before the
\* one migrate is at are among them.
FilesInOrder ==
    /\ file \in 1 .. Files + 1
    /\ \E n \in 0 .. Files : applied = 1 .. n /\ file <= n + 1
    /\ phase = "finished" => file = Files + 1

\* Neither a failed file nor a kill nor another run of migrate leaves a gap in
\* the schema (db.go:107-129, cli.go:49-73).
THEOREM SchemaInOrder == StartupSpec => []SchemaGrowsInOrder
<1>1. StartupInit => FilesInOrder
  <2> SUFFICES ASSUME StartupInit PROVE FilesInOrder
    OBVIOUS
  <2>1. applied = 1 .. 0 /\ file = 1 /\ phase = "starting" /\ Files \in Nat
    BY StartupAssumption DEF StartupInit
  <2> QED
    BY <2>1 DEF FilesInOrder
<1>2. FilesInOrder /\ [StartupNext]_all => FilesInOrder'
  <2> SUFFICES ASSUME FilesInOrder, [StartupNext]_all PROVE FilesInOrder'
    OBVIOUS
  <2> USE DEF FilesInOrder
  <2>1. PICK n \in 0 .. Files : applied = 1 .. n /\ file <= n + 1
    OBVIOUS
  <2>2. Files \in Nat /\ file \in Nat
    BY StartupAssumption
  \* What one more file makes of the beginning.
  <2>3. ASSUME file <= Files
        PROVE  \E m \in 0 .. Files : applied \cup {file} = 1 .. m /\ file + 1 <= m + 1
    <3>1. CASE file <= n
      <4>1. applied \cup {file} = 1 .. n
        BY <3>1, <2>1, <2>2
      <4> QED
        BY <3>1, <4>1, <2>2
    <3>2. CASE file = n + 1
      <4>1. applied \cup {file} = 1 .. n + 1 /\ n + 1 \in 0 .. Files
        BY <3>2, <2>1, <2>2, <2>3
      <4> QED
        BY <3>2, <4>1
    <3> QED
      BY <3>1, <3>2, <2>1, <2>2
  <2>4. CASE ExecuteFile
    <3>1. file <= Files /\ applied' \in {applied, applied \cup {file}} /\ phase' # "finished"
      BY <2>4 DEF ExecuteFile, MigrateOver, At
    <3>2. PICK m \in 0 .. Files : applied \cup {file} = 1 .. m /\ file + 1 <= m + 1
      BY <3>1, <2>3
    <3>3. file' = file \/ (file' = file + 1 /\ applied' = applied \cup {file})
      BY <2>4 DEF ExecuteFile
    <3>4. CASE applied' = applied /\ file' = file
      BY <3>1, <3>4, <2>1
    <3>5. CASE applied' = applied \cup {file}
      <4>1. file' <= m + 1 /\ file' \in 1 .. Files + 1
        BY <3>1, <3>2, <3>3, <2>2
      <4> QED
        BY <4>1, <3>1, <3>2, <3>5
    <3> QED
      BY <3>1, <3>3, <3>4, <3>5
  <2>5. CASE KillMigrate
    <3>1. phase' = "failed" /\ file' = file
      BY <2>5 DEF KillMigrate, MigrateOver
    <3>2. applied' = applied \/ (file <= Files /\ applied' = applied \cup {file})
      BY <2>5 DEF KillMigrate
    <3>3. CASE applied' = applied
      BY <3>1, <3>3, <2>1
    <3>4. CASE file <= Files /\ applied' = applied \cup {file}
      <4>1. PICK m \in 0 .. Files : applied \cup {file} = 1 .. m /\ file + 1 <= m + 1
        BY <3>4, <2>3
      <4>2. file' <= m + 1
        BY <4>1, <3>1, <2>2
      <4> QED
        BY <4>1, <4>2, <3>1, <3>4
    <3> QED
      BY <3>2, <3>3, <3>4
  <2>6. CASE FilesDone
    BY <2>6, <2>1, <2>2 DEF FilesDone, MigrateOver
  <2>7. CASE MigrateAgain
    BY <2>7, <2>1, <2>2 DEF MigrateAgain
  <2>8. CASE UNCHANGED <<file, applied>> /\ (phase' = "finished" => phase = "finished")
    BY <2>8, <2>1
  <2>9. CASE Step
    BY <2>9, <2>4, <2>6, <2>8
    DEF Step, ParseFlags, LoadConfig, OpenDB, DBOpened, PingRedis, LoadMarkets,
        BuildObjects, ListenHttp, ListenRpc, Proceed, GiveUp
  <2>10. CASE Serve \/ Around \/ UNCHANGED all
    BY <2>10, <2>8 DEF Serve, Around, all, own
  <2> QED
    BY <2>5, <2>7, <2>9, <2>10 DEF StartupNext
<1>3. FilesInOrder => SchemaGrowsInOrder
  <2> SUFFICES ASSUME FilesInOrder PROVE SchemaGrowsInOrder
    OBVIOUS
  <2>1. PICK n \in 0 .. Files : applied = 1 .. n /\ file <= n + 1
    BY DEF FilesInOrder
  <2>2. phase = "finished" => n = Files
    BY <2>1, StartupAssumption DEF FilesInOrder
  <2> QED
    BY <2>1, <2>2 DEF SchemaGrowsInOrder
<1> QED
  BY <1>1, <1>2, <1>3, PTL DEF StartupSpec

\* What a process has open, by how far it has come.
HeldByPhase ==
    /\ cmd = "api" =>
          /\ step \in 1 .. 4 /\ phase \in {"starting", "up", "failed"}
          /\ phase = "starting" => held = IF step = 4 THEN {"db"} ELSE {}
          /\ phase = "up" => held = {"db", "listener"}
          /\ phase = "failed" => held = {}
    /\ cmd = "migrate" =>
          /\ step \in 1 .. 4 /\ phase \in {"starting", "failed", "finished"}
          /\ phase = "starting" => held = IF step = 4 THEN {"db"} ELSE {}
          /\ phase \in {"failed", "finished"} => held = {}

\* Neither the API nor migrate ends with something left open, whichever step
\* failed (api.go:50-63, cli.go:65-71).
THEOREM NothingLeftOpen == StartupSpec => []AllOrNothing
<1>1. StartupInit => HeldByPhase
  BY DEF StartupInit, HeldByPhase
<1>2. HeldByPhase /\ [StartupNext]_all => HeldByPhase'
  <2> SUFFICES ASSUME HeldByPhase, [StartupNext]_all, cmd \in {"api", "migrate"}
               PROVE  HeldByPhase'
    <3>1. Step \/ KillMigrate \/ MigrateAgain => cmd' = cmd
      BY DEF Step, ParseFlags, LoadConfig, OpenDB, PingRedis, LoadMarkets,
             BuildObjects, ListenHttp, ListenRpc, ExecuteFile, FilesDone,
             KillMigrate, MigrateAgain
    <3>2. Serve \/ Around \/ UNCHANGED all => cmd' = cmd
      BY DEF Serve, Around, own, all
    <3> QED
      BY <3>1, <3>2 DEF HeldByPhase, StartupNext
  <2>1. /\ Len(StepsOf["api"]) = 4 /\ Len(StepsOf["migrate"]) = 4
        /\ StepsOf["api"] = <<"flags", "config", "db", "listen">>
        /\ StepsOf["migrate"] = <<"flags", "config", "db", "files">>
    BY DEF StepsOf
  <2>2. cmd \notin ServiceCommands
    BY DEF ServiceCommands
  <2>3. step \in 1 .. 4
    BY DEF HeldByPhase
  <2>4. /\ At("flags") => phase = "starting" /\ step = 1
        /\ At("config") => phase = "starting" /\ step = 2
        /\ At("db") => phase = "starting" /\ step = 3
        /\ At("listen") => phase = "starting" /\ step = 4 /\ cmd = "api"
        /\ At("files") => phase = "starting" /\ step = 4 /\ cmd = "migrate"
        /\ ~At("redis") /\ ~At("objects") /\ ~At("serve") /\ \A c \in Clients : ~At(c)
    BY <2>1, <2>3 DEF At, Clients
  <2>5. ASSUME Proceed PROVE IF step < 4 THEN step' = step + 1 /\ phase' = phase
                             ELSE step' = step /\ phase' = "up"
    BY <2>5, <2>1 DEF Proceed
  <2>6. ASSUME GiveUp PROVE step' = step /\ phase' = "failed"
    BY <2>6 DEF GiveUp
  <2> USE DEF HeldByPhase
  <2>7. CASE ParseFlags \/ LoadConfig
    BY <2>7, <2>3, <2>4, <2>5, <2>6 DEF ParseFlags, LoadConfig
  <2>8. CASE OpenDB
    <3>1. CASE DBOpened
      BY <3>1, <2>8, <2>4, <2>5 DEF OpenDB, DBOpened
    <3>2. CASE ~DBOpened
      BY <3>2, <2>8, <2>4, <2>6 DEF OpenDB
    <3> QED
      BY <3>1, <3>2
  <2>9. CASE ListenHttp
    BY <2>9, <2>4, <2>5, <2>6 DEF ListenHttp
  <2>10. CASE ExecuteFile \/ FilesDone
    BY <2>10, <2>4 DEF ExecuteFile, FilesDone, MigrateOver
  <2>11. CASE KillMigrate \/ MigrateAgain
    BY <2>11, <2>3 DEF KillMigrate, MigrateAgain, MigrateOver
  <2>12. CASE PingRedis \/ BuildObjects \/ ListenRpc \/ \E c \in Clients : LoadMarkets(c)
    BY <2>12, <2>4 DEF PingRedis, BuildObjects, ListenRpc, LoadMarkets
  <2>13. CASE Serve \/ Around \/ UNCHANGED all
    BY <2>13 DEF Serve, Around, all, own
  <2> QED
    BY <2>7, <2>8, <2>9, <2>10, <2>11, <2>12, <2>13 DEF StartupNext, Step
<1>3. HeldByPhase => AllOrNothing
  BY DEF HeldByPhase, AllOrNothing
<1> QED
  BY <1>1, <1>2, <1>3, PTL DEF StartupSpec

\* What a step leaves behind for the loops.
Provided(s) ==
    /\ s \in {"db", "redis"} => s \in held
    /\ s \in Clients => reach[s] # {}

\* The loops are off until the last step has succeeded, and all steps before
\* the one at hand have left what they provide.
StepsProvided ==
    /\ reach \in [Clients -> SUBSET Exchanges]
    /\ cmd \notin ServiceCommands \/ phase # "up" => \A i \in Loops : loop[i] = "off"
    /\ cmd \in ServiceCommands =>
          /\ step \in DOMAIN StepsOf[cmd] /\ phase \in {"starting", "up", "failed"}
          /\ phase = "starting" => ctl = "setup"
          /\ phase = "failed" => ctl = "done"
          /\ \A n \in DOMAIN StepsOf[cmd] :
                n < step \/ phase = "up" => Provided(StepsOf[cmd][n])

LEMMA StepsOfServices ==
    /\ Len(StepsOf["crawler"]) = 7 /\ Len(StepsOf["worker"]) = 5 /\ Len(StepsOf["dex"]) = 3
    /\ DOMAIN StepsOf["crawler"] = 1 .. 7
    /\ DOMAIN StepsOf["worker"] = 1 .. 5
    /\ DOMAIN StepsOf["dex"] = 1 .. 3
    /\ StepsOf["crawler"][3] = "db" /\ StepsOf["crawler"][4] = "redis"
    /\ StepsOf["crawler"][5] = "books" /\ StepsOf["crawler"][6] = "klines"
    /\ StepsOf["worker"][3] = "db" /\ StepsOf["worker"][4] = "redis"
  BY DEF StepsOf

\* No loop of the crawler, the worker or dex is started without the
\* connections and the exchanges it needs, and none after a setup that failed
\* (cli.go:84-135, exchange_client.go:89-91, lifecycle.go:65-78).
THEOREM LoopsReady == StartupSpec => []LoopsHaveTheirClients
<1>1. StartupInit => StepsProvided
  <2> SUFFICES ASSUME StartupInit PROVE StepsProvided
    OBVIOUS
  <2>1. cmd \in ServiceCommands => 1 \in DOMAIN StepsOf[cmd]
    BY StepsOfServices DEF ServiceCommands
  <2>2. \A n \in DOMAIN StepsOf[cmd] : cmd \in ServiceCommands => ~(n < 1)
    BY StepsOfServices DEF ServiceCommands
  <2> QED
    BY <2>1, <2>2 DEF StartupInit, Init, StepsProvided
<1>2. StepsProvided /\ [StartupNext]_all => StepsProvided'
  <2> SUFFICES ASSUME StepsProvided, [StartupNext]_all PROVE StepsProvided'
    OBVIOUS
  <2>1. CASE Step
    <3>1. phase = "starting" /\ UNCHANGED <<cmd, loop, svc>>
      BY <2>1
      DEF Step, ParseFlags, LoadConfig, OpenDB, DBOpened, PingRedis, LoadMarkets,
          BuildObjects, ListenHttp, ListenRpc, ExecuteFile, FilesDone, MigrateOver,
          Proceed, GiveUp, SetupOk, SetupFail, vars, At
    <3>2. \A i \in Loops : loop[i] = "off"
      BY <3>1 DEF StepsProvided
    <3>3. reach' \in [Clients -> SUBSET Exchanges]
      BY <2>1
      DEF StepsProvided, Step, ParseFlags, LoadConfig, OpenDB, PingRedis, LoadMarkets,
          BuildObjects, ListenHttp, ListenRpc, ExecuteFile, FilesDone
    <3>4. CASE cmd \in ServiceCommands
      <4>1. ctl = "setup" /\ step \in DOMAIN StepsOf[cmd]
        BY <3>1, <3>4 DEF StepsProvided
      <4>2. /\ DOMAIN StepsOf[cmd] = 1 .. Len(StepsOf[cmd]) /\ Len(StepsOf[cmd]) \in Nat
            /\ \A n \in DOMAIN StepsOf[cmd] : StepsOf[cmd][n] \notin {"listen", "serve", "files"}
        BY <3>4 DEF StepsOf, ServiceCommands
      <4>3. reach \in [Clients -> SUBSET Exchanges]
        BY DEF StepsProvided
      <4>4. PICK here : here = StepsOf[cmd][step]
        OBVIOUS
      <4>5. ~ListenHttp /\ ~ListenRpc /\ ~ExecuteFile /\ ~FilesDone
        <5>1. ~At("listen") /\ ~At("serve") /\ ~At("files")
          BY <4>1, <4>2 DEF At
        <5> QED
          BY <5>1 DEF ListenHttp, ListenRpc, ExecuteFile, FilesDone
      <4>6. held \subseteq held' /\ \A c \in Clients : reach[c] # {} => reach'[c] # {}
        <5>1. CASE \E c \in Clients : LoadMarkets(c)
          BY <4>3, <5>1 DEF LoadMarkets
        <5>2. CASE ParseFlags \/ LoadConfig \/ OpenDB \/ PingRedis \/ BuildObjects
          BY <5>2 DEF ParseFlags, LoadConfig, OpenDB, DBOpened, PingRedis, BuildObjects
        <5> QED
          BY <2>1, <4>5, <5>1, <5>2 DEF Step
      <4>7. \A n \in DOMAIN StepsOf[cmd] : n < step => Provided(StepsOf[cmd][n])'
        <5>1. \A s : Provided(s) => Provided(s)'
          BY <4>6 DEF Provided
        <5> QED
          BY <3>1, <3>4, <5>1 DEF StepsProvided
      <4>8. \/ Proceed /\ Provided(here)'
            \/ GiveUp
            \/ UNCHANGED <<vars, phase, step>>
        <5>1. CASE ParseFlags \/ LoadConfig \/ BuildObjects
          <6>1. here \in {"flags", "config", "objects"} /\ (Proceed \/ GiveUp)
            BY <5>1, <4>4 DEF ParseFlags, LoadConfig, BuildObjects, At
          <6>2. Provided(here)'
            BY <6>1 DEF Provided, Clients
          <6> QED
            BY <6>1, <6>2
        <5>2. CASE OpenDB
          <6>1. here = "db"
            BY <5>2, <4>4 DEF OpenDB, At
          <6>2. CASE DBOpened
            BY <6>1, <6>2 DEF DBOpened, Provided, Clients
          <6>3. CASE ~DBOpened
            BY <5>2, <6>3 DEF OpenDB
          <6> QED
            BY <6>2, <6>3
        <5>3. CASE PingRedis
          <6>1. here = "redis"
            BY <5>3, <4>4 DEF PingRedis, At
          <6> QED
            BY <5>3, <6>1 DEF PingRedis, Provided, Clients
        <5>4. ASSUME NEW c \in Clients, LoadMarkets(c)
              PROVE  (Proceed /\ Provided(here)') \/ GiveUp
          <6>1. here = c
            BY <5>4, <4>4 DEF LoadMarkets, At
          <6>2. CASE GiveUp
            BY <6>2
          <6>3. CASE ~GiveUp
            <7>1. Proceed /\ reach'[c] # {}
              BY <4>3, <5>4, <6>3 DEF LoadMarkets
            <7>2. c \notin {"db", "redis"}
              BY DEF Clients
            <7> QED
              BY <6>1, <7>1, <7>2 DEF Provided
          <6> QED
            BY <6>2, <6>3
        <5> QED
          BY <2>1, <4>5, <5>1, <5>2, <5>3, <5>4 DEF Step
      <4>9. CASE Proceed /\ Provided(here)'
        <5>1. CASE step < Len(StepsOf[cmd])
          <6>1. step' = step + 1 /\ UNCHANGED <<vars, phase>>
            BY <4>9, <5>1 DEF Proceed
          <6>2. \A n \in DOMAIN StepsOf[cmd] : n < step + 1 => n < step \/ n = step
            BY <4>1, <4>2
          <6>3. \A n \in DOMAIN StepsOf[cmd] : n < step' => Provided(StepsOf[cmd][n])'
            BY <3>1, <4>7, <4>9, <4>4, <6>1, <6>2
          <6>4. step' \in DOMAIN StepsOf[cmd]
            BY <4>1, <4>2, <5>1, <6>1
          <6> QED
            BY <3>1, <3>2, <3>3, <3>4, <4>1, <6>1, <6>3, <6>4 DEF StepsProvided, vars
        <5>2. CASE ~(step < Len(StepsOf[cmd]))
          <6>1. step' = step /\ phase' = "up"
            BY <4>9, <5>2 DEF Proceed
          <6>2. \A n \in DOMAIN StepsOf[cmd] : n < step \/ n = step
            BY <4>1, <4>2, <5>2
          <6>3. \A n \in DOMAIN StepsOf[cmd] : Provided(StepsOf[cmd][n])'
            BY <3>1, <4>7, <4>9, <4>4, <6>2
          <6> QED
            BY <3>1, <3>2, <3>3, <3>4, <4>1, <6>1, <6>3 DEF StepsProvided
        <5> QED
          BY <5>1, <5>2
      <4>10. CASE GiveUp
        <5>1. step' = step /\ phase' = "failed" /\ ctl' = "done"
          BY <3>4, <4>10 DEF GiveUp, SetupFail
        <5> QED
          BY <3>1, <3>2, <3>3, <3>4, <4>1, <4>7, <5>1 DEF StepsProvided
      <4>11. CASE UNCHANGED <<vars, phase, step>>
        BY <3>1, <3>2, <3>3, <3>4, <4>1, <4>7, <4>11 DEF StepsProvided, vars
      <4> QED
        BY <4>8, <4>9, <4>10, <4>11
    <3>5. CASE cmd \notin ServiceCommands
      BY <3>1, <3>2, <3>3, <3>5 DEF StepsProvided
    <3> QED
      BY <3>4, <3>5
  <2>2. CASE KillMigrate \/ MigrateAgain
    BY <2>2 DEF KillMigrate, MigrateAgain, MigrateOver, StepsProvided, ServiceCommands, vars
  <2>3. CASE Serve \/ Around
    <3>1. UNCHANGED own /\ cmd \in ServiceCommands /\ svc' = svc
      BY <2>3
      DEF Serve, Around, InLifecycle, StartLoop, BeginStop, Cancel, Join, Interrupt,
          StopListening, Listen, Tick, SyncEnd, SyncOk, SyncError, SyncPanic, SpawnedPanic, Quit
    <3>2. \A n \in DOMAIN StepsOf[cmd] : Provided(StepsOf[cmd][n])' <=> Provided(StepsOf[cmd][n])
      BY <3>1 DEF Provided, own
    <3>3. CASE phase = "up"
      BY <3>1, <3>2, <3>3 DEF StepsProvided, own
    <3>4. CASE phase # "up"
      <4>1. ctl \in {"setup", "done"} /\ \A i \in Loops : loop[i] = "off"
        BY <3>1, <3>4 DEF StepsProvided
      <4>2. loop' = loop /\ ctl' = ctl
        BY <2>3, <4>1
        DEF Serve, Around, StartLoop, BeginStop, Cancel, Join, Interrupt, Alive,
            StopListening, Listen, Tick, SyncEnd, SyncOk, SyncError, SyncPanic, SpawnedPanic, Quit
      <4> QED
        BY <3>1, <3>2, <3>4, <4>1, <4>2 DEF StepsProvided, own
    <3> QED
      BY <3>3, <3>4
  <2>4. CASE UNCHANGED all
    BY <2>4 DEF all, own, vars, StepsProvided, Provided
  <2> QED
    BY <2>1, <2>2, <2>3, <2>4 DEF StartupNext
<1>3. StepsProvided => LoopsHaveTheirClients
  <2> SUFFICES ASSUME StepsProvided, NEW i \in Loops, loop[i] # "off"
               PROVE  /\ phase = "up"
                      /\ cmd \in {"crawler", "worker"} => {"db", "redis"} \subseteq held
                      /\ cmd = "crawler" => \A c \in Clients : reach[c] # {}
    BY DEF LoopsHaveTheirClients
  <2>1. phase = "up" /\ cmd \in ServiceCommands
    BY DEF StepsProvided
  <2>2. \A n \in DOMAIN StepsOf[cmd] : Provided(StepsOf[cmd][n])
    BY <2>1 DEF StepsProvided
  <2>3. CASE cmd = "crawler"
    <3>1. Provided("db") /\ Provided("redis") /\ Provided("books") /\ Provided("klines")
      BY <2>2, <2>3, StepsOfServices
    <3> QED
      BY <2>1, <2>3, <3>1 DEF Provided, Clients
  <2>4. CASE cmd = "worker"
    <3>1. Provided("db") /\ Provided("redis")
      BY <2>2, <2>4, StepsOfServices
    <3> QED
      BY <2>1, <2>4, <3>1 DEF Provided, Clients
  <2> QED
    BY <2>1, <2>3, <2>4
<1> QED
  BY <1>1, <1>2, <1>3, PTL DEF StartupSpec

\* Where a setup is: the counts of its attempts and files are within bounds.
SetupCounts ==
    /\ cmd \in Commands
    /\ step \in 1 .. Len(StepsOf[cmd])
    /\ tries \in 0 .. Attempts - 1
    /\ file \in 1 .. Files + 1

LEMMA StepsCounted == \A c \in Commands : Len(StepsOf[c]) \in Nat \ {0}
<1>1. Commands = {"crawler", "worker", "dex", "rpc", "api", "migrate"}
  BY DEF Commands, StepsOf
<1>2. /\ StepsOf["rpc"] = <<"flags", "config", "db", "serve">>
      /\ StepsOf["api"] = <<"flags", "config", "db", "listen">>
      /\ StepsOf["migrate"] = <<"flags", "config", "db", "files">>
  BY DEF StepsOf
<1>3. Len(StepsOf["rpc"]) = 4 /\ Len(StepsOf["api"]) = 4 /\ Len(StepsOf["migrate"]) = 4
  BY <1>2
<1>4. Len(StepsOf["crawler"]) = 7 /\ Len(StepsOf["worker"]) = 5 /\ Len(StepsOf["dex"]) = 3
  BY StepsOfServices
<1> DEFINE length(c) == Len(StepsOf[c])
<1> SUFFICES \A c \in Commands : length(c) \in Nat \ {0}
  OBVIOUS
<1>5. /\ length("crawler") = 7 /\ length("worker") = 5 /\ length("dex") = 3
      /\ length("rpc") = 4 /\ length("api") = 4 /\ length("migrate") = 4
  BY <1>3, <1>4
<1> HIDE DEF length
<1> QED
  BY <1>1, <1>5

LEMMA SetupCounted ==
  ASSUME SetupCounts, [StartupNext]_all
  PROVE  SetupCounts'
<1> USE DEF SetupCounts
<1>1. Attempts \in Nat \ {0} /\ Files \in Nat /\ Len(StepsOf[cmd]) \in Nat \ {0}
  BY StartupAssumption, StepsCounted
<1>2. Proceed => step' \in 1 .. Len(StepsOf[cmd])
  BY <1>1 DEF Proceed
<1>3. GiveUp => step' = step
  BY DEF GiveUp
<1>4. CASE OpenDB
  BY <1>1, <1>2, <1>3, <1>4 DEF OpenDB, DBOpened
<1>5. CASE ExecuteFile
  BY <1>1, <1>5 DEF ExecuteFile, MigrateOver
<1>6. CASE ParseFlags \/ LoadConfig \/ PingRedis \/ BuildObjects \/ ListenHttp \/ ListenRpc
  BY <1>1, <1>2, <1>3, <1>6 DEF ParseFlags, LoadConfig, PingRedis, BuildObjects, ListenHttp, ListenRpc
<1>7. CASE \E c \in Clients : LoadMarkets(c)
  BY <1>1, <1>2, <1>3, <1>7 DEF LoadMarkets
<1>8. CASE FilesDone \/ KillMigrate
  BY <1>8 DEF FilesDone, KillMigrate, MigrateOver
<1>9. CASE MigrateAgain
  BY <1>1, <1>9 DEF MigrateAgain
<1>10. CASE Serve \/ Around \/ UNCHANGED all
  BY <1>10 DEF Serve, Around, all, own
<1> QED
  BY <1>4, <1>5, <1>6, <1>7, <1>8, <1>9, <1>10 DEF StartupNext, Step

\* One more step, and what its attempts and files may add.
LEMMA StepsOutweigh ==
  ASSUME NEW n \in Nat, NEW i \in 1 .. n, i < n, NEW a \in Nat \ {0}, NEW f \in Nat,
         NEW t \in 0 .. a - 1, NEW u \in 0 .. a - 1
  PROVE  (n - (i + 1)) * (a + f + 1) + (a - u) < (n - i) * (a + f + 1) + (a - t)
<1>1. (n - (i + 1)) * (a + f + 1) = (n - i) * (a + f + 1) - (a + f + 1)
  OBVIOUS
<1>2. (n - i) * (a + f + 1) \in Int
  OBVIOUS
<1> QED
  BY <1>1, <1>2

\* Every step of a setup brings it nearer to its end, for any number of
\* connection attempts and files, so that it takes at most SetupLeft of them
\* (db.go:33-62, cli.go:40-145).
THEOREM SetupShortens == StartupSpec => SetupGetsShorter
<1> DEFINE Shorter ==
      phase = "starting" /\ phase' = "starting" /\ own' # own => SetupLeft' < SetupLeft
<1>1. StartupInit => SetupCounts
  <2> SUFFICES ASSUME StartupInit PROVE SetupCounts
    OBVIOUS
  <2>1. cmd \in Commands /\ step = 1 /\ tries = 0 /\ file = 1
    BY DEF StartupInit
  <2> QED
    BY <2>1, StepsCounted, StartupAssumption DEF SetupCounts
<1>2. SetupCounts /\ [StartupNext]_all => SetupCounts'
  BY SetupCounted
<1>3. SetupCounts /\ [StartupNext]_all => [Shorter]_all
  <2> SUFFICES ASSUME SetupCounts, SetupCounts', StartupNext,
                      phase = "starting", phase' = "starting", own' # own
               PROVE  SetupLeft' < SetupLeft
    BY SetupCounted
  <2> DEFINE n == Len(StepsOf[cmd])
  <2>1. Attempts \in Nat \ {0} /\ Files \in Nat /\ n \in Nat
    BY StartupAssumption, StepsCounted DEF SetupCounts
  <2>2. ASSUME Proceed, cmd' = cmd, file' = file PROVE SetupLeft' < SetupLeft
    <3>1. step < n /\ step' = step + 1
      BY <2>2 DEF Proceed
    <3>2. step \in 1 .. n /\ tries \in 0 .. Attempts - 1 /\ tries' \in 0 .. Attempts - 1
      BY DEF SetupCounts
    <3> DEFINE here == (n - step) * (Attempts + Files + 1) + (Attempts - tries)
               next == (n - (step + 1)) * (Attempts + Files + 1) + (Attempts - tries')
    <3>3. next < here
      BY <2>1, <3>1, <3>2, StepsOutweigh
    <3>4. SetupLeft = here + (Files + 1 - file) /\ SetupLeft' = next + (Files + 1 - file)
      BY <2>2, <3>1 DEF SetupLeft
    <3>5. here \in Int /\ next \in Int /\ Files + 1 - file \in Int
      <4>1. n - step \in Int /\ n - (step + 1) \in Int /\ Attempts + Files + 1 \in Int
            /\ Attempts - tries \in Int /\ Attempts - tries' \in Int
        BY <2>1, <3>2
      <4>2. \A x, y, z \in Int : x * y + z \in Int
        OBVIOUS
      <4> HIDE DEF n
      <4>3. here \in Int /\ next \in Int
        BY <4>1, <4>2
      <4> QED
        BY <2>1, <4>3 DEF SetupCounts
    <3> HIDE DEF here, next
    <3> QED
      BY <3>3, <3>4, <3>5
  <2>3. ~GiveUp
    BY DEF GiveUp
  <2>4. ASSUME UNCHANGED <<cmd, step>>,
               \/ tries' = tries + 1 /\ file' = file
               \/ tries' = tries /\ file' = file + 1
        PROVE  SetupLeft' < SetupLeft
    <3> DEFINE x == (n - step) * (Attempts + Files + 1)
    <3>1. x \in Int
      <4>1. n - step \in Int /\ Attempts + Files + 1 \in Int
        BY <2>1 DEF SetupCounts
      <4> QED
        BY <4>1
    <3>2. /\ SetupLeft = x + (Attempts - tries) + (Files + 1 - file)
          /\ SetupLeft' = x + (Attempts - tries') + (Files + 1 - file')
      BY <2>4 DEF SetupLeft
    <3> HIDE DEF x
    <3>3. tries \in Int /\ file \in Int /\ Attempts \in Int /\ Files \in Int
      BY <2>1 DEF SetupCounts
    <3>4. CASE tries' = tries + 1 /\ file' = file
      BY <3>1, <3>2, <3>3, <3>4
    <3>5. CASE tries' = tries /\ file' = file + 1
      BY <3>1, <3>2, <3>3, <3>5
    <3> QED
      BY <2>4, <3>4, <3>5
  <2>5. CASE OpenDB
    BY <2>2, <2>3, <2>4, <2>5 DEF OpenDB, DBOpened
  <2>6. CASE ExecuteFile
    BY <2>4, <2>6 DEF ExecuteFile, MigrateOver
  <2>7. CASE ParseFlags \/ LoadConfig \/ PingRedis \/ BuildObjects \/ ListenHttp \/ ListenRpc
    BY <2>2, <2>3, <2>7
    DEF ParseFlags, LoadConfig, PingRedis, BuildObjects, ListenHttp, ListenRpc
  <2>8. CASE \E c \in Clients : LoadMarkets(c)
    BY <2>2, <2>3, <2>8 DEF LoadMarkets
  <2> QED
    BY <2>5, <2>6, <2>7, <2>8
    DEF StartupNext, Step, FilesDone, KillMigrate, MigrateAgain, MigrateOver, Serve, Around
<1> QED
  BY <1>1, <1>2, <1>3, PTL DEF StartupSpec, SetupGetsShorter
=============================================================================
