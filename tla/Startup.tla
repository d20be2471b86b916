------------------------------ MODULE Startup ------------------------------
(***************************************************************************)
(* One process of cmd/market-services from its command line on.  Every     *)
(* command takes its steps in order, each of which may fail: the flags,    *)
(* the configuration, the connections, the constructors.                   *)
(*                                                                         *)
(* For crawler, worker and dex these steps are the setup of                *)
(* ServiceLifecycle, which takes over when the last has succeeded.  What   *)
(* api and rpc do once they are up is in QueryApi.  migrate executes the   *)
(* SQL files in the order of their names, ends, and can be run again.      *)
(*                                                                         *)
(* main has registered a channel for all interrupts, so before a command's *)
(* own watcher listens, and during all of migrate, they do nothing.        *)
(***************************************************************************)
EXTENDS ServiceLifecycle, Sequences

CONSTANTS
    ServiceOf,   \* the loops of the service commands
    Exchanges,   \* exchanges an ExchangeClient loads the markets of
    Attempts,    \* limit NewDB gives to retry.Do (10 in the code)
    Files        \* migration files, numbered in the order of their names

ServiceCommands == {"crawler", "worker", "dex"}

ASSUME StartupAssumption ==
    /\ ServiceOf \in [ServiceCommands -> Services]
    /\ Attempts \in Nat \ {0} /\ Files \in Nat

StepsOf == [
    crawler |-> <<"flags", "config", "db", "redis", "books", "klines", "objects">>,
    worker  |-> <<"flags", "config", "db", "redis", "objects">>,
    dex     |-> <<"flags", "config", "objects">>,
    rpc     |-> <<"flags", "config", "db", "serve">>,
    api     |-> <<"flags", "config", "db", "listen">>,
    migrate |-> <<"flags", "config", "db", "files">>]

Commands == DOMAIN StepsOf

\* The two clients of the crawler.
Clients == {"books", "klines"}

VARIABLES
    cmd,      \* the command
    phase,    \* "starting", "up", "failed" or "finished"
    step,     \* the step it is at
    tries,    \* connection attempts made
    held,     \* what it has open
    reach,    \* exchanges each client can ask: fixed once it is made
    file,     \* the file migrate is at
    applied   \* files whose effect is in the database

own == <<cmd, phase, step, tries, held, reach, file, applied>>
all == <<vars, own>>

StartupInit ==
    /\ Init
    /\ cmd \in Commands /\ (cmd \in ServiceCommands => svc = ServiceOf[cmd])
    /\ phase = "starting" /\ step = 1 /\ tries = 0 /\ held = {}
    /\ reach = [c \in Clients |-> {}]
    /\ file = 1 /\ applied = {}

At(s) == phase = "starting" /\ StepsOf[cmd][step] = s

\* The step has succeeded.
Proceed ==
    IF step < Len(StepsOf[cmd])
    THEN step' = step + 1 /\ UNCHANGED <<vars, phase>>
    ELSE /\ phase' = "up" /\ UNCHANGED step
         /\ IF cmd \in ServiceCommands THEN SetupOk ELSE UNCHANGED vars

\* The step has failed, and the command with it.
GiveUp ==
    /\ phase' = "failed" /\ UNCHANGED step
    /\ IF cmd \in ServiceCommands THEN SetupFail ELSE UNCHANGED vars

\* A required flag is in neither the command line nor the environment.
\* All commands have all flags.
ParseFlags ==
    /\ At("flags")
    /\ Proceed \/ GiveUp
    /\ UNCHANGED <<cmd, tries, held, reach, file, applied>>

\* NewConfig: the file of API keys is missing, cannot be parsed or is empty.
LoadConfig ==
    /\ At("config")
    /\ Proceed \/ GiveUp
    /\ UNCHANGED <<cmd, tries, held, reach, file, applied>>

DBOpened ==
    /\ tries' = 0 /\ held' = held \cup {"db"}
    /\ Proceed

\* Faulty variant: it starts over until the database answers.
OpenDBForever ==
    /\ At("db")
    /\ \/ DBOpened
       \/ /\ tries' = (tries + 1) % Attempts
          /\ UNCHANGED <<vars, phase, step, held>>
    /\ UNCHANGED <<cmd, reach, file, applied>>

\* NewDB: up to Attempts attempts, which no interrupt ends.  With NewApi the
\* failure goes through Stop, which finds nothing to close.
OpenDB ==
    /\ At("db")
    /\ \/ DBOpened
       \/ /\ tries + 1 < Attempts /\ tries' = tries + 1
          /\ UNCHANGED <<vars, phase, step, held>>
       \/ /\ tries + 1 = Attempts /\ tries' = 0 /\ UNCHANGED held
          /\ GiveUp
    /\ UNCHANGED <<cmd, reach, file, applied>>

\* redis.New: one PING.  A failure leaves the database to the end of the
\* process.
PingRedis ==
    /\ At("redis")
    /\ \/ held' = held \cup {"redis"} /\ Proceed
       \/ UNCHANGED held /\ GiveUp
    /\ UNCHANGED <<cmd, tries, reach, file, applied>>

\* Faulty variant: a client that reaches no exchange is as good as any.
LoadMarketsOfAny(c) ==
    /\ At(c)
    /\ \E L \in SUBSET Exchanges : reach' = [reach EXCEPT ![c] = L]
    /\ Proceed
    /\ UNCHANGED <<cmd, tries, held, file, applied>>

\* NewExchangeClient: the exchanges whose markets could be loaded, at least
\* one.  The others stay out for the life of the process.
LoadMarkets(c) ==
    /\ At(c)
    /\ \/ /\ \E L \in (SUBSET Exchanges) \ {{}} : reach' = [reach EXCEPT ![c] = L]
          /\ Proceed
       \/ UNCHANGED reach /\ GiveUp
    /\ UNCHANGED <<cmd, tries, held, file, applied>>

\* What is left of NewCrawler, NewWorker and NewDexMarketPrice: a provider or
\* the CoinMarketCap client without a key, an address that is none, a chain
\* that does not answer.
BuildObjects ==
    /\ At("objects")
    /\ Proceed \/ GiveUp
    /\ UNCHANGED <<cmd, tries, held, reach, file, applied>>

\* Faulty variant: NewApi returns the error and leaves the rest open.
ListenHttpLeaking ==
    /\ At("listen")
    /\ \/ held' = held \cup {"listener"} /\ Proceed
       \/ UNCHANGED held /\ GiveUp
    /\ UNCHANGED <<cmd, tries, reach, file, applied>>

\* initFromConfig: without a listener NewApi calls Stop, which closes the
\* database.
ListenHttp ==
    /\ At("listen")
    /\ \/ held' = held \cup {"listener"} /\ Proceed
       \/ held' = held \ {"db"} /\ GiveUp
    /\ UNCHANGED <<cmd, tries, reach, file, applied>>

\* Start of the gRPC service: its goroutine logs that it cannot listen, and
\* the process stays up without.
ListenRpc ==
    /\ At("serve")
    /\ held' \in {held, held \cup {"listener"}}
    /\ Proceed
    /\ UNCHANGED <<cmd, tries, reach, file, applied>>

MigrateOver(p) ==
    /\ phase' = p /\ held' = {}
    /\ UNCHANGED <<vars, step>>

\* Faulty variant: a file that fails is passed over.
ExecuteFileOrNot ==
    /\ At("files") /\ file <= Files
    /\ applied' \in {applied, applied \cup {file}}
    /\ file' = file + 1
    /\ UNCHANGED <<vars, cmd, phase, step, tries, held, reach>>

\* ExecuteSQLMigration: a file is one Exec and takes effect as a whole or not
\* at all.  The first that cannot be read or executed ends the run, and its
\* effect may be there all the same; Close is deferred.
ExecuteFile ==
    /\ At("files") /\ file <= Files
    /\ \/ /\ applied' = applied \cup {file} /\ file' = file + 1
          /\ UNCHANGED <<vars, phase, step, held>>
       \/ /\ applied' \in {applied, applied \cup {file}} /\ UNCHANGED file
          /\ MigrateOver("failed")
    /\ UNCHANGED <<cmd, tries, reach>>

FilesDone ==
    /\ At("files") /\ file > Files
    /\ MigrateOver("finished")
    /\ UNCHANGED <<cmd, tries, reach, file, applied>>

Step ==
    \/ ParseFlags \/ LoadConfig \/ OpenDB \/ PingRedis \/ BuildObjects
    \/ \E c \in Clients : LoadMarkets(c)
    \/ ListenHttp \/ ListenRpc \/ ExecuteFile \/ FilesDone

\* migrate is killed, between two files or while one commits.
KillMigrate ==
    /\ cmd = "migrate" /\ phase = "starting"
    /\ applied' \in {applied} \cup IF At("files") /\ file <= Files
                                   THEN {applied \cup {file}} ELSE {}
    /\ MigrateOver("failed")
    /\ UNCHANGED <<cmd, tries, reach, file>>

\* It is run again, after a failure or to no purpose: a file that has taken
\* effect does so again without harm.
MigrateAgain ==
    /\ cmd = "migrate" /\ phase \in {"failed", "finished"}
    /\ phase' = "starting" /\ step' = 1 /\ tries' = 0 /\ file' = 1
    /\ UNCHANGED <<vars, cmd, held, reach, applied>>

-----------------------------------------------------------------------------
(* The service commands: lifecycleCmd is called once the flags are parsed. *)

InLifecycle == cmd \in ServiceCommands /\ step > 1

Serve ==
    /\ InLifecycle
    /\ StartLoop \/ BeginStop \/ Cancel \/ Join
    /\ UNCHANGED own

Around ==
    /\ InLifecycle
    /\ \/ Interrupt \/ StopListening
       \/ \E w \in Watchers : Listen(w)
       \/ \E i \in Loops : Tick(i) \/ SyncEnd(i) \/ SpawnedPanic(i) \/ Quit(i)
    /\ UNCHANGED own

StartupNext == Step \/ KillMigrate \/ MigrateAgain \/ Serve \/ Around

StartupSpec == StartupInit /\ [][StartupNext]_all

\* The goroutine of the command runs whenever it can, and what it asks of the
\* network is answered or times out.
StartupFairness == WF_all(Step) /\ WF_all(Serve)

StartupFairSpec ==
    StartupSpec /\ StartupFairness /\ SelectFairness /\ SyncFairness

-----------------------------------------------------------------------------
(* Properties                                                              *)

\* No loop runs before what it works with is there: both connections and, for
\* the crawler, an exchange each of its clients reaches; and whatever becomes
\* of a loop, none is started by a process whose setup failed
\* (cli.go:84-135, exchange_client.go:89-91, lifecycle.go:65-78).
LoopsHaveTheirClients ==
    (\E i \in Loops : loop[i] # "off") =>
        /\ phase = "up"
        /\ cmd \in {"crawler", "worker"} => {"db", "redis"} \subseteq held
        /\ cmd = "crawler" => \A c \in Clients : reach[c] # {}

\* The API is up with both its parts or cleans up what it had; a migration
\* that has ended, well or not, has closed its connection (api.go:56,
\* cli.go:49).
AllOrNothing ==
    /\ cmd = "api" /\ phase = "up" => held = {"db", "listener"}
    /\ cmd \in {"api", "migrate"} /\ phase \in {"failed", "finished"} => held = {}

\* However often migrate fails or is killed and run again, the files that have
\* taken effect are the first ones, without a gap, and all of them when a run
\* has succeeded (db.go:107-109).
SchemaGrowsInOrder ==
    /\ applied \in {1 .. n : n \in 0 .. Files}
    /\ phase = "finished" => applied = 1 .. Files

\* The steps a setup has ahead of it at most: those of the command, in each of
\* which all connection attempts or files may lie.
SetupLeft ==
    (Len(StepsOf[cmd]) - step) * (Attempts + Files + 1) + (Attempts - tries)
        + (Files + 1 - file)

\* Whatever a setup does brings it nearer to its end; connection attempts are
\* counted, no step is taken twice, and no interrupt sets it back
\* (db.go:33-62, cli.go:40-145).
SetupGetsShorter ==
    [][phase = "starting" /\ phase' = "starting" /\ own' # own
        => SetupLeft' < SetupLeft]_all

\* Every setup comes to an end, also while the database does not answer
\* (db.go:33).
SetupEnds == phase = "starting" ~> phase # "starting"
=============================================================================
