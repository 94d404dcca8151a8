----------------------------- MODULE AddonServices -----------------------------
(***************************************************************************)
(* The add-on's container once it is set up: the web console's two s6      *)
(* services, which wait for files the Hub writes, and the stop, in which   *)
(* s6 ends those services, hub-stop's script ends the Hub and then the     *)
(* bundled Postgres, and every other process is ended after it.            *)
(*                                                                         *)
(* A stop is asked for by the Supervisor, which kills the container after  *)
(* Grace seconds, or follows the end of the main command.  Time counts     *)
(* only during a stop, in seconds; the script's other steps take none.     *)
(***************************************************************************)
EXTENDS Integers

CONSTANTS
    Grace,          \* the Supervisor's time limit for a stop
    DrainLimit,     \* SHUTDOWN_TIMEOUT_MS
    HubWait,        \* wait_gone's limit for the Hub
    PostgresWait,   \* wait_gone's limit for Postgres
    MaxPairs        \* bound: certificates the Hub issues

ASSUME TimesAssumption ==
    /\ {Grace, DrainLimit, HubWait, PostgresWait} \subseteq Nat
    /\ MaxPairs \in Nat \ {0}

VARIABLES
    tls,            \* tls_mode
    localPg,        \* run.sh starts the bundled Postgres
    main,           \* the main command: run.sh, then the Hub
    pg, pidFile,    \* the bundled Postgres, and what postmaster.pid names
    written,        \* which of api-token and ca.crt exist
    goal,           \* the certificate the Hub uses: <<serial number, its key>>
    cert, key,      \* the contents of server.crt and server.key
    front,          \* console-front
    read,           \* what readKeyPair has read of server.crt
    served,         \* the pair the listener was given
    console,        \* the web console
    stop,           \* the step of the stop
    limited,        \* did the Supervisor ask for it?
    elapsed,        \* seconds since it was asked for
    waited,         \* seconds in wait_gone
    target,         \* what the second wait_gone waits for
    scanned,        \* history: the main command when the script looked for it
    begunAt         \* history: elapsed when the script began

config == <<tls, localPg>>
database == <<pg, pidFile>>
hubFiles == <<written, goal, cert, key>>
services == <<front, read, served, console>>
history == <<scanned, begunAt>>
stopping == <<stop, limited, elapsed, waited, target, history>>
vars == <<config, main, database, hubFiles, services, stopping>>

(* A file's contents: none, half-written, a certificate <<serial number,   *)
(* key>>, or a key <<key>>.                                                *)
Absent == << >>
Torn == <<0>>
Serials == 1 .. MaxPairs
Certs == Serials \X Serials
CertFiles == {Absent, Torn} \cup Certs
KeyFiles == {Absent, Torn} \cup {<<k>> : k \in Serials}

(* The pairs that createHttpsServer and setSecureContext accept.           *)
Loads(c, k) == c \in Certs /\ k = <<c[2]>>
GoalOnFile == cert = goal /\ key = <<goal[2]>>

NoPair == <<Absent, Absent>>
Running == stop = "idle"

Init ==
    /\ tls \in {"auto", "disabled"} /\ localPg \in BOOLEAN
    /\ main = "script" /\ pg = "none" /\ pidFile = "none"
    /\ written = {} /\ goal = <<1, 1>> /\ cert = Absent /\ key = Absent
    /\ front = "waiting" /\ read = << >> /\ served = NoPair
    /\ console = "waiting"
    /\ stop = "idle" /\ limited = FALSE
    /\ elapsed = 0 /\ waited = 0
    /\ target = "none" /\ scanned = "none" /\ begunAt = Grace

(* The container is started again, with other options perhaps: /data    *)
(* has kept its files, /run is empty.                                      *)
Start ==
    /\ stop = "off"
    /\ tls' \in {"auto", "disabled"} /\ localPg' \in BOOLEAN
    /\ main' = "script"
    /\ front' = "waiting" /\ console' = "waiting"
    /\ stop' = "idle"
    /\ UNCHANGED <<database, hubFiles, read, served, limited, elapsed, waited, target, history>>

-----------------------------------------------------------------------------
(* The main command, and what the Hub writes.                              *)

StartPostgres ==
    /\ main = "script" /\ localPg /\ pg = "none"
    /\ pg' = "up" /\ pidFile' = "live"
    /\ UNCHANGED <<config, main, hubFiles, services, stopping>>

ExecHub ==
    /\ main = "script"
    /\ localPg => pg # "none"
    /\ main' = "hub"
    /\ UNCHANGED <<config, database, hubFiles, services, stopping>>

(* A renewal, with the old key or a new one.                               *)
Renew ==
    /\ main = "hub" /\ tls = "auto"
    /\ GoalOnFile
    /\ goal[1] < MaxPairs
    /\ \E k \in {goal[2], goal[1] + 1} : goal' = <<goal[1] + 1, k>>
    /\ UNCHANGED <<config, main, database, written, cert, key, services, stopping>>

(* At its start the Hub creates what is missing; certificate and key are   *)
(* written in place, so that each is half-written for a while.             *)
HubWrites ==
    /\ main = "hub"
    /\ \/ /\ written' = written \cup {"token"}
          /\ UNCHANGED <<cert, key>>
       \/ /\ tls = "auto"
          /\ written' = written \cup {"ca"}
          /\ UNCHANGED <<cert, key>>
       \/ /\ tls = "auto" /\ cert # goal
          /\ cert' = IF cert = Torn THEN goal ELSE Torn
          /\ UNCHANGED <<written, key>>
       \/ /\ tls = "auto" /\ key # <<goal[2]>>
          /\ key' = IF key = Torn THEN <<goal[2]>> ELSE Torn
          /\ UNCHANGED <<written, cert>>
    /\ UNCHANGED <<config, main, database, goal, services, stopping>>

-----------------------------------------------------------------------------
(* The console services.                                                   *)

(* Mutant: the listener waits for a certificate in every mode.             *)
CertAlways == TRUE

UsesCert == tls = "auto"

FrontStarts ==
    /\ front = "waiting"
    /\ UsesCert => cert # Absent /\ key # Absent
    /\ front' = IF UsesCert THEN "loading" ELSE "serving"
    /\ UNCHANGED <<config, main, database, hubFiles, read, served, console, stopping>>

(* readKeyPair reads server.crt, and then server.key: the Hub may write in *)
(* between.  A serving listener does so once a minute.                     *)
ReadCert ==
    /\ front \in {"loading", "serving"} /\ UsesCert
    /\ read = << >>
    /\ read' = <<cert>>
    /\ UNCHANGED <<config, main, database, hubFiles, front, served, console, stopping>>

(* Mutant: one unchanged file is taken for an unchanged pair.              *)
BothChanged(c, k) == c # served[1] /\ k # served[2]

Changed(c, k) == c # served[1] \/ k # served[2]

(* With a pair that does not load, the process ends and is started again.  *)
Load ==
    /\ front = "loading" /\ read # << >>
    /\ IF Loads(read[1], key)
         THEN front' = "serving" /\ served' = <<read[1], key>>
         ELSE front' = "waiting" /\ UNCHANGED served
    /\ read' = << >>
    /\ UNCHANGED <<config, main, database, hubFiles, console, stopping>>

(* Mutant: the error of a pair that does not load ends the process.        *)
ReloadOrExit ==
    /\ front = "serving" /\ read # << >>
    /\ IF Changed(read[1], key) /\ ~Loads(read[1], key)
         THEN front' = "waiting" /\ served' = NoPair
         ELSE front' = front /\ served' = <<read[1], key>>
    /\ read' = << >>
    /\ UNCHANGED <<config, main, database, hubFiles, console, stopping>>

Reload ==
    /\ front = "serving" /\ read # << >>
    /\ served' = IF Changed(read[1], key) /\ Loads(read[1], key)
                   THEN <<read[1], key>>
                   ELSE served
    /\ read' = << >>
    /\ UNCHANGED <<config, main, database, hubFiles, front, console, stopping>>

ConsoleStarts ==
    /\ console = "waiting"
    /\ "token" \in written
    /\ tls = "auto" => "ca" \in written
    /\ console' = "up"
    /\ UNCHANGED <<config, main, database, hubFiles, front, read, served, stopping>>

ServiceSteps == FrontStarts \/ ReadCert \/ Load \/ Reload \/ ConsoleStarts

-----------------------------------------------------------------------------
(* The stop.                                                               *)

(* A listener that serves has handlers for TERM, and closes its            *)
(* connections; what still waits for its files just ends.                  *)
EndServices ==
    /\ stop' = "services"
    /\ front' = IF front = "serving" THEN "draining" ELSE "down"
    /\ read' = << >> /\ served' = NoPair
    /\ console' = IF console = "up" THEN "stopping" ELSE "down"

StopAsked ==
    /\ Running
    /\ EndServices
    /\ limited' = TRUE
    /\ UNCHANGED <<config, main, database, hubFiles, elapsed, waited, target, history>>

(* run.sh fails or the Hub ends, by itself or because it was told to.      *)
MainEnds ==
    /\ main \in {"script", "hub"}
    /\ main' = "gone"
    /\ IF Running
         THEN EndServices
         ELSE UNCHANGED <<services, stop>>
    /\ UNCHANGED <<config, database, hubFiles, limited, elapsed, waited, target, history>>

(* The listener has closed, or its timer ends it.                          *)
FrontEnds ==
    /\ front = "draining" /\ front' = "down"
    /\ UNCHANGED <<config, main, database, hubFiles, read, served, console, stopping>>

(* Nothing bounds the time the console takes, or makes it end at all.      *)
ConsoleEnds ==
    /\ console = "stopping" /\ console' = "down"
    /\ UNCHANGED <<config, main, database, hubFiles, front, read, served, stopping>>

(* Mutant: the console does not depend on hub-stop.                        *)
FrontDown == front = "down"

ServicesDown == front = "down" /\ console = "down"

(* Mutant: the Hub is looked for among root's processes.                   *)
FindsScript(m) == m = "script"

(* pidof labtether, run by the Hub's user.                                 *)
FindsHub(m) == m = "hub"

ScriptBegins ==
    /\ stop = "services" /\ ServicesDown
    /\ stop' = IF FindsHub(main) THEN "hub" ELSE "postgres"
    /\ scanned' = main /\ begunAt' = elapsed
    /\ UNCHANGED <<config, main, database, hubFiles, services, limited, elapsed, waited, target>>

(* Mutant: the script waits twice as long.                                 *)
HubWaitTwice == main = "gone" \/ waited = 2 * HubWait

HubWaitOver == main = "gone" \/ waited = HubWait

HubWaitEnds ==
    /\ stop = "hub" /\ HubWaitOver
    /\ stop' = "postgres" /\ waited' = 0
    /\ UNCHANGED <<config, main, database, hubFiles, services, limited, elapsed, target, history>>

(* After a kill, postmaster.pid is left behind; the process it names now   *)
(* may be none, the main command or one of s6.                             *)
Named ==
    CASE pidFile = "none" -> {"none"}
      [] pidFile = "live" -> {"pg"}
      [] pidFile = "stale" -> {"none", "s6"} \cup (IF main = "gone" THEN {} ELSE {"main"})

InterruptPostgres ==
    /\ stop = "postgres"
    /\ \E t \in Named :
         /\ target' = t
         /\ stop' = IF t = "none" THEN "rest" ELSE "postgresWait"
         /\ pg' = IF t = "pg" THEN "stopping" ELSE pg
    /\ UNCHANGED <<config, main, pidFile, hubFiles, services, limited, elapsed, waited, history>>

TargetGone ==
    \/ target = "pg" /\ pg = "gone"
    \/ target = "main" /\ main = "gone"

(* Mutant: the script waits for Postgres until it is gone.                 *)
WaitForPostgres ==
    /\ stop = "postgresWait"
    /\ TargetGone \/ (target # "pg" /\ waited = PostgresWait)
    /\ stop' = "rest" /\ waited' = 0
    /\ UNCHANGED <<config, main, database, hubFiles, services, limited, elapsed, target, history>>

PostgresWaitEnds ==
    /\ stop = "postgresWait"
    /\ TargetGone \/ waited = PostgresWait
    /\ stop' = "rest" /\ waited' = 0
    /\ UNCHANGED <<config, main, database, hubFiles, services, limited, elapsed, target, history>>

(* Interrupted, or with every other process after the script.              *)
PostgresEnds ==
    /\ pg = "stopping" \/ (pg = "up" /\ stop = "rest")
    /\ pg' = "gone" /\ pidFile' = "none"
    /\ UNCHANGED <<config, main, hubFiles, services, stopping>>

(* After the script s6 ends every other process; or the Supervisor kills   *)
(* the container.  What it has in /run is gone.                            *)
ContainerEnds ==
    /\ \/ stop = "rest"
       \/ limited /\ elapsed = Grace
    /\ stop' = "off"
    /\ main' = "gone" /\ front' = "down" /\ console' = "down" /\ pg' = "none"
    /\ pidFile' = IF pg \in {"up", "stopping"} THEN "stale" ELSE pidFile
    /\ written' = written \ {"token"}
    /\ limited' = FALSE /\ elapsed' = 0 /\ waited' = 0
    /\ target' = "none" /\ scanned' = "none" /\ begunAt' = Grace
    /\ UNCHANGED <<config, goal, cert, key, read, served>>

StopSteps == FrontEnds \/ ScriptBegins \/ HubWaitEnds
             \/ InterruptPostgres \/ PostgresWaitEnds \/ ContainerEnds

(* A second passes: never one more in wait_gone than its limit, nor in     *)
(* the listener's drain, nor before a step that takes no time.             *)
Waits ==
    \/ stop = "services" /\ limited /\ ~ServicesDown
         /\ (front = "draining" => elapsed < DrainLimit)
    \/ stop = "hub" /\ ~HubWaitOver
    \/ stop = "postgresWait" /\ ~TargetGone /\ waited < PostgresWait

Tick ==
    /\ Waits
    /\ limited => elapsed < Grace
    /\ elapsed' = IF limited THEN elapsed + 1 ELSE elapsed
    /\ waited' = IF stop = "services" THEN waited ELSE waited + 1
    /\ UNCHANGED <<config, main, database, hubFiles, services, stop, limited, target, history>>

Next ==
    \/ Start \/ StartPostgres \/ ExecHub \/ HubWrites \/ Renew
    \/ ServiceSteps
    \/ StopAsked \/ MainEnds \/ PostgresEnds
    \/ ConsoleEnds \/ StopSteps
    \/ Tick

(* s6, the script and the listener's timer keep the services and the stop  *)
(* going, and a Hub that runs finishes what it writes.  The console, the   *)
(* Hub and Postgres need not end when told to.                             *)
Fairness ==
    /\ WF_vars(HubWrites)
    /\ WF_vars(FrontStarts) /\ WF_vars(ReadCert) /\ WF_vars(Load) /\ WF_vars(Reload)
    /\ WF_vars(ConsoleStarts)
    /\ WF_vars(StopSteps)
    /\ WF_vars(Tick)

Spec == Init /\ [][Next]_vars /\ Fairness

-----------------------------------------------------------------------------
(* Properties.                                                             *)

(* The types; the services are down before the script looks for the Hub,   *)
(* and a stop under the Supervisor's limit never outlasts it               *)
(* (stop-hub.sh:2-3, 32).                                                  *)
TypeOK ==
    /\ tls \in {"auto", "disabled"} /\ localPg \in BOOLEAN
    /\ main \in {"script", "hub", "gone"}
    /\ pg \in {"none", "up", "stopping", "gone"}
    /\ pidFile \in {"none", "live", "stale"}
    /\ written \subseteq {"token", "ca"}
    /\ goal \in Certs /\ cert \in CertFiles /\ key \in KeyFiles
    /\ front \in {"waiting", "loading", "serving", "draining", "down"}
    /\ read \in {<< >>} \cup {<<c>> : c \in CertFiles}
    /\ served \in {NoPair} \cup (Certs \X KeyFiles)
    /\ console \in {"waiting", "up", "stopping", "down"}
    /\ stop \in {"idle", "services", "hub", "postgres", "postgresWait", "rest", "off"}
    /\ limited \in BOOLEAN
    /\ elapsed \in 0 .. Grace /\ begunAt \in 0 .. Grace
    /\ waited \in 0 .. (IF stop = "hub" THEN HubWait ELSE PostgresWait)
    /\ target \in {"none", "pg", "main", "s6"}
    /\ scanned \in {"none", "script", "hub", "gone"}
    /\ stop \in {"hub", "postgres", "postgresWait", "rest"} => front = "down" /\ console = "down"

(* When the Supervisor's time is up, Postgres has been told to stop if the *)
(* services left the script more time than the Hub may take, and the       *)
(* script is through if they left it more than both waits take, whatever   *)
(* hangs and whatever a stale postmaster.pid names (stop-hub.sh:32-46).    *)
StopFitsGrace ==
    (limited /\ elapsed = Grace) =>
        /\ begunAt + HubWait < Grace => stop \in {"postgresWait", "rest"}
        /\ begunAt + HubWait + PostgresWait < Grace => stop = "rest"

(* A Hub that ran when the script looked for it has ended, or has had its  *)
(* time, when Postgres is told to stop (stop-hub.sh:7, 30-43).             *)
HubStopsFirst ==
    [][(pg = "up" /\ pg' = "stopping" /\ scanned = "hub") =>
           main = "gone" \/ elapsed >= begunAt + HubWait]_vars

(* Whenever the Hub renews its certificate, and whatever the listener      *)
(* reads of it, the listener stays up, with a pair that belongs together   *)
(* (console-front.mjs:209-221).                                            *)
RenewalKeepsServing ==
    [][(front = "serving" /\ stop' = "idle") =>
           front' = "serving" /\ (tls = "auto" => Loads(served'[1], served'[2]))]_vars

(* Once the Hub has finished a renewal, the listener comes to serve the    *)
(* new pair, also when it has read a half-written one before               *)
(* (console-front.mjs:209-221).                                            *)
Settled == front = "serving" /\ tls = "auto" /\ GoalOnFile
FrontCatchesUp == Settled ~> (~Settled \/ served = <<cert, key>>)

(* With a Hub that runs, both services come up, in either TLS mode, after  *)
(* a restart and when they find half-written files: nobody waits for a     *)
(* file that nobody writes (console-env.sh:29-35, console-front/run:20-23, *)
(* console/run:24-27).                                                     *)
HubRuns == main = "hub" /\ Running
ConsoleComesUp == HubRuns ~> (~HubRuns \/ (front = "serving" /\ console = "up"))

(* A stop that began ends under the Supervisor's limit whatever hangs, and *)
(* without it, when the main command ended by itself, once the console has *)
(* ended: a Postgres that hangs or a stale pid file does not keep the      *)
(* container (stop-hub.sh:33, 43; console-front.mjs:235).                  *)
ContainerStops == (~Running /\ (limited \/ console # "stopping")) ~> stop = "off"

=============================================================================
