--------------------------- MODULE AddonServicesProofs ---------------------------
(***************************************************************************)
(* Proofs about AddonServices, for every time limit and any number of      *)
(* certificates.                                                           *)
(*                                                                         *)
(* StopFitsGrace and HubStopsFirst speak of the moment the time is up, or  *)
(* Postgres is told to stop.  OnTime says at every step of the script how  *)
(* much of the time may be gone; HubHadItsTime, why the script has come as *)
(* far as it has.  Both need that a stop nobody asked for follows the end  *)
(* of the main command.                                                    *)
(***************************************************************************)
EXTENDS AddonServices, TLAPS

(* The parts of TypeOK.                                                    *)
ProcessesOK ==
    /\ tls \in {"auto", "disabled"} /\ localPg \in BOOLEAN
    /\ main \in {"script", "hub", "gone"}
    /\ pg \in {"none", "up", "stopping", "gone"}
    /\ pidFile \in {"none", "live", "stale"}

FilesOK ==
    /\ written \subseteq {"token", "ca"}
    /\ goal \in Certs /\ cert \in CertFiles /\ key \in KeyFiles

ServicesOK ==
    /\ front \in {"waiting", "loading", "serving", "draining", "down"}
    /\ read \in {<< >>} \cup {<<c>> : c \in CertFiles}
    /\ served \in {NoPair} \cup (Certs \X KeyFiles)
    /\ console \in {"waiting", "up", "stopping", "down"}

StopOK ==
    /\ stop \in {"idle", "services", "hub", "postgres", "postgresWait", "rest", "off"}
    /\ limited \in BOOLEAN
    /\ elapsed \in 0 .. Grace /\ begunAt \in 0 .. Grace
    /\ waited \in 0 .. (IF stop = "hub" THEN HubWait ELSE PostgresWait)
    /\ target \in {"none", "pg", "main", "s6"}
    /\ scanned \in {"none", "script", "hub", "gone"}

DownFirst == stop \in {"hub", "postgres", "postgresWait", "rest"} => ServicesDown

(* What the stop's steps mean for its clock and for the main command.      *)
OnTime ==
    /\ stop \notin {"hub", "postgresWait"} => waited = 0
    /\ stop \in {"idle", "services", "off"} => begunAt = Grace
    /\ stop \in {"idle", "off"} => ~limited
    /\ ~limited => elapsed = 0
    /\ limited =>
         /\ stop = "hub" => elapsed = begunAt + waited
         /\ stop = "postgres" => elapsed <= begunAt + HubWait
         /\ stop = "postgresWait" => elapsed <= begunAt + HubWait + waited

HubHadItsTime ==
    /\ ~Running /\ ~limited => main = "gone"
    /\ stop = "postgres" /\ scanned = "hub" =>
         main = "gone" \/ elapsed >= begunAt + HubWait

(* The listener serves only before a stop, and in auto mode a pair.        *)
ServesAPair ==
    /\ ~Running => front \in {"draining", "down"}
    /\ stop = "off" => front = "down"
    /\ front = "serving" /\ tls = "auto" => Loads(served[1], served[2])

IInv ==
    /\ ProcessesOK /\ FilesOK /\ ServicesOK /\ StopOK /\ DownFirst
    /\ OnTime /\ HubHadItsTime /\ ServesAPair

-----------------------------------------------------------------------------

(* The parts are all of TypeOK.                                            *)
LEMMA Parts ==
  TypeOK <=> ProcessesOK /\ FilesOK /\ ServicesOK /\ StopOK /\ DownFirst
BY Zenon DEF TypeOK, ProcessesOK, FilesOK, ServicesOK, StopOK, DownFirst, ServicesDown

(* The container starts with nothing running.                              *)
LEMMA InitIInv == Init => IInv
<1> SUFFICES ASSUME Init PROVE IInv
  OBVIOUS
<1> USE TimesAssumption
<1>1. ProcessesOK
  BY DEF Init, ProcessesOK
<1>2. FilesOK
  BY DEF Init, FilesOK, Certs, Serials, CertFiles, KeyFiles
<1>3. ServicesOK
  BY DEF Init, ServicesOK
<1>4. StopOK /\ DownFirst
  <2>1. /\ elapsed \in 0 .. Grace /\ begunAt \in 0 .. Grace
        /\ waited \in 0 .. PostgresWait
    BY DEF Init
  <2>2. stop = "idle" /\ limited \in BOOLEAN /\ target = "none" /\ scanned = "none"
    BY DEF Init
  <2> QED
    BY <2>1, <2>2 DEF StopOK, DownFirst
<1>5. OnTime /\ HubHadItsTime /\ ServesAPair
  BY DEF Init, OnTime, HubHadItsTime, ServesAPair, Running
<1> QED
  BY <1>1, <1>2, <1>3, <1>4, <1>5 DEF IInv

(* A certificate that loads is a pair as TypeOK has it.                    *)
LEMMA LoadedPair ==
  ASSUME FilesOK, ServicesOK, read # << >>
  PROVE  /\ read[1] \in CertFiles
         /\ Loads(read[1], key) => <<read[1], key>> \in Certs \X KeyFiles
<1>1. PICK c \in CertFiles : read = <<c>>
  BY DEF ServicesOK
<1>2. read[1] = c
  BY <1>1
<1> QED
  BY <1>2 DEF Loads, FilesOK

(* The processes and the files.                                            *)
LEMMA ProcessesStep == IInv /\ [Next]_vars => ProcessesOK'
<1> SUFFICES ASSUME IInv, [Next]_vars PROVE ProcessesOK'
  OBVIOUS
<1> USE DEF IInv, ProcessesOK
<1>1. CASE Start
  BY <1>1 DEF Start, database
<1>2. CASE StartPostgres \/ ExecHub
  BY <1>2 DEF StartPostgres, ExecHub, config, database
<1>3. CASE HubWrites \/ Renew
  BY <1>3 DEF HubWrites, Renew, config, database
<1>4. CASE ServiceSteps
  BY <1>4 DEF ServiceSteps, FrontStarts, ReadCert, Load, Reload, ConsoleStarts, config, database
<1>5. CASE StopAsked \/ MainEnds
  BY <1>5 DEF StopAsked, MainEnds, config, database
<1>6. CASE PostgresEnds \/ InterruptPostgres
  BY <1>6 DEF PostgresEnds, InterruptPostgres, config
<1>7. CASE FrontEnds \/ ConsoleEnds \/ ScriptBegins \/ HubWaitEnds \/ PostgresWaitEnds
  BY <1>7 DEF FrontEnds, ConsoleEnds, ScriptBegins, HubWaitEnds, PostgresWaitEnds, config, database
<1>8. CASE ContainerEnds
  BY <1>8 DEF ContainerEnds, config
<1>9. CASE Tick
  BY <1>9 DEF Tick, config, database
<1>10. CASE UNCHANGED vars
  BY <1>10 DEF vars, config, database
<1> QED
  BY <1>1, <1>2, <1>3, <1>4, <1>5, <1>6, <1>7, <1>8, <1>9, <1>10 DEF Next, StopSteps

(* Certificates and keys are absent, half-written or the Hub's.            *)
LEMMA FilesStep == IInv /\ [Next]_vars => FilesOK'
<1> SUFFICES ASSUME IInv, [Next]_vars PROVE FilesOK'
  OBVIOUS
<1>1. goal[1] \in Serials /\ goal[2] \in Serials
  BY DEF IInv, FilesOK, Certs
<1>2. CASE Renew
  <2>1. PICK k \in {goal[2], goal[1] + 1} : goal' = <<goal[1] + 1, k>>
    BY <1>2 DEF Renew
  <2>2. goal[1] + 1 \in Serials /\ k \in Serials
    BY <1>1, <1>2, TimesAssumption DEF Renew, Serials
  <2>3. goal' \in Certs
    BY <2>1, <2>2 DEF Certs
  <2> QED
    BY <1>2, <2>3 DEF Renew, IInv, FilesOK
<1>3. CASE HubWrites
  <2>1. goal \in CertFiles /\ Torn \in CertFiles
        /\ <<goal[2]>> \in KeyFiles /\ Torn \in KeyFiles
    BY <1>1, Zenon DEF IInv, FilesOK, CertFiles, KeyFiles
  <2>2. goal' = goal
    BY <1>3 DEF HubWrites
  <2>3. cert' \in CertFiles
    BY <1>3, <2>1 DEF HubWrites, IInv, FilesOK
  <2>4. key' \in KeyFiles
    BY <1>3, <2>1 DEF HubWrites, IInv, FilesOK
  <2>5. written' \subseteq {"token", "ca"}
    BY <1>3 DEF HubWrites, IInv, FilesOK
  <2> QED
    BY <2>2, <2>3, <2>4, <2>5 DEF IInv, FilesOK
<1>4. CASE ContainerEnds
  BY <1>4 DEF ContainerEnds, IInv, FilesOK
<1>5. CASE ~Renew /\ ~HubWrites /\ ~ContainerEnds
  <2>1. UNCHANGED hubFiles
    BY <1>5, Zenon DEF Next, Start, StartPostgres, ExecHub, ServiceSteps, FrontStarts,
       ReadCert, Load, Reload, ConsoleStarts, StopAsked, MainEnds, PostgresEnds,
       StopSteps, FrontEnds, ConsoleEnds, ScriptBegins, HubWaitEnds, InterruptPostgres,
       PostgresWaitEnds, Tick, vars
  <2> QED
    BY <2>1 DEF hubFiles, IInv, FilesOK
<1> QED
  BY <1>2, <1>3, <1>4, <1>5

(* The listener holds no pair, or one it has read from both files.         *)
LEMMA ServicesStep == IInv /\ [Next]_vars => ServicesOK'
<1> SUFFICES ASSUME IInv, [Next]_vars PROVE ServicesOK'
  OBVIOUS
<1> USE DEF IInv
<1>1. CASE ReadCert
  BY <1>1 DEF ReadCert, ServicesOK, FilesOK
<1>2. CASE Load
  <2>1. /\ front' \in {"serving", "waiting"} /\ read' = << >>
        /\ served' = served \/ (served' = <<read[1], key>> /\ Loads(read[1], key))
        /\ read # << >> /\ console' = console
    BY <1>2 DEF Load
  <2>2. served' \in {NoPair} \cup (Certs \X KeyFiles)
    BY <2>1, LoadedPair DEF ServicesOK
  <2> QED
    BY <2>1, <2>2 DEF ServicesOK
<1>3. CASE Reload
  <2>1. /\ read' = << >>
        /\ served' = served \/ (served' = <<read[1], key>> /\ Loads(read[1], key))
        /\ read # << >> /\ console' = console /\ front' = front
    BY <1>3 DEF Reload
  <2>2. served' \in {NoPair} \cup (Certs \X KeyFiles)
    BY <2>1, LoadedPair DEF ServicesOK
  <2> QED
    BY <2>1, <2>2 DEF ServicesOK
<1>4. CASE FrontStarts
  BY <1>4 DEF FrontStarts, ServicesOK
<1>5. CASE ConsoleStarts
  BY <1>5 DEF ConsoleStarts, ServicesOK
<1>6. CASE EndServices
  BY <1>6 DEF EndServices, ServicesOK
<1>7. CASE Start
  BY <1>7 DEF Start, ServicesOK
<1>8. CASE FrontEnds \/ ConsoleEnds
  BY <1>8 DEF FrontEnds, ConsoleEnds, ServicesOK
<1>9. CASE ContainerEnds
  BY <1>9 DEF ContainerEnds, ServicesOK
<1>10. CASE UNCHANGED services
  BY <1>10 DEF services, ServicesOK
<1> QED
  BY <1>1, <1>2, <1>3, <1>4, <1>5, <1>6, <1>7, <1>8, <1>9, <1>10, Zenon
     DEF Next, StartPostgres, ExecHub, HubWrites, Renew, ServiceSteps, StopAsked,
     MainEnds, PostgresEnds, StopSteps, ScriptBegins, HubWaitEnds, InterruptPostgres,
     PostgresWaitEnds, Tick, vars

(* The stop's variables keep their types, and the script finds the         *)
(* services down.                                                          *)
LEMMA StopStep == IInv /\ [Next]_vars => StopOK' /\ DownFirst'
<1> SUFFICES ASSUME IInv, [Next]_vars PROVE StopOK' /\ DownFirst'
  OBVIOUS
<1> USE TimesAssumption DEF IInv, StopOK, DownFirst, ServicesDown, OnTime, history
<1>1. CASE UNCHANGED stopping /\ (UNCHANGED services \/ ServiceSteps \/ FrontEnds \/ ConsoleEnds)
  <2>1. ServicesDown => UNCHANGED <<front, console>>
    BY <1>1, Zenon DEF services, ServiceSteps, FrontStarts, ReadCert, Load, Reload,
       ConsoleStarts, FrontEnds, ConsoleEnds
  <2> QED
    BY <1>1, <2>1 DEF stopping
<1>2. CASE Start
  BY <1>2 DEF Start
<1>3. CASE StopAsked
  BY <1>3 DEF StopAsked, EndServices, Running
<1>4. CASE MainEnds /\ Running
  BY <1>4 DEF MainEnds, EndServices, Running
<1>5. CASE ScriptBegins
  BY <1>5 DEF ScriptBegins, FindsHub, ProcessesOK, services
<1>6. CASE HubWaitEnds \/ PostgresWaitEnds
  BY <1>6 DEF HubWaitEnds, PostgresWaitEnds, services
<1>7. CASE InterruptPostgres
  <2>1. PICK t \in Named :
          /\ target' = t
          /\ stop' = IF t = "none" THEN "rest" ELSE "postgresWait"
    BY <1>7 DEF InterruptPostgres
  <2>2. t \in {"none", "pg", "main", "s6"}
    BY DEF Named, ProcessesOK
  <2> QED
    BY <1>7, <2>1, <2>2 DEF InterruptPostgres, services
<1>8. CASE ContainerEnds
  <2>1. elapsed' = 0 /\ begunAt' = Grace /\ waited' = 0 /\ limited' \in BOOLEAN
    BY <1>8, Zenon DEF ContainerEnds
  <2>2. stop' = "off" /\ target' = "none" /\ scanned' = "none"
    BY <1>8 DEF ContainerEnds
  <2> QED
    BY <2>1, <2>2
<1>9. CASE Tick
  BY <1>9 DEF Tick, Waits, HubWaitOver, services
<1> QED
  BY <1>1, <1>2, <1>3, <1>4, <1>5, <1>6, <1>7, <1>8, <1>9, Zenon
     DEF Next, StartPostgres, ExecHub, HubWrites, Renew, ServiceSteps, FrontStarts,
     ReadCert, Load, Reload, ConsoleStarts, MainEnds, PostgresEnds, StopSteps,
     FrontEnds, ConsoleEnds, vars, services, stopping

(* At every step of the script no more time is gone than it may take.      *)
LEMMA OnTimeStep == IInv /\ [Next]_vars => OnTime'
<1> SUFFICES ASSUME IInv, [Next]_vars PROVE OnTime'
  OBVIOUS
<1> USE TimesAssumption DEF IInv, StopOK, OnTime, history
<1>1. CASE UNCHANGED stopping
  BY <1>1 DEF stopping
<1>2. CASE Start
  BY <1>2 DEF Start
<1>3. CASE StopAsked
  BY <1>3 DEF StopAsked, EndServices, Running
<1>4. CASE MainEnds /\ Running
  BY <1>4 DEF MainEnds, EndServices, Running
<1>5. CASE ScriptBegins
  BY <1>5 DEF ScriptBegins
<1>6. CASE HubWaitEnds
  BY <1>6 DEF HubWaitEnds
<1>7. CASE InterruptPostgres
  BY <1>7 DEF InterruptPostgres
<1>8. CASE PostgresWaitEnds
  BY <1>8 DEF PostgresWaitEnds
<1>9. CASE ContainerEnds
  BY <1>9 DEF ContainerEnds
<1>10. CASE Tick
  BY <1>10 DEF Tick, Waits
<1> QED
  BY <1>1, <1>2, <1>3, <1>4, <1>5, <1>6, <1>7, <1>8, <1>9, <1>10, Zenon
     DEF Next, StartPostgres, ExecHub, HubWrites, Renew, ServiceSteps, FrontStarts,
     ReadCert, Load, Reload, ConsoleStarts, MainEnds, PostgresEnds, StopSteps,
     FrontEnds, ConsoleEnds, vars, services, stopping

(* The script leaves a Hub it has found only when that has ended or had    *)
(* its time; a stop nobody asked for follows the end of the main command.  *)
LEMMA HubHadItsTimeStep == IInv /\ [Next]_vars => HubHadItsTime'
<1> SUFFICES ASSUME IInv, [Next]_vars PROVE HubHadItsTime'
  OBVIOUS
<1> USE TimesAssumption DEF IInv, StopOK, OnTime, HubHadItsTime, Running, history
<1>1. CASE UNCHANGED <<main, stopping>>
  BY <1>1 DEF stopping
<1>2. CASE Start
  BY <1>2 DEF Start
<1>3. CASE StopAsked
  BY <1>3 DEF StopAsked, EndServices
<1>4. CASE MainEnds
  BY <1>4 DEF MainEnds, EndServices
<1>5. CASE ScriptBegins
  BY <1>5 DEF ScriptBegins, FindsHub
<1>6. CASE HubWaitEnds
  BY <1>6 DEF HubWaitEnds, HubWaitOver
<1>7. CASE InterruptPostgres \/ PostgresWaitEnds
  BY <1>7 DEF InterruptPostgres, PostgresWaitEnds
<1>8. CASE ContainerEnds
  BY <1>8 DEF ContainerEnds
<1>9. CASE Tick
  BY <1>9 DEF Tick, Waits
<1>10. CASE ExecHub
  BY <1>10 DEF ExecHub, stopping
<1> QED
  BY <1>1, <1>2, <1>3, <1>4, <1>5, <1>6, <1>7, <1>8, <1>9, <1>10, Zenon
     DEF Next, StartPostgres, HubWrites, Renew, ServiceSteps, FrontStarts,
     ReadCert, Load, Reload, ConsoleStarts, PostgresEnds, StopSteps,
     FrontEnds, ConsoleEnds, vars, services, stopping

(* A listener serves only pairs that load, and nothing once a stop began.  *)
LEMMA ServesAPairStep == IInv /\ [Next]_vars => ServesAPair'
<1> SUFFICES ASSUME IInv, [Next]_vars PROVE ServesAPair'
  OBVIOUS
<1> USE DEF IInv, ServesAPair, Running
<1>1. CASE UNCHANGED <<tls, services, stop>>
  BY <1>1 DEF services
<1>2. CASE Start
  BY <1>2 DEF Start
<1>3. CASE EndServices
  BY <1>3 DEF EndServices
<1>4. CASE FrontStarts
  BY <1>4 DEF FrontStarts, UsesCert, stopping, config
<1>5. CASE ReadCert \/ ConsoleStarts
  BY <1>5 DEF ReadCert, ConsoleStarts, stopping, config
<1>6. CASE Load
  BY <1>6 DEF Load, stopping, config
<1>7. CASE Reload
  BY <1>7 DEF Reload, stopping, config
<1>8. CASE FrontEnds \/ ConsoleEnds
  BY <1>8 DEF FrontEnds, ConsoleEnds, stopping, config
<1>9. CASE ScriptBegins \/ HubWaitEnds \/ InterruptPostgres \/ PostgresWaitEnds
  BY <1>9 DEF ScriptBegins, HubWaitEnds, InterruptPostgres, PostgresWaitEnds,
     services, config
<1>10. CASE ContainerEnds
  BY <1>10 DEF ContainerEnds, config
<1>11. CASE Tick
  BY <1>11 DEF Tick, services, config
<1> QED
  BY <1>1, <1>2, <1>3, <1>4, <1>5, <1>6, <1>7, <1>8, <1>9, <1>10, <1>11, Zenon
     DEF Next, StartPostgres, ExecHub, HubWrites, Renew, ServiceSteps, StopAsked,
     MainEnds, PostgresEnds, StopSteps, vars, services, stopping, config

-----------------------------------------------------------------------------

(* Every step keeps the strengthened invariant.                            *)
LEMMA IInvStep == IInv /\ [Next]_vars => IInv'
BY ProcessesStep, FilesStep, ServicesStep, StopStep, OnTimeStep,
   HubHadItsTimeStep, ServesAPairStep DEF IInv

(* The strengthened invariant holds in every reachable state.              *)
THEOREM Invariance == Spec => []IInv
  BY InitIInv, IInvStep, PTL DEF Spec

(* Every variable keeps its type, the services are down before the script  *)
(* looks for the Hub, and a stop under the Supervisor's limit never        *)
(* outlasts it (stop-hub.sh:2-3, 32).                                      *)
THEOREM TypeCorrect == Spec => []TypeOK
<1>1. IInv => TypeOK
  BY Parts DEF IInv
<1> QED
  BY <1>1, Invariance, PTL

(* When the Supervisor's time is up, Postgres has been told to stop and    *)
(* the script is through as far as the services left it the time           *)
(* (stop-hub.sh:32-46).                                                    *)
THEOREM StopInTime == Spec => []StopFitsGrace
<1>1. IInv => StopFitsGrace
  BY TimesAssumption DEF IInv, StopFitsGrace, StopOK, OnTime
<1> QED
  BY <1>1, Invariance, PTL

(* A Hub that ran when the script looked for it has ended, or has had its  *)
(* time, when Postgres is told to stop (stop-hub.sh:7, 30-43).             *)
THEOREM HubFirst == Spec => HubStopsFirst
<1>1. ASSUME IInv, [Next]_vars, pg = "up", pg' = "stopping", scanned = "hub"
      PROVE  main = "gone" \/ elapsed >= begunAt + HubWait
  <2>1. stop = "postgres"
    BY <1>1 DEF Next, Start, StartPostgres, ExecHub, HubWrites, Renew, ServiceSteps,
       FrontStarts, ReadCert, Load, Reload, ConsoleStarts, StopAsked, MainEnds,
       PostgresEnds, StopSteps, FrontEnds, ConsoleEnds, ScriptBegins, HubWaitEnds,
       InterruptPostgres, PostgresWaitEnds, ContainerEnds, Tick, vars, database
  <2> QED
    BY <1>1, <2>1 DEF IInv, HubHadItsTime
<1>2. IInv /\ [Next]_vars =>
        [(pg = "up" /\ pg' = "stopping" /\ scanned = "hub") =>
           main = "gone" \/ elapsed >= begunAt + HubWait]_vars
  BY <1>1
<1> QED
  BY <1>2, Invariance, PTL DEF Spec, HubStopsFirst

(* Whenever the Hub renews its certificate, and whatever the listener      *)
(* reads of it, the listener stays up, with a pair that belongs together   *)
(* (console-front.mjs:209-221).                                            *)
THEOREM KeepsServing == Spec => RenewalKeepsServing
<1>1. ASSUME IInv, [Next]_vars, front = "serving", stop' = "idle"
      PROVE  front' = "serving"
  <2>1. ~Start /\ ~ContainerEnds /\ ~EndServices
    BY <1>1 DEF Start, ContainerEnds, EndServices, IInv, ServesAPair
  <2>2. FrontEnds \/ ConsoleEnds => front' = front
    BY <1>1 DEF FrontEnds, ConsoleEnds
  <2> QED
    BY <1>1, <2>1, <2>2, Zenon
       DEF Next, StartPostgres, ExecHub, HubWrites, Renew, ServiceSteps, FrontStarts,
       ReadCert, Load, Reload, ConsoleStarts, StopAsked, MainEnds, PostgresEnds,
       StopSteps, ScriptBegins, HubWaitEnds, InterruptPostgres, PostgresWaitEnds,
       Tick, vars, services
<1>2. ASSUME IInv, [Next]_vars, front = "serving", stop' = "idle", tls = "auto"
      PROVE  Loads(served'[1], served'[2])
  <2>1. ~Start
    BY <1>2 DEF Start, IInv, ServesAPair
  <2>2. tls' = tls
    BY <1>2, <2>1, Zenon
       DEF Next, StartPostgres, ExecHub, HubWrites, Renew, ServiceSteps,
       FrontStarts, ReadCert, Load, Reload, ConsoleStarts, StopAsked, MainEnds,
       PostgresEnds, StopSteps, FrontEnds, ConsoleEnds, ScriptBegins, HubWaitEnds,
       InterruptPostgres, PostgresWaitEnds, ContainerEnds, Tick, vars, config
  <2>3. ServesAPair' /\ front' = "serving"
    BY <1>1, <1>2, ServesAPairStep
  <2> QED
    BY <1>2, <2>2, <2>3 DEF ServesAPair, Loads
<1>3. IInv /\ [Next]_vars =>
        [(front = "serving" /\ stop' = "idle") =>
           front' = "serving" /\ (tls = "auto" => Loads(served'[1], served'[2]))]_vars
  BY <1>1, <1>2
<1> QED
  BY <1>3, Invariance, PTL DEF Spec, RenewalKeepsServing

=============================================================================
