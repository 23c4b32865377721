-------------------------- MODULE LifecycleProofs ---------------------------
(***************************************************************************)
(* Theorems about Lifecycle, for every set of instances, pids and clients. *)
(***************************************************************************)
EXTENDS Lifecycle, TLAPS

USE HostsAssumption, TargetsAssumption, CommandsAssumption, UnsetAssumption

\* Reaping and orphaning only ever turn zombies into processes that are gone.
LEMMA ReapType ==
  ASSUME NEW h, st \in [Pids -> ProcessStates]
  PROVE  /\ Reap(h) \in [Pids -> ProcessStates]
         /\ \A p \in Pids : Reap(h)[p] # st[p] => st[p] = "zombie" /\ Reap(h)[p] = "gone"
BY DEF Reap, Reapable, ProcessStates

-----------------------------------------------------------------------------
(* Type correctness.                                                       *)

\* Lifecycle keeps its types, and every os.kill and every write of a pid has
\* a pid in hand.
THEOREM TypeCorrect == Spec => []TypeOK
<1>1. Init => TypeOK
  BY DEF Init, TypeOK, Labels, Results, ProcessStates, Pid1, AllCommands
<1>2. TypeOK /\ [Next]_vars => TypeOK'
  <2> SUFFICES ASSUME TypeOK, [Next]_vars PROVE TypeOK'
    OBVIOUS
  <2> USE DEF TypeOK, Labels, Results, Goto, Report, procVars, clientVars
  <2>1. ASSUME NEW c \in Clients, Begin(c) PROVE TypeOK'
    BY <2>1 DEF Begin, EntryPoint, AllCommands
  <2>2. ASSUME NEW c \in Clients, ClientStep(c) PROVE TypeOK'
    <3>1. CASE StartCheck(c)
      BY <3>1, ReapType DEF StartCheck, StartOutcome
    <3>2. CASE StartProbe(c)
      BY <3>2 DEF StartProbe
    <3>3. CASE Spawn(c)
      BY <3>3, ReapType DEF Spawn, AvailablePids, ProcessStates
    <3>4. CASE SpawnFails(c)
      BY <3>4, ReapType DEF SpawnFails
    <3>5. CASE Record(c)
      BY <3>5 DEF Record, StartOutcome
    <3>6. CASE AwaitUp(c)
      BY <3>6 DEF AwaitUp, StartOutcome
    <3>7. CASE AwaitTimesOut(c)
      BY <3>7 DEF AwaitTimesOut
    <3>8. CASE StopLookup(c)
      BY <3>8 DEF StopLookup, StopOutcome, Exists
    <3>9. CASE Signal(c)
      BY <3>9 DEF Signal, Exists, Killed, Terminated, ExitState, ProcessStates
    <3>10. CASE DrainEnds(c)
      BY <3>10 DEF DrainEnds
    <3>11. CASE DrainTimesOut(c)
      BY <3>11 DEF DrainTimesOut, StopOutcome
    <3>12. CASE ClearPid(c)
      BY <3>12 DEF ClearPid, StopOutcome
    <3>13. CASE InstallCheck(c)
      BY <3>13, ReapType DEF InstallCheck
    <3>14. CASE InstallPin(c)
      BY <3>14, ReapType DEF InstallPin
    <3>15. CASE AdoptProbe(c)
      BY <3>15 DEF AdoptProbe
    <3>16. CASE HealthLookup(c) \/ HealthScan(c) \/ HealthHttp(c)
      BY <3>16 DEF HealthLookup, HealthScan, HealthHttp
    <3>17. CASE Return(c)
      BY <3>17 DEF Return, Forget, Orphan, ProcessStates, Pid1
    <3>18. QED
      BY <2>2, <3>1, <3>2, <3>3, <3>4, <3>5, <3>6, <3>7, <3>8, <3>9, <3>10,
         <3>11, <3>12, <3>13, <3>14, <3>15, <3>16, <3>17 DEF ClientStep
  <2>3. ASSUME NEW p \in Pids, Bind(p) \/ Exit(p) \/ ExitOnSignal(p)
        PROVE  TypeOK'
    BY <2>3 DEF Bind, Exit, ExitOnSignal, ExitState, ProcessStates
  <2>4. ASSUME NEW p \in Pids, NEW i \in Instances, ManualLaunch(p, i)
        PROVE  TypeOK'
    BY <2>4 DEF ManualLaunch, ProcessStates, Pid1
  <2>5. ASSUME NEW h \in Hosts, HostDies(h) PROVE TypeOK'
    BY <2>5 DEF HostDies, Forget, Orphan, ProcessStates, Pid1
  <2>6. CASE UNCHANGED vars
    BY <2>6 DEF vars
  <2>7. QED
    BY <2>1, <2>2, <2>3, <2>4, <2>5, <2>6 DEF Next
<1>3. QED
  BY <1>1, <1>2, PTL DEF Spec

-----------------------------------------------------------------------------
(* Pids and the instances they belong to.  Any clients, any interleaving,  *)
(* processes that crash, hosts that are killed, manual launches; only the  *)
(* reuse of pids is excluded.                                              *)

NoReuse == "reuse" \notin Faults

\* Every pid on record or in a client's hands is one that was launched for
\* the instance it is used for; what stop --wait confirmed stays true.
OwnInv ==
  /\ \A p \in Pids : st[p] # "unborn" => inst[p] \in Instances
  /\ \A i \in Instances : pidFile[i] # Unset =>
       inst[pidFile[i]] = i /\ st[pidFile[i]] # "unborn"
  /\ \A c \in Clients :
       /\ pc[c] = "record" => inst[made[c]] = tgt[c] /\ st[made[c]] # "unborn"
       /\ pc[c] \in {"signal", "drain", "clear"} =>
            inst[victim[c]] = tgt[c] /\ st[victim[c]] # "unborn"
       /\ pc[c] = "clear" /\ cmd[c] = "stopWait" => st[victim[c]] = "gone"
       /\ result[c] = "stopped" /\ cmd[c] = "stopWait" =>
            pc[c] = "done" /\ victim[c] \in Pids /\ st[victim[c]] = "gone"
       /\ pc[c] # "done" => result[c] = "none"
       /\ pc[c] \in {"health", "hScan", "hHttp"} => cmd[c] = "health"

\* What a step may do to a pid that has been handed out: it keeps its
\* instance, does not come back to life, and is not handed out again.  One
\* that is handed out gets an instance.
Age(p) ==
  /\ st[p] # "unborn" => /\ inst'[p] = inst[p]
                         /\ st'[p] # "unborn"
                         /\ st[p] = "gone" => st'[p] = "gone"
                         /\ st[p] \notin {"booting", "serving"} =>
                              st'[p] \notin {"booting", "serving"}
  /\ st[p] = "unborn" => st'[p] = "unborn" \/ inst'[p] \in Instances

LEMMA PidsAge ==
  ASSUME TypeOK, NoReuse, [Next]_vars
  PROVE  \A p \in Pids : Age(p)
<1> SUFFICES ASSUME NEW p \in Pids PROVE Age(p)
  OBVIOUS
<1> USE DEF TypeOK, NoReuse, procVars, Live, Age
<1>1. ASSUME NEW c \in Clients, Begin(c) \/ ClientStep(c) PROVE Age(p)
  <2>1. CASE Spawn(c) \/ SpawnFails(c) \/ StartCheck(c) \/ InstallCheck(c) \/ InstallPin(c)
    BY <2>1, ReapType DEF Spawn, SpawnFails, StartCheck, InstallCheck, InstallPin,
       AvailablePids
  <2>2. CASE Signal(c)
    BY <2>2 DEF Signal, Exists, Killed, Terminated, ExitState
  <2>3. CASE Return(c)
    BY <2>3 DEF Return, Orphan
  <2>4. CASE UNCHANGED procVars
    BY <2>4
  <2>5. QED
    BY <1>1, <2>1, <2>2, <2>3, <2>4 DEF Begin, ClientStep, StartProbe, Record, AwaitUp,
       AwaitTimesOut, StopLookup, DrainEnds, DrainTimesOut, ClearPid, AdoptProbe,
       HealthLookup, HealthScan, HealthHttp
<1>2. ASSUME NEW q \in Pids, Bind(q) \/ Exit(q) \/ ExitOnSignal(q) PROVE Age(p)
  BY <1>2 DEF Bind, Exit, ExitOnSignal, ExitState
<1>3. ASSUME NEW q \in Pids, NEW i \in Instances, ManualLaunch(q, i) PROVE Age(p)
  BY <1>3 DEF ManualLaunch, AvailablePids
<1>4. ASSUME NEW h \in Hosts, HostDies(h) PROVE Age(p)
  BY <1>4 DEF HostDies, Orphan
<1>5. CASE UNCHANGED vars
  BY <1>5 DEF vars
<1>6. QED
  BY <1>1, <1>2, <1>3, <1>4, <1>5 DEF Next

LEMMA OwnInductive ==
  ASSUME TypeOK, NoReuse, OwnInv, [Next]_vars
  PROVE  OwnInv'
<1>0. \A p \in Pids : Age(p)
  BY PidsAge
<1> USE <1>0 DEF Age, TypeOK, OwnInv, procVars, clientVars, Goto, Report
<1>1. CASE UNCHANGED vars
  BY <1>1 DEF vars
<1>2. ASSUME NEW c \in Clients, Begin(c) \/ ClientStep(c)
      PROVE  OwnInv'
  <2>1. CASE Begin(c)
    BY <2>1 DEF Begin, EntryPoint, AllCommands
  <2>2. CASE StartCheck(c)
    BY <2>2 DEF StartCheck, StartOutcome
  <2>3. CASE StartProbe(c)
    BY <2>3 DEF StartProbe
  <2>4. CASE Spawn(c)
    <3> PICK p \in AvailablePids :
          /\ st' = [Reap(HostOf[c]) EXCEPT ![p] = "booting"]
          /\ inst' = [inst EXCEPT ![p] = tgt[c]]
          /\ made' = [made EXCEPT ![c] = p]
      BY <2>4 DEF Spawn
    <3>1. p \in Pids /\ st[p] = "unborn"
      BY DEF AvailablePids, NoReuse
    <3>2. inst'[p] = tgt[c] /\ st'[p] = "booting"
      BY <3>1, ReapType
    <3>3. QED
      BY <2>4, <3>1, <3>2 DEF Spawn
  <2>5. CASE SpawnFails(c)
    BY <2>5 DEF SpawnFails
  <2>6. CASE Record(c)
    BY <2>6 DEF Record, StartOutcome
  <2>7. CASE AwaitUp(c) \/ AwaitTimesOut(c)
    BY <2>7 DEF AwaitUp, AwaitTimesOut, StartOutcome
  <2>8. CASE StopLookup(c)
    BY <2>8 DEF StopLookup, StopOutcome, Exists, IsRestart
  <2>9. CASE Signal(c)
    BY <2>9 DEF Signal, WaitsForExit
  <2>10. CASE DrainEnds(c)
    BY <2>10 DEF DrainEnds, Exists
  <2>11. CASE DrainTimesOut(c)
    BY <2>11 DEF DrainTimesOut, StopOutcome, IsRestart
  <2>12. CASE ClearPid(c)
    BY <2>12 DEF ClearPid, StopOutcome, IsRestart
  <2>13. CASE InstallCheck(c) \/ InstallPin(c)
    BY <2>13 DEF InstallCheck, InstallPin
  <2>14. CASE AdoptProbe(c)
    BY <2>14 DEF AdoptProbe, Bound
  <2>15. CASE HealthLookup(c) \/ HealthScan(c) \/ HealthHttp(c)
    BY <2>15 DEF HealthLookup, HealthScan, HealthHttp
  <2>16. CASE Return(c)
    BY <2>16 DEF Return, Forget
  <2>17. QED
    BY <1>2, <2>1, <2>2, <2>3, <2>4, <2>5, <2>6, <2>7, <2>8, <2>9, <2>10, <2>11,
       <2>12, <2>13, <2>14, <2>15, <2>16 DEF ClientStep
<1>3. ASSUME NEW p \in Pids,
             Bind(p) \/ Exit(p) \/ ExitOnSignal(p) \/ \E i \in Instances : ManualLaunch(p, i)
      PROVE  OwnInv'
  BY <1>3 DEF Bind, Exit, ExitOnSignal, ManualLaunch
<1>4. ASSUME NEW h \in Hosts, HostDies(h) PROVE OwnInv'
  BY <1>4 DEF HostDies, Forget
<1>5. QED
  BY <1>1, <1>2, <1>3, <1>4 DEF Next

LEMMA OwnAlways == NoReuse => (Spec => []OwnInv)
<1> SUFFICES ASSUME NoReuse PROVE Spec => []OwnInv
  OBVIOUS
<1>1. Init => OwnInv
  BY DEF Init, OwnInv
<1>2. TypeOK /\ OwnInv /\ [Next]_vars => OwnInv'
  BY OwnInductive
<1>3. QED
  BY TypeCorrect, <1>1, <1>2, PTL DEF Spec

\* owm only ever signals processes of the instance it was asked to stop,
\* however many clients interleave, while no pid is reused.
THEOREM SignalsAreOwn == NoReuse => (Spec => []OwnVictim)
<1> SUFFICES ASSUME NoReuse PROVE Spec => []OwnVictim
  OBVIOUS
<1>1. TypeOK /\ OwnInv => OwnVictim
  BY DEF TypeOK, OwnInv, OwnVictim, Exists
<1>2. QED
  BY TypeCorrect, OwnAlways, <1>1, PTL

\* "stopped" is true: what a stop --wait saw exit does not come back, while
\* no pid is reused.
THEOREM StopsAreTrue == NoReuse => (Spec => []StoppedMeansGone)
<1> SUFFICES ASSUME NoReuse PROVE Spec => []StoppedMeansGone
  OBVIOUS
<1>1. TypeOK /\ OwnInv => StoppedMeansGone
  BY DEF TypeOK, OwnInv, StoppedMeansGone, Exists
<1>2. QED
  BY TypeCorrect, OwnAlways, <1>1, PTL

-----------------------------------------------------------------------------
(* Restarts by the library's restart_instance, which looks at the result   *)
(* of its stop.                                                            *)

ServersRestart == "restart" \in Commands => \A c \in Clients : LongLivedClient(c)

\* What a restart stopped, if there was anything, is gone.
Replaced(c) == victim[c] = Unset \/ (victim[c] \in Pids /\ st[victim[c]] = "gone")

RestartInv ==
  \A c \in Clients :
    /\ cmd[c] \in Commands \cup {"none"}
    /\ pc[c] = "idle" => victim[c] = Unset
    /\ IsRestart(c) /\ pc[c] = "lookup" => victim[c] = Unset
    /\ IsRestart(c) /\ pc[c] \in {"clear", "check", "probe", "spawn", "record",
                                  "await"} => Replaced(c)
    /\ IsRestart(c) => pc[c] \notin {"adopt", "health", "hScan", "hHttp",
                                     "install", "pin"}
    /\ cmd[c] = "restartWait" => LongLivedClient(c)
    /\ result[c] = "restarted" => Replaced(c) /\ pc[c] = "done"

LEMMA RestartInductive ==
  ASSUME TypeOK, NoReuse, ServersRestart, OwnInv, RestartInv, [Next]_vars
  PROVE  RestartInv'
<1>0. \A p \in Pids : Age(p)
  BY PidsAge
<1>1. \A c \in Clients : UNCHANGED victim[c] /\ Replaced(c) => Replaced(c)'
  BY <1>0 DEF Replaced, Age
<1> USE DEF TypeOK, RestartInv, IsRestart, clientVars
<1>2. CASE UNCHANGED <<pc, cmd, victim, result>>
  BY <1>1, <1>2
<1>3. ASSUME NEW c \in Clients, Begin(c) PROVE RestartInv'
  BY <1>1, <1>3 DEF Begin, EntryPoint, AllCommands, OwnInv
<1>4. ASSUME NEW c \in Clients, UNCHANGED <<cmd, victim>>,
             \A d \in Clients \ {c} : pc'[d] = pc[d] /\ result'[d] = result[d],
             pc[c] # "idle", pc'[c] # "idle", pc'[c] # "lookup" \/ ~IsRestart(c),
             IsRestart(c) /\ pc'[c] # "done" => pc'[c] \in {"signal", "drain",
                "clear", "check", "probe", "spawn", "record", "await"},
             IsRestart(c) /\ pc'[c] \in {"clear", "check", "probe", "spawn",
                "record", "await"} => Replaced(c),
             result'[c] = "restarted" => Replaced(c) /\ pc'[c] = "done"
      PROVE  RestartInv'
  BY <1>1, <1>4
<1>5. ASSUME NEW c \in Clients, StartCheck(c) \/ StartProbe(c) \/ Spawn(c)
             \/ SpawnFails(c) \/ Record(c) \/ AwaitUp(c) \/ AwaitTimesOut(c)
      PROVE  RestartInv'
  <2>1. CASE StartCheck(c)
    BY <1>4, <2>1 DEF StartCheck, StartOutcome, Goto, Report
  <2>2. CASE StartProbe(c) \/ Spawn(c) \/ SpawnFails(c)
    BY <1>4, <2>2 DEF StartProbe, Spawn, SpawnFails, Goto, Report
  <2>3. CASE Record(c)
    BY <1>4, <2>3 DEF Record, StartOutcome, Goto, Report
  <2>4. CASE AwaitUp(c) \/ AwaitTimesOut(c)
    BY <1>4, <2>4 DEF AwaitUp, AwaitTimesOut, StartOutcome, Goto, Report
  <2>5. QED
    BY <1>5, <2>1, <2>2, <2>3, <2>4
<1>6. ASSUME NEW c \in Clients, StopLookup(c) PROVE RestartInv'
  <2>1. CASE Exists(pidFile[tgt[c]])
    <3>1. /\ UNCHANGED cmd /\ pc' = [pc EXCEPT ![c] = "signal"] /\ result' = result
          /\ \A d \in Clients \ {c} : victim'[d] = victim[d]
      BY <1>6, <2>1 DEF StopLookup, Goto
    <3>2. pc[c] # "done"
      BY <1>6 DEF StopLookup
    <3>3. QED
      BY <1>1, <3>1, <3>2
  <2>2. CASE ~Exists(pidFile[tgt[c]])
    <3>1. UNCHANGED <<cmd, victim>> /\ StopOutcome(c, "not_running") /\ pc[c] = "lookup"
      BY <1>6, <2>2 DEF StopLookup
    <3>2. IsRestart(c) => Replaced(c)
      BY <3>1 DEF Replaced
    <3>3. QED
      BY <1>4, <3>1, <3>2 DEF StopOutcome, Goto, Report
  <2>3. QED
    BY <2>1, <2>2
<1>7. ASSUME NEW c \in Clients, Signal(c) \/ DrainEnds(c) \/ DrainTimesOut(c)
             \/ ClearPid(c)
      PROVE  RestartInv'
  <2>1. CASE Signal(c)
    BY <1>4, <2>1 DEF Signal, WaitsForExit, Goto, Report
  <2>2. CASE DrainEnds(c)
    <3>1. Replaced(c)
      BY <2>2 DEF DrainEnds, OwnInv, Exists, Replaced
    <3>2. QED
      BY <1>4, <2>2, <3>1 DEF DrainEnds, Goto
  <2>3. CASE DrainTimesOut(c)
    <3>1. IsRestart(c) => LongLivedClient(c)
      BY DEF ServersRestart
    <3>2. QED
      BY <1>4, <2>3, <3>1 DEF DrainTimesOut, StopOutcome, Goto, Report
  <2>4. CASE ClearPid(c)
    BY <1>4, <2>4 DEF ClearPid, StopOutcome, Goto, Report
  <2>5. QED
    BY <1>7, <2>1, <2>2, <2>3, <2>4
<1>8. ASSUME NEW c \in Clients, InstallCheck(c) \/ InstallPin(c) \/ AdoptProbe(c)
             \/ HealthLookup(c) \/ HealthScan(c) \/ HealthHttp(c)
      PROVE  RestartInv'
  <2>1. ~IsRestart(c)
    BY <1>8 DEF InstallCheck, InstallPin, AdoptProbe, HealthLookup, HealthScan,
       HealthHttp
  <2>2. UNCHANGED <<cmd, victim>>
    BY <1>8 DEF InstallCheck, InstallPin, AdoptProbe, HealthLookup, HealthScan,
       HealthHttp
  <2>3. /\ \A d \in Clients \ {c} : pc'[d] = pc[d] /\ result'[d] = result[d]
        /\ pc[c] \notin {"idle", "done"} /\ pc'[c] # "idle"
        /\ result'[c] # "restarted"
    BY <1>8 DEF InstallCheck, InstallPin, AdoptProbe, HealthLookup, HealthScan,
       HealthHttp, Goto, Report, OwnInv
  <2>4. QED
    BY <1>4, <2>1, <2>2, <2>3
<1>9. ASSUME NEW cs \in SUBSET Clients, Forget(cs) PROVE RestartInv'
  BY <1>1, <1>9 DEF Forget
<1>10. ASSUME NEW c \in Clients, Return(c) PROVE RestartInv'
  BY <1>9, <1>10 DEF Return
<1>11. ASSUME NEW h \in Hosts, HostDies(h) PROVE RestartInv'
  BY <1>9, <1>11 DEF HostDies
<1>12. ASSUME NEW p \in Pids, Bind(p) \/ Exit(p) \/ ExitOnSignal(p)
              \/ \E i \in Instances : ManualLaunch(p, i)
       PROVE  RestartInv'
  BY <1>2, <1>12 DEF Bind, Exit, ExitOnSignal, ManualLaunch
<1>13. CASE UNCHANGED vars
  BY <1>2, <1>13 DEF vars
<1>14. QED
  BY <1>3, <1>5, <1>6, <1>7, <1>8, <1>10, <1>11, <1>12, <1>13
     DEF Next, ClientStep

\* Without pid reuse a restart by a server that says "restarted" has replaced
\* the process it stopped, however many clients interleave with it.
THEOREM RestartCorrect == NoReuse /\ ServersRestart => (Spec => []RestartReplaces)
<1> SUFFICES ASSUME NoReuse, ServersRestart PROVE Spec => []RestartReplaces
  OBVIOUS
<1>1. Init => OwnInv /\ RestartInv
  BY DEF Init, OwnInv, RestartInv, IsRestart
<1>2. TypeOK /\ OwnInv /\ RestartInv /\ [Next]_vars => (OwnInv /\ RestartInv)'
  BY OwnInductive, RestartInductive
<1>3. RestartInv => RestartReplaces
  BY UnsetAssumption DEF RestartInv, RestartReplaces, Replaced, Exists
<1>4. QED
  BY TypeCorrect, <1>1, <1>2, <1>3, PTL DEF Spec

-----------------------------------------------------------------------------
(* One client per instance: what the clients' commands keep of it.         *)

Undisturbed == /\ Exclusive /\ NoReuse
               /\ "hostKilled" \notin Faults /\ "manual" \notin Faults

\* What holds at each step of a command that works on its instance alone.
StepInv(c) ==
  /\ cmd[c] = "adopt" => pc[c] \in {"adopt", "record", "done"}
  /\ pc[c] = "adopt" => cmd[c] = "adopt"
  /\ pc[c] \in {"install", "pin"} => cmd[c] = "install"
  /\ pc[c] \in {"probe", "spawn", "hScan"} => ~Exists(pidFile[tgt[c]])
  /\ pc[c] = "check" /\ cmd[c] = "install" => ~Exists(pidFile[tgt[c]])
  /\ pc[c] = "spawn" => ~PortsTaken(tgt[c])
  /\ pc[c] = "record" /\ cmd[c] # "adopt" =>
       /\ ~Exists(pidFile[tgt[c]])
       /\ \A p \in Pids : Bound(p) /\ inst[p] = tgt[c] => p = made[c]
  /\ pc[c] = "record" /\ cmd[c] = "adopt" =>
       \A p \in Pids : Live(p) /\ inst[p] = tgt[c] => p = made[c]
  /\ pc[c] = "await" => pidFile[tgt[c]] = made[c]
  /\ pc[c] \in {"signal", "drain", "clear"} => pidFile[tgt[c]] = victim[c]
  /\ pc[c] \in {"drain", "clear"} => ~Live(victim[c])
  /\ cmd[c] = "install" /\ pc[c] \in {"lookup", "signal", "drain", "clear", "pin"} =>
       made[c] # Unset
  /\ result[c] = "installed" => pc[c] = "done" /\ made[c] # Unset

\* A running Odoo and one that still holds the same ports are the same.
BoundUnique ==
  \A p, q \in Pids : Bound(p) /\ Live(q) /\ inst[p] = inst[q] => p = q

WorkInv == /\ \A c \in Clients : StepInv(c)
           /\ BoundUnique
           /\ Tracked
           /\ AwaitsOwn

ExclusiveInv == TypeOK /\ OwnInv /\ WorkInv

\* Two commands in progress on one instance are the same command.
LEMMA Alone ==
  ASSUME Exclusive, TypeOK, NEW c \in Clients, NEW d \in Clients,
         pc[c] # "idle", pc[d] # "idle", tgt[c] = tgt[d]
  PROVE  c = d
BY DEF Exclusive, TypeOK

\* Nobody else is between launching p and putting it on record.
LEMMA LiveIsOnRecord ==
  ASSUME Exclusive, TypeOK, Tracked, NEW c \in Clients, pc[c] # "idle",
         pc[c] # "record" \/ cmd[c] = "adopt",
         NEW p \in Pids, Live(p), inst[p] = tgt[c]
  PROVE  pidFile[tgt[c]] = p
<1>1. ASSUME NEW d \in Clients, pc[d] = "record", cmd[d] # "adopt", tgt[d] = inst[p]
      PROVE  FALSE
  BY <1>1, Alone
<1>2. QED
  BY <1>1 DEF Tracked

\* Two running processes of one instance would both be on record, or one of
\* them about to be recorded by the only client there, who found none.
LEMMA LiveUnique ==
  ASSUME Exclusive, TypeOK, Tracked, \A c \in Clients : StepInv(c)
  PROVE  OneLive
<1> SUFFICES ASSUME NEW p \in Pids, NEW q \in Pids, Live(p), Live(q), inst[p] = inst[q]
             PROVE  p = q
  BY DEF OneLive
<1>1. ASSUME NEW x \in Pids, NEW y \in Pids, Live(x), Live(y), inst[x] = inst[y],
             NEW c \in Clients, pc[c] = "record", cmd[c] # "adopt", made[c] = x,
             tgt[c] = inst[x]
      PROVE  x = y
  <2>1. pidFile[inst[y]] # y
    BY <1>1 DEF StepInv, Exists, Live
  <2>2. PICK d \in Clients : pc[d] = "record" /\ made[d] = y /\ tgt[d] = inst[y]
    BY <1>1, <2>1 DEF Tracked
  <2>3. d = c
    BY <1>1, <2>2, Alone
  <2>4. QED
    BY <1>1, <2>2, <2>3
<1>2. QED
  BY <1>1 DEF Tracked

\* A client's step leaves the other clients and instances alone, binds no
\* port, and brings no process to life but the one it launches.
ClientFrame(c) ==
  /\ \A d \in Clients : d # c =>
       /\ pc'[d] = pc[d] /\ cmd'[d] = cmd[d] /\ tgt'[d] = tgt[d]
       /\ made'[d] = made[d] /\ victim'[d] = victim[d] /\ result'[d] = result[d]
  /\ pc[c] # "idle" => \A i \in Instances : i # tgt[c] => pidFile'[i] = pidFile[i]
  /\ pc[c] = "idle" => pidFile' = pidFile
  /\ \A p \in Pids :
       st'[p] \in {"serving", "draining"} => st[p] \in {"serving", "draining"}
  /\ \A p \in Pids : st'[p] \in {"booting", "serving"} =>
       \/ st[p] \in {"booting", "serving"}
       \/ /\ Spawn(c)
          /\ st[p] = "unborn" /\ made'[c] = p /\ inst'[p] = tgt[c]

LEMMA ClientSteps ==
  ASSUME TypeOK, NoReuse, NEW c \in Clients, Begin(c) \/ ClientStep(c)
  PROVE  ClientFrame(c)
<1> USE DEF TypeOK, NoReuse, procVars, Goto, Report, ClientFrame
<1>1. CASE Begin(c)
  BY <1>1 DEF Begin
<1>2. CASE StartCheck(c) \/ SpawnFails(c) \/ InstallCheck(c) \/ InstallPin(c)
  BY <1>2, ReapType DEF StartCheck, StartOutcome, SpawnFails, InstallCheck, InstallPin
<1>3. CASE Spawn(c)
  <2> PICK p \in AvailablePids :
        /\ st' = [Reap(HostOf[c]) EXCEPT ![p] = "booting"]
        /\ inst' = [inst EXCEPT ![p] = tgt[c]]
        /\ made' = [made EXCEPT ![c] = p]
    BY <1>3 DEF Spawn
  <2>1. p \in Pids /\ st[p] = "unborn"
    BY DEF AvailablePids
  <2>2. made'[c] = p /\ inst'[p] = tgt[c]
    BY <2>1
  <2>3. \A q \in Pids : q # p => st'[q] = Reap(HostOf[c])[q]
    BY <2>1, ReapType
  <2>4. st'[p] = "booting"
    BY <2>1, ReapType
  <2>5. Goto(c, "record") /\ UNCHANGED <<pidFile, cmd, tgt, victim>>
    BY <1>3 DEF Spawn
  <2>6. QED
    BY <1>3, <2>1, <2>2, <2>3, <2>4, <2>5, ReapType
<1>4. CASE StartProbe(c) \/ AwaitUp(c) \/ AwaitTimesOut(c)
  BY <1>4 DEF StartProbe, AwaitUp, AwaitTimesOut, StartOutcome
<1>5. CASE Record(c)
  BY <1>5 DEF Record, StartOutcome
<1>6. CASE StopLookup(c)
  BY <1>6 DEF StopLookup, StopOutcome
<1>7. CASE Signal(c)
  BY <1>7 DEF Signal, Exists, Killed, Terminated, ExitState
<1>8. CASE DrainEnds(c) \/ DrainTimesOut(c)
  BY <1>8 DEF DrainEnds, DrainTimesOut, StopOutcome
<1>9. CASE ClearPid(c)
  BY <1>9 DEF ClearPid, StopOutcome
<1>10. CASE AdoptProbe(c)
  BY <1>10 DEF AdoptProbe
<1>11. CASE HealthLookup(c) \/ HealthScan(c) \/ HealthHttp(c)
  BY <1>11 DEF HealthLookup, HealthScan, HealthHttp
<1>12. CASE Return(c)
  BY <1>12 DEF Return, Forget, Orphan
<1>13. QED
  BY <1>1, <1>2, <1>3, <1>4, <1>5, <1>6, <1>7, <1>8, <1>9, <1>10, <1>11, <1>12
     DEF ClientStep

\* The step a client takes on its own behalf, given that it works alone.
LEMMA OwnStep ==
  ASSUME Undisturbed, ExclusiveInv, NEW c \in Clients, Begin(c) \/ ClientStep(c),
         \A p \in Pids : Age(p)
  PROVE  StepInv(c)'
<1> USE DEF ExclusiveInv, TypeOK, Undisturbed, NoReuse, procVars, Goto, Report
<1>0. StepInv(c) /\ (pc[c] # "done" => result[c] = "none")
  BY DEF WorkInv, OwnInv
<1>a. \A i \in Instances :
        ~Exists(pidFile[i]) => pidFile[i] \notin Pids \/ st'[pidFile[i]] = "gone"
  BY DEF OwnInv, Exists, Age
<1>b. ClientFrame(c)
  BY ClientSteps
<1>1. CASE Begin(c)
  BY <1>0, <1>1 DEF StepInv, Begin, EntryPoint, AllCommands
<1>2. CASE StartCheck(c)
  BY <1>0, <1>a, <1>2 DEF StepInv, StartCheck, StartOutcome, Exists, IsRestart
<1>3. CASE StartProbe(c)
  BY <1>0, <1>3 DEF StepInv, StartProbe, PortsTaken, Bound, Exists
<1>4. CASE Spawn(c)
  <2>1. /\ pc[c] = "spawn" /\ pc'[c] = "record"
        /\ UNCHANGED <<pidFile, cmd, tgt, victim, result>>
    BY <1>4 DEF Spawn
  <2>. ~Exists(pidFile[tgt[c]])'
    BY <1>0, <1>a, <2>1 DEF StepInv, Exists
  <2>2. \A p \in Pids : Bound(p)' => Bound(p) /\ inst'[p] = inst[p]
    BY <1>b DEF Bound, ClientFrame, Age, ProcessStates
  <2>3. \A p \in Pids : Bound(p)' => inst'[p] # tgt'[c]
    BY <2>1, <2>2, <1>0 DEF StepInv, PortsTaken
  <2>4. QED
    BY <2>1, <2>3, <1>0 DEF StepInv
<1>5. CASE SpawnFails(c)
  BY <1>0, <1>5 DEF StepInv, SpawnFails
<1>6. CASE Record(c)
  BY <1>0, <1>6 DEF StepInv, Record, StartOutcome, WaitsForHttp, IsRestart
<1>7. CASE AwaitUp(c) \/ AwaitTimesOut(c)
  BY <1>0, <1>7 DEF StepInv, AwaitUp, AwaitTimesOut, StartOutcome
<1>8. CASE StopLookup(c)
  BY <1>0, <1>8 DEF StepInv, StopLookup, StopOutcome
<1>9. CASE Signal(c)
  BY <1>0, <1>9 DEF StepInv, Signal, Live, Killed, Terminated, ExitState
<1>10. CASE DrainEnds(c) \/ DrainTimesOut(c)
  BY <1>0, <1>10 DEF StepInv, DrainEnds, DrainTimesOut, StopOutcome, IsRestart, Live, Exists
<1>11. CASE ClearPid(c)
  BY <1>0, <1>11 DEF StepInv, ClearPid, StopOutcome
<1>12. CASE InstallCheck(c) \/ InstallPin(c)
  BY <1>0, <1>a, <1>12 DEF StepInv, InstallCheck, InstallPin, Exists
<1>13. CASE AdoptProbe(c)
  BY <1>0, <1>13 DEF StepInv, AdoptProbe, WorkInv, BoundUnique, Bound, Live
<1>14. CASE HealthLookup(c) \/ HealthScan(c) \/ HealthHttp(c)
  BY <1>0, <1>14 DEF StepInv, HealthLookup, HealthScan, HealthHttp, Exists
<1>15. CASE Return(c)
  BY <1>0, <1>15 DEF StepInv, Return, Forget
<1>16. QED
  BY <1>1, <1>2, <1>3, <1>4, <1>5, <1>6, <1>7, <1>8, <1>9, <1>10, <1>11, <1>12,
     <1>13, <1>14, <1>15 DEF ClientStep

\* It disturbs nothing of a client at work on another instance.
LEMMA OthersStep ==
  ASSUME Undisturbed, ExclusiveInv, NEW c \in Clients, Begin(c) \/ ClientStep(c),
         \A p \in Pids : Age(p), NEW d \in Clients, d # c
  PROVE  StepInv(d)'
<1>1. ClientFrame(c)
  BY ClientSteps DEF ExclusiveInv, Undisturbed
<1>2. StepInv(d) /\ (pc[d] = "idle" => result[d] = "none")
  BY DEF ExclusiveInv, WorkInv, OwnInv
<1>3. /\ pc'[d] = pc[d] /\ cmd'[d] = cmd[d] /\ tgt'[d] = tgt[d]
      /\ made'[d] = made[d] /\ victim'[d] = victim[d] /\ result'[d] = result[d]
  BY <1>1 DEF ClientFrame
<1>4. CASE pc[d] = "idle"
  BY <1>2, <1>3, <1>4 DEF StepInv
<1>5. CASE pc[d] # "idle"
  <2>1. tgt[d] \in Instances /\ (pc[c] # "idle" => tgt[c] # tgt[d])
    BY <1>5, Alone DEF ExclusiveInv, TypeOK, Undisturbed
  <2>2. pidFile'[tgt[d]] = pidFile[tgt[d]]
    BY <1>1, <2>1 DEF ClientFrame
  <2>3. ~Exists(pidFile[tgt[d]]) => ~Exists(pidFile[tgt[d]])'
    BY <1>3, <2>1, <2>2 DEF ExclusiveInv, OwnInv, Exists, Age
  <2>4. \A p \in Pids : Bound(p)' => Bound(p) /\ inst'[p] = inst[p]
    BY <1>1 DEF Bound, ClientFrame, Age
  <2>5. \A p \in Pids : Live(p)' /\ inst'[p] = tgt[d] => Live(p) /\ inst'[p] = inst[p]
    <3>1. Spawn(c) => pc[c] # "idle"
      BY DEF Spawn
    <3>2. QED
      BY <1>1, <2>1, <3>1 DEF Live, ClientFrame, Age
  <2>6. pc[d] \in {"drain", "clear"} /\ ~Live(victim[d]) => ~Live(victim[d])'
    BY <1>3 DEF ExclusiveInv, OwnInv, Live, Age
  <2>7. ~PortsTaken(tgt[d]) => ~PortsTaken(tgt[d])'
    BY <1>3, <2>4 DEF PortsTaken
  <2>8. QED
    BY <1>2, <1>3, <2>2, <2>3, <2>4, <2>5, <2>6, <2>7 DEF StepInv
<1>6. QED
  BY <1>4, <1>5

LEMMA ClientInductive ==
  ASSUME Undisturbed, ExclusiveInv, NEW c \in Clients, Begin(c) \/ ClientStep(c),
         \A p \in Pids : Age(p)
  PROVE  WorkInv'
<1>1. ClientFrame(c)
  BY ClientSteps DEF ExclusiveInv, Undisturbed
<1>2. \A d \in Clients : StepInv(d)'
  BY OwnStep, OthersStep
<1>3. StepInv(c) /\ BoundUnique /\ Tracked /\ AwaitsOwn
  BY DEF ExclusiveInv, WorkInv
<1>4. \A p \in Pids : Bound(p)' => Bound(p) /\ inst'[p] = inst[p]
  BY <1>1 DEF Bound, ClientFrame, Age
<1>5. \A p \in Pids : Live(p)' =>
        \/ Live(p) /\ inst'[p] = inst[p]
        \/ Spawn(c) /\ made'[c] = p /\ inst'[p] = tgt[c]
  BY <1>1 DEF Live, ClientFrame, Age
<1>6. BoundUnique'
  <2> SUFFICES ASSUME NEW p \in Pids, NEW q \in Pids,
                      Bound(p)', Live(q)', inst'[p] = inst'[q]
               PROVE  p = q
    BY DEF BoundUnique
  <2>1. Bound(p) /\ inst'[p] = inst[p]
    BY <1>4
  <2>2. CASE Live(q) /\ inst'[q] = inst[q]
    BY <1>3, <2>1, <2>2 DEF BoundUnique
  <2>3. CASE Spawn(c) /\ inst'[q] = tgt[c]
    BY <1>3, <2>1, <2>3 DEF StepInv, Spawn, PortsTaken
  <2>4. QED
    BY <1>5, <2>2, <2>3
<1>7. Tracked'
  <2> SUFFICES ASSUME NEW p \in Pids, Live(p)'
               PROVE  \/ pidFile'[inst'[p]] = p
                      \/ \E d \in Clients : /\ pc'[d] = "record" /\ cmd'[d] # "adopt"
                                            /\ made'[d] = p /\ tgt'[d] = inst'[p]
    BY DEF Tracked
  <2>1. CASE Spawn(c) /\ made'[c] = p /\ inst'[p] = tgt[c]
    BY <1>3, <2>1 DEF StepInv, Spawn, Goto, ExclusiveInv, TypeOK
  <2>2. CASE Live(p) /\ inst'[p] = inst[p]
    <3>1. CASE pidFile[inst[p]] = p
      <4>1. inst[p] \in Instances
        BY <2>2 DEF ExclusiveInv, OwnInv, Live
      <4>2. CASE pc[c] = "idle" \/ tgt[c] # inst[p]
        BY <1>1, <2>2, <3>1, <4>1, <4>2 DEF ClientFrame
      <4>3. CASE Record(c) /\ tgt[c] = inst[p]
        BY <1>3, <2>2, <3>1, <4>1, <4>3
           DEF StepInv, Record, Exists, Live, ExclusiveInv, TypeOK
      <4>4. CASE ClearPid(c) /\ tgt[c] = inst[p]
        BY <1>3, <2>2, <3>1, <4>4 DEF StepInv, ClearPid
      <4>5. CASE UNCHANGED pidFile
        BY <2>2, <3>1, <4>5
      <4>6. pc[c] # "idle" =>
              \/ Record(c) \/ ClearPid(c)
              \/ AwaitTimesOut(c) /\ UNCHANGED pidFile
              \/ UNCHANGED pidFile
        BY DEF Begin, ClientStep, StartCheck, StartProbe, Spawn, SpawnFails, AwaitUp,
           AwaitTimesOut, StopLookup, Signal, DrainEnds, DrainTimesOut, InstallCheck,
           InstallPin, AdoptProbe, HealthLookup, HealthScan, HealthHttp, Return
      <4>7. QED
        BY <4>2, <4>3, <4>4, <4>5, <4>6
    <3>2. ASSUME NEW d \in Clients, pc[d] = "record", cmd[d] # "adopt",
                 made[d] = p, tgt[d] = inst[p]
          PROVE  \/ pidFile'[inst'[p]] = p
                 \/ pc'[d] = "record" /\ d # c
      <4>1. CASE d # c
        BY <1>1, <3>2, <4>1 DEF ClientFrame
      <4>2. CASE d = c
        <5>1. Record(c)
          BY <3>2, <4>2 DEF Begin, ClientStep, StartCheck, StartProbe, Spawn, SpawnFails,
             AwaitUp, AwaitTimesOut, StopLookup, Signal, DrainEnds, DrainTimesOut, ClearPid,
             InstallCheck, InstallPin, AdoptProbe, HealthLookup, HealthScan, HealthHttp, Return
        <5>2. tgt[c] \in Instances
          BY <3>2, <4>2 DEF ExclusiveInv, TypeOK
        <5>3. pidFile'[tgt[c]] = made[c]
          BY <5>1, <5>2 DEF Record, ExclusiveInv, TypeOK
        <5>4. inst'[p] = tgt[c]
          BY <2>2, <3>2, <4>2
        <5>5. made[c] = p
          BY <3>2, <4>2
        <5>6. QED
          BY <5>3, <5>4, <5>5
      <4>3. QED
        BY <4>1, <4>2
    <3>3. QED
      BY <1>1, <1>3, <2>2, <3>1, <3>2 DEF Tracked, ClientFrame
  <2>3. QED
    BY <1>5, <2>1, <2>2
<1>8. AwaitsOwn'
  <2> SUFFICES ASSUME NEW d \in Clients, NEW p \in Pids,
                      pc'[d] = "await", Bound(p)', inst'[p] = tgt'[d]
               PROVE  p = made'[d]
    BY DEF AwaitsOwn
  <2>1. Bound(p) /\ inst'[p] = inst[p]
    BY <1>4
  <2>2. CASE d # c
    <3>1. pc[d] = "await" /\ tgt'[d] = tgt[d] /\ made'[d] = made[d]
      BY <1>1, <2>2 DEF ClientFrame
    <3>2. QED
      BY <1>3, <2>1, <3>1 DEF AwaitsOwn
  <2>3. CASE d = c
    <3>1. Record(c)
      BY <2>3 DEF ExclusiveInv, TypeOK, Begin, EntryPoint, AllCommands, ClientStep,
         StartCheck, StartProbe, Spawn, SpawnFails,
         AwaitUp, AwaitTimesOut, StopLookup, Signal, DrainEnds, DrainTimesOut, ClearPid,
         InstallCheck, InstallPin, AdoptProbe, HealthLookup, HealthScan, HealthHttp, Return,
         Forget, Goto, Report, StartOutcome, StopOutcome
    <3>2. QED
      BY <1>3, <2>1, <2>3, <3>1 DEF StepInv, Record, StartOutcome, WaitsForHttp, IsRestart,
         ExclusiveInv, TypeOK, Goto, Report
  <2>4. QED
    BY <2>2, <2>3
<1>9. QED
  BY <1>2, <1>6, <1>7, <1>8 DEF WorkInv

\* Odoo's own steps, while no client is looking.
LEMMA ProcessInductive ==
  ASSUME Undisturbed, ExclusiveInv, NEW q \in Pids, Bind(q) \/ Exit(q) \/ ExitOnSignal(q),
         \A p \in Pids : Age(p)
  PROVE  WorkInv'
<1> USE DEF ExclusiveInv
<1>1. UNCHANGED <<pidFile, inst, parent, pc, cmd, tgt, made, victim, result>>
  BY DEF Bind, Exit, ExitOnSignal, clientVars
<1>2. \A p \in Pids : Live(p)' => Live(p)
  BY DEF Bind, Exit, ExitOnSignal, ExitState, Live, TypeOK
<1>3. \A p \in Pids : Bound(p)' =>
        \/ Bound(p)
        \/ p = q /\ Live(q) /\ ~PortsTaken(inst[q])
  <2>1. CASE Bind(q)
    <3>1. Live(q) /\ ~PortsTaken(inst[q])
      BY <2>1 DEF Bind, Live
    <3>2. \A p \in Pids : p # q => st'[p] = st[p]
      BY <2>1 DEF Bind, TypeOK
    <3>3. QED
      BY <3>1, <3>2 DEF Bound
  <2>2. CASE Exit(q) \/ ExitOnSignal(q)
    <3>1. /\ st'[q] \in {"zombie", "gone"}
          /\ \A p \in Pids : p # q => st'[p] = st[p]
      BY <2>2 DEF Exit, ExitOnSignal, ExitState, TypeOK
    <3>2. QED
      BY <3>1 DEF Bound
  <2>3. QED
    BY <2>1, <2>2
<1>4. (\A c \in Clients : StepInv(c)) /\ BoundUnique /\ Tracked /\ AwaitsOwn
  BY DEF WorkInv
<1>5. ASSUME NEW c \in Clients, pc[c] # "idle", Live(q), inst[q] = tgt[c],
             pc[c] # "record" \/ cmd[c] = "adopt"
      PROVE  pidFile[tgt[c]] = q /\ Exists(pidFile[tgt[c]])
  BY <1>4, <1>5, LiveIsOnRecord DEF Undisturbed, Live, Exists
<1>6. ASSUME NEW c \in Clients PROVE StepInv(c)'
  <2>1. StepInv(c) /\ (pc[c] # "done" => result[c] = "none")
    BY <1>4 DEF OwnInv
  <2>2. pc[c] # "idle" => tgt[c] \in Instances
    BY DEF TypeOK
  <2>3. pc[c] # "idle" /\ ~Exists(pidFile[tgt[c]]) => ~Exists(pidFile[tgt[c]])'
    BY <1>1, <2>2 DEF OwnInv, Exists, Age
  <2>4. pc[c] = "spawn" => ~PortsTaken(tgt[c])'
    BY <1>1, <1>3, <1>5, <2>1 DEF StepInv, PortsTaken
  <2>5. ASSUME pc[c] = "record", cmd[c] # "adopt",
               NEW p \in Pids, Bound(p)', inst[p] = tgt[c]
        PROVE  p = made[c]
    <3>1. CASE Bound(p)
      BY <2>1, <2>5, <3>1 DEF StepInv
    <3>2. CASE p = q /\ Live(q)
      <4>1. pidFile[inst[q]] # q
        BY <2>1, <2>5, <3>2 DEF StepInv, Exists, Live
      <4>2. PICK d \in Clients : pc[d] = "record" /\ made[d] = q /\ tgt[d] = inst[q]
        BY <1>4, <3>2, <4>1 DEF Tracked
      <4>3. d = c
        BY <2>5, <3>2, <4>2, Alone DEF Undisturbed
      <4>4. QED
        BY <3>2, <4>2, <4>3
    <3>3. QED
      BY <1>3, <2>5, <3>1, <3>2
  <2>6. pc[c] \in {"drain", "clear"} => ~Live(victim[c])'
    BY <1>1, <1>2, <2>1 DEF StepInv, TypeOK
  <2>7. QED
    BY <1>1, <1>2, <2>1, <2>3, <2>4, <2>5, <2>6 DEF StepInv
<1>7. BoundUnique'
  <2>1. OneLive
    BY <1>4, LiveUnique DEF Undisturbed
  <2> SUFFICES ASSUME NEW p \in Pids, NEW r \in Pids,
                      Bound(p)', Live(r)', inst[p] = inst[r]
               PROVE  p = r
    BY <1>1 DEF BoundUnique
  <2>2. Live(r)
    BY <1>2
  <2>3. CASE Bound(p)
    BY <1>4, <2>2, <2>3 DEF BoundUnique
  <2>4. CASE p = q /\ Live(q)
    BY <2>1, <2>2, <2>4 DEF OneLive
  <2>5. QED
    BY <1>3, <2>3, <2>4
<1>8. Tracked'
  BY <1>1, <1>2, <1>4 DEF Tracked
<1>9. AwaitsOwn'
  <2> SUFFICES ASSUME NEW c \in Clients, NEW p \in Pids,
                      pc[c] = "await", Bound(p)', inst[p] = tgt[c]
               PROVE  p = made[c]
    BY <1>1 DEF AwaitsOwn
  <2>1. CASE Bound(p)
    BY <1>4, <2>1 DEF AwaitsOwn
  <2>2. CASE p = q /\ Live(q)
    BY <1>4, <1>5, <2>2 DEF StepInv
  <2>3. QED
    BY <1>3, <2>1, <2>2
<1>10. QED
  BY <1>6, <1>7, <1>8, <1>9 DEF WorkInv

LEMMA ExclusiveInductive ==
  ASSUME Undisturbed, ExclusiveInv, [Next]_vars, TypeOK'
  PROVE  ExclusiveInv'
<1>1. OwnInv'
  BY OwnInductive DEF ExclusiveInv, Undisturbed
<1>2. \A p \in Pids : Age(p)
  BY PidsAge DEF ExclusiveInv, Undisturbed
<1>3. WorkInv'
  <2>1. ASSUME NEW c \in Clients, Begin(c) \/ ClientStep(c) PROVE WorkInv'
    BY <1>2, <2>1, ClientInductive
  <2>2. ASSUME NEW p \in Pids, Bind(p) \/ Exit(p) \/ ExitOnSignal(p) PROVE WorkInv'
    BY <1>2, <2>2, ProcessInductive
  <2>3. ~ \E p \in Pids, i \in Instances : ManualLaunch(p, i)
    BY DEF ManualLaunch, Undisturbed
  <2>4. ~ \E h \in Hosts : HostDies(h)
    BY DEF HostDies, Undisturbed
  <2>5. CASE UNCHANGED vars
    BY <2>5 DEF vars, ExclusiveInv, WorkInv, StepInv, BoundUnique, Tracked, AwaitsOwn,
       Exists, Live, Bound, PortsTaken
  <2>6. QED
    BY <2>1, <2>2, <2>3, <2>4, <2>5 DEF Next
<1>4. QED
  BY <1>1, <1>3 DEF ExclusiveInv

\* Where no two clients work on the same instance, no host is killed inside a
\* command and nobody launches Odoo behind owm's back, no Odoo is ever
\* orphaned or launched twice, start --wait speaks of the process it launched,
\* health_check does not disown a running one, and install has installed.
THEOREM ExclusiveCorrect ==
  Undisturbed => (Spec => [](/\ Tracked /\ OneLive /\ StartIsNoOpWhenRunning
                             /\ AwaitsOwn /\ NeverDisowned /\ InstallRanInit))
<1> SUFFICES ASSUME Undisturbed
             PROVE  Spec => [](/\ Tracked /\ OneLive /\ StartIsNoOpWhenRunning
                               /\ AwaitsOwn /\ NeverDisowned /\ InstallRanInit)
  OBVIOUS
<1>1. Init => WorkInv /\ OwnInv
  BY DEF Init, WorkInv, OwnInv, StepInv, BoundUnique, Tracked, AwaitsOwn, Bound, Live
<1>2. ExclusiveInv /\ TypeOK' /\ [Next]_vars => ExclusiveInv'
  BY ExclusiveInductive
<1>3. ASSUME ExclusiveInv
      PROVE  /\ Tracked /\ OneLive /\ StartIsNoOpWhenRunning
             /\ AwaitsOwn /\ NeverDisowned /\ InstallRanInit
  <2> USE <1>3 DEF ExclusiveInv, WorkInv
  <2>1. OneLive
    BY LiveUnique DEF Undisturbed
  <2>2. StartIsNoOpWhenRunning
    BY DEF StartIsNoOpWhenRunning, StepInv, Exists, Live
  <2>3. NeverDisowned
    <3> SUFFICES ASSUME NEW c \in Clients, NEW p \in Pids,
                        pc[c] = "hScan", st[p] = "serving", inst[p] = tgt[c]
                 PROVE  FALSE
      BY DEF NeverDisowned
    <3>1. pidFile[tgt[c]] = p
      BY LiveIsOnRecord DEF Undisturbed, Live
    <3>2. QED
      BY <3>1 DEF StepInv, Exists
  <2>4. InstallRanInit
    BY DEF InstallRanInit, StepInv
  <2>5. QED
    BY <2>1, <2>2, <2>3, <2>4
<1>4. QED
  BY TypeCorrect, <1>1, <1>2, <1>3, PTL DEF Spec, ExclusiveInv

\* The same, property by property: start --wait speaks of the process it
\* launched.
THEOREM AwaitCorrect == Undisturbed => (Spec => []AwaitsOwn)
BY ExclusiveCorrect, PTL

\* health_check does not take an Odoo that owm launched for somebody else's.
THEOREM HealthCorrect == Undisturbed => (Spec => []NeverDisowned)
BY ExclusiveCorrect, PTL

\* An install that says "installed" has launched Odoo with -i.
THEOREM InstallCorrect == Undisturbed => (Spec => []InstallRanInit)
BY ExclusiveCorrect, PTL

=============================================================================
