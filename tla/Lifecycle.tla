------------------------------ MODULE Lifecycle ------------------------------
(***************************************************************************)
(* Starting, stopping, killing, restarting, installing into and adopting   *)
(* Odoo instances: src/owm/instance.py with its three callers, the command *)
(* line (one short-lived process per command), the MCP server and the      *)
(* dashboard (long-lived processes, the dashboard with several threads).   *)
(*                                                                         *)
(* The callers share nothing but state.json (one recorded pid per          *)
(* instance), the process table and the ports, and hold no lock over any   *)
(* of them: every read, signal, fork and write below is a step of its own. *)
(***************************************************************************)
EXTENDS Naturals, FiniteSets

CONSTANTS
  Instances,   \* the instance directories
  Pids,        \* process ids the kernel may hand out
  Clients,     \* callers that run one command at a time (a CLI run, a thread)
  Hosts,       \* OS processes the clients run in
  HostOf,      \* the host of each client
  LongLived,   \* the hosts that outlive a command: MCP server, dashboard
  Targets,     \* the instances each client issues commands for
  Commands,    \* the commands clients issue
  Faults,      \* what the environment may do, see AllFaults
  Unset        \* no pid: state.json absent or its pid "UNSET"

AllCommands == {"start", "startWait", "stop", "stopWait", "kill", "restart",
                "restartWait", "install", "adopt", "health"}

\* "crash": an Odoo process dies by itself.  "hostKilled": a host dies in the
\* middle of a command.  "manual": somebody launches Odoo without owm.
\* "reuse": the kernel hands out the pid of a process that is gone.
AllFaults == {"crash", "hostKilled", "manual", "reuse"}

ASSUME HostsAssumption == HostOf \in [Clients -> Hosts] /\ LongLived \subseteq Hosts
ASSUME TargetsAssumption == Targets \in [Clients -> SUBSET Instances]
ASSUME CommandsAssumption == Commands \subseteq AllCommands
ASSUME FaultsAssumption == Faults \subseteq AllFaults
ASSUME UnsetAssumption == Unset \notin Pids \cup Instances

VARIABLES
  pidFile,   \* per instance, the pid in its state.json
  st,        \* per pid, the state of the process that has or had it
  inst,      \* per pid, the instance whose configuration it was launched with
  parent,    \* per pid, the host that forked it, Pid1 once nobody owm runs in did
  pc,        \* per client, the next step of the command it runs
  cmd,       \* per client, that command
  tgt,       \* per client, the instance it is for
  made,      \* per client, the pid its start launched or its adopt was given
  victim,    \* per client, the pid its stop or kill read
  result     \* per client, what the command reports

procVars == <<st, inst, parent>>
clientVars == <<pc, cmd, tgt, made, victim, result>>
vars == <<pidFile, st, inst, parent, pc, cmd, tgt, made, victim, result>>

-----------------------------------------------------------------------------
(* The process table.                                                      *)

Pid1 == "pid1"

ProcessStates == {"unborn",   \* never handed out
                  "booting",  \* forked, ports not yet bound
                  "serving",  \* bound to its instance's ports
                  "dying",    \* signalled while booting
                  "draining", \* signalled while serving, ports still bound
                  "zombie",   \* exited, not waited for by its parent
                  "gone"}     \* exited and reaped

\* instance._process_alive: psutil.pid_exists, true of a zombie.
Exists(p) == p \in Pids /\ st[p] \notin {"unborn", "gone"}

\* Running and not asked to stop.
Live(p) == p \in Pids /\ st[p] \in {"booting", "serving"}

\* Holding the http and gevent ports of its instance; it answers there.
Bound(p) == p \in Pids /\ st[p] \in {"serving", "draining"}

PortsTaken(i) == \E p \in Pids : Bound(p) /\ inst[p] = i

\* A child whose parent owm process is alive stays a zombie until waited for.
ExitState(p) == IF parent[p] \in Hosts THEN "zombie" ELSE "gone"

\* start_instance drops its Popen object on return and nobody waits for the
\* child: CPython reaps such children when the same process next creates a
\* Popen.  While start_instance runs the object is still referenced.
PopenHeld(p) == \E c \in Clients : /\ pc[c] \in {"record", "await"}
                                   /\ cmd[c] # "adopt"
                                   /\ made[c] = p

Reapable(h) == {p \in Pids : st[p] = "zombie" /\ parent[p] = h /\ ~PopenHeld(p)}

Reap(h) == [p \in Pids |-> IF p \in Reapable(h) THEN "gone" ELSE st[p]]

AvailablePids == {p \in Pids : \/ st[p] = "unborn"
                               \/ st[p] = "gone" /\ "reuse" \in Faults}

Bind(p) ==
  /\ st[p] = "booting"
  /\ ~PortsTaken(inst[p])
  /\ st' = [st EXCEPT ![p] = "serving"]
  /\ UNCHANGED <<pidFile, inst, parent, clientVars>>

\* Odoo exits when its ports are taken, by itself, or after a signal.
Exit(p) ==
  /\ \/ st[p] = "booting" /\ PortsTaken(inst[p])
     \/ Live(p) /\ "crash" \in Faults
  /\ st' = [st EXCEPT ![p] = ExitState(p)]
  /\ UNCHANGED <<pidFile, inst, parent, clientVars>>

ExitOnSignal(p) ==
  /\ st[p] \in {"dying", "draining"}
  /\ st' = [st EXCEPT ![p] = ExitState(p)]
  /\ UNCHANGED <<pidFile, inst, parent, clientVars>>

ManualLaunch(p, i) ==
  /\ "manual" \in Faults
  /\ p \in AvailablePids
  /\ st' = [st EXCEPT ![p] = "booting"]
  /\ inst' = [inst EXCEPT ![p] = i]
  /\ parent' = [parent EXCEPT ![p] = Pid1]
  /\ UNCHANGED <<pidFile, clientVars>>

-----------------------------------------------------------------------------
(* Clients: issuing a command, reporting, and dying with their host.       *)

EntryPoint(k) ==
  CASE k \in {"start", "startWait"} -> "check"
    [] k \in {"stop", "stopWait", "kill", "restart", "restartWait"} -> "lookup"
    [] OTHER -> k    \* install, adopt, health

LongLivedClient(c) == HostOf[c] \in LongLived

Begin(c) ==
  /\ pc[c] = "idle"
  /\ \E k \in Commands, i \in Targets[c] :
       /\ k = "restartWait" => LongLivedClient(c)
       /\ pc' = [pc EXCEPT ![c] = EntryPoint(k)]
       /\ cmd' = [cmd EXCEPT ![c] = k]
       /\ tgt' = [tgt EXCEPT ![c] = i]
  /\ UNCHANGED <<pidFile, procVars, made, victim, result>>

Goto(c, label) == pc' = [pc EXCEPT ![c] = label] /\ UNCHANGED result

Report(c, r) == /\ pc' = [pc EXCEPT ![c] = "done"]
                /\ result' = [result EXCEPT ![c] = r]

\* The children of a host that ends pass to pid 1, which reaps its zombies.
Orphan(h) ==
  /\ st' = [p \in Pids |-> IF st[p] = "zombie" /\ parent[p] = h
                           THEN "gone" ELSE st[p]]
  /\ parent' = [p \in Pids |-> IF parent[p] = h THEN Pid1 ELSE parent[p]]
  /\ UNCHANGED inst

Forget(cs) ==
  /\ pc' = [c \in Clients |-> IF c \in cs THEN "idle" ELSE pc[c]]
  /\ cmd' = [c \in Clients |-> IF c \in cs THEN "none" ELSE cmd[c]]
  /\ tgt' = [c \in Clients |-> IF c \in cs THEN Unset ELSE tgt[c]]
  /\ made' = [c \in Clients |-> IF c \in cs THEN Unset ELSE made[c]]
  /\ victim' = [c \in Clients |-> IF c \in cs THEN Unset ELSE victim[c]]
  /\ result' = [c \in Clients |-> IF c \in cs THEN "none" ELSE result[c]]

Return(c) ==
  /\ pc[c] = "done"
  /\ Forget({c})
  /\ IF LongLivedClient(c) THEN UNCHANGED procVars ELSE Orphan(HostOf[c])
  /\ UNCHANGED pidFile

HostDies(h) ==
  /\ "hostKilled" \in Faults
  /\ Forget({c \in Clients : HostOf[c] = h})
  /\ Orphan(h)
  /\ UNCHANGED pidFile

(* start_instance (with _write_pid and _wait_for_http).                    *)

IsRestart(c) == cmd[c] \in {"restart", "restartWait"}
WaitsForHttp(c) == cmd[c] \in {"startWait", "restartWait", "install"}
WaitsForExit(c) == cmd[c] \in {"stopWait", "restart", "restartWait", "install"}

\* What the caller of start_instance does with its StartResult.
StartOutcome(c, r) ==
  IF cmd[c] = "install" THEN Goto(c, "lookup")
  ELSE Report(c, IF IsRestart(c) THEN "restarted" ELSE r)

\* The pid is read and found alive or not; then the venv is brought up to
\* date, which may fail and may run a subprocess.
StartCheck(c) ==
  /\ pc[c] = "check"
  /\ \/ /\ Exists(pidFile[tgt[c]])
        /\ StartOutcome(c, "already_running")
        /\ UNCHANGED st
     \/ /\ ~Exists(pidFile[tgt[c]])
        /\ Goto(c, "probe") \/ Report(c, "error")
        /\ st' \in {st, Reap(HostOf[c])}
  /\ UNCHANGED <<pidFile, inst, parent, cmd, tgt, made, victim>>

\* Mutant of StartProbe: the ports are not probed.
StartProbeUnchecked(c) ==
  /\ pc[c] = "probe"
  /\ Goto(c, "spawn")
  /\ UNCHANGED <<pidFile, procVars, cmd, tgt, made, victim>>

StartProbe(c) ==
  /\ pc[c] = "probe"
  /\ IF PortsTaken(tgt[c]) THEN Report(c, "PORT_CONTESTED") ELSE Goto(c, "spawn")
  /\ UNCHANGED <<pidFile, procVars, cmd, tgt, made, victim>>

\* pin_web_base_url runs psql, so the host's forgotten zombies are reaped
\* before the fork of odoo-bin.
Spawn(c) ==
  /\ pc[c] = "spawn"
  /\ \E p \in AvailablePids :
       /\ st' = [Reap(HostOf[c]) EXCEPT ![p] = "booting"]
       /\ inst' = [inst EXCEPT ![p] = tgt[c]]
       /\ parent' = [parent EXCEPT ![p] = HostOf[c]]
       /\ made' = [made EXCEPT ![c] = p]
  /\ Goto(c, "record")
  /\ UNCHANGED <<pidFile, cmd, tgt, victim>>

\* The venv has no interpreter, or the kernel cannot fork.
SpawnFails(c) ==
  /\ pc[c] = "spawn"
  /\ st' = Reap(HostOf[c])
  /\ Report(c, "error")
  /\ UNCHANGED <<pidFile, inst, parent, cmd, tgt, made, victim>>

\* _write_pid, for start_instance and for adopt_instance.
Record(c) ==
  /\ pc[c] = "record"
  /\ pidFile' = [pidFile EXCEPT ![tgt[c]] = made[c]]
  /\ CASE cmd[c] = "adopt" -> Report(c, "adopted")
       [] WaitsForHttp(c)  -> Goto(c, "await")
       [] OTHER            -> StartOutcome(c, "spawned")
  /\ UNCHANGED <<procVars, cmd, tgt, made, victim>>

AwaitUp(c) ==
  /\ pc[c] = "await"
  /\ PortsTaken(tgt[c])
  /\ StartOutcome(c, "healthy")
  /\ UNCHANGED <<pidFile, procVars, cmd, tgt, made, victim>>

\* Mutant of AwaitTimesOut: the pid of the slow process is forgotten.
AwaitTimesOutForgetting(c) ==
  /\ pc[c] = "await"
  /\ ~PortsTaken(tgt[c])
  /\ pidFile' = [pidFile EXCEPT ![tgt[c]] = Unset]
  /\ Report(c, "START_TIMEOUT")
  /\ UNCHANGED <<procVars, cmd, tgt, made, victim>>

\* The process is left running and recorded; install and restart raise too.
AwaitTimesOut(c) ==
  /\ pc[c] = "await"
  /\ ~PortsTaken(tgt[c])
  /\ Report(c, "START_TIMEOUT")
  /\ UNCHANGED <<pidFile, procVars, cmd, tgt, made, victim>>

-----------------------------------------------------------------------------
(* stop_instance and kill_instance.                                        *)

\* What the caller of stop_instance does with its StopResult.
StopOutcome(c, r) ==
  CASE IsRestart(c)       -> Goto(c, "check")
    [] cmd[c] = "install" -> Goto(c, "pin")
    [] OTHER              -> Report(c, r)

\* Mutant of StopLookup: a pid is signalled without asking whether there is one.
StopLookupUnchecked(c) ==
  /\ pc[c] = "lookup"
  /\ victim' = [victim EXCEPT ![c] = pidFile[tgt[c]]]
  /\ Goto(c, "signal")
  /\ UNCHANGED <<pidFile, procVars, cmd, tgt, made>>

StopLookup(c) ==
  /\ pc[c] = "lookup"
  /\ IF Exists(pidFile[tgt[c]])
     THEN /\ victim' = [victim EXCEPT ![c] = pidFile[tgt[c]]]
          /\ Goto(c, "signal")
     ELSE /\ StopOutcome(c, "not_running")
          /\ UNCHANGED victim
  /\ UNCHANGED <<pidFile, procVars, cmd, tgt, made>>

Terminated(p) == CASE st[p] = "booting" -> "dying"
                   [] st[p] = "serving" -> "draining"
                   [] OTHER             -> st[p]

Killed(p) == IF st[p] = "zombie" THEN "zombie" ELSE ExitState(p)

\* Mutant of Signal: the pid is dropped without the signal being sent.
SignalSkipped(c) ==
  /\ pc[c] = "signal"
  /\ Goto(c, "clear")
  /\ UNCHANGED <<pidFile, procVars, cmd, tgt, made, victim>>

\* os.kill; ProcessLookupError escapes when the process went meanwhile.
Signal(c) ==
  /\ pc[c] = "signal"
  /\ IF Exists(victim[c])
     THEN /\ st' = [st EXCEPT ![victim[c]] = IF cmd[c] = "kill"
                                             THEN Killed(victim[c])
                                             ELSE Terminated(victim[c])]
          /\ Goto(c, IF WaitsForExit(c) THEN "drain" ELSE "clear")
     ELSE Report(c, "error") /\ UNCHANGED st
  /\ UNCHANGED <<pidFile, inst, parent, cmd, tgt, made, victim>>

DrainEnds(c) ==
  /\ pc[c] = "drain"
  /\ ~Exists(victim[c])
  /\ Goto(c, "clear")
  /\ UNCHANGED <<pidFile, procVars, cmd, tgt, made, victim>>

\* Mutants of DrainTimesOut: the wait has no deadline; the deadline is taken
\* for an exit; restart goes on whatever stop reported.
DrainForever(c) == pc[c] = "drain" /\ FALSE /\ UNCHANGED vars

DrainTimeoutAsExit(c) ==
  /\ pc[c] = "drain"
  /\ Exists(victim[c])
  /\ Goto(c, "clear")
  /\ UNCHANGED <<pidFile, procVars, cmd, tgt, made, victim>>

DrainTimeoutIgnored(c) ==
  /\ pc[c] = "drain"
  /\ Exists(victim[c])
  /\ StopOutcome(c, "stop_timeout")
  /\ UNCHANGED <<pidFile, procVars, cmd, tgt, made, victim>>

\* restart_instance raises STOP_TIMEOUT; cli.cmd_restart and
\* install_instance_modules go on without looking at the result.
DrainTimesOut(c) ==
  /\ pc[c] = "drain"
  /\ Exists(victim[c])
  /\ IF IsRestart(c) /\ LongLivedClient(c)
     THEN Report(c, "STOP_TIMEOUT")
     ELSE StopOutcome(c, "stop_timeout")
  /\ UNCHANGED <<pidFile, procVars, cmd, tgt, made, victim>>

ClearPid(c) ==
  /\ pc[c] = "clear"
  /\ pidFile' = [pidFile EXCEPT ![tgt[c]] = Unset]
  /\ StopOutcome(c, CASE cmd[c] = "kill" -> "killed"
                      [] cmd[c] = "stop" -> "stopping"
                      [] OTHER           -> "stopped")
  /\ UNCHANGED <<procVars, cmd, tgt, made, victim>>

-----------------------------------------------------------------------------
(* install_instance_modules around start and stop, adopt, health_check.    *)

\* Mutant of InstallCheck: the instance may be running.
InstallCheckUnguarded(c) ==
  /\ pc[c] = "install"
  /\ Goto(c, "check") \/ Report(c, "nothing_to_install")
  /\ st' = Reap(HostOf[c])
  /\ UNCHANGED <<pidFile, inst, parent, cmd, tgt, made, victim>>

\* The module query runs psql.
InstallCheck(c) ==
  /\ pc[c] = "install"
  /\ \/ /\ Exists(pidFile[tgt[c]])
        /\ Report(c, "INSTANCE_RUNNING")
        /\ UNCHANGED st
     \/ /\ ~Exists(pidFile[tgt[c]])
        /\ Goto(c, "check") \/ Report(c, "nothing_to_install")
        /\ st' = Reap(HostOf[c])
  /\ UNCHANGED <<pidFile, inst, parent, cmd, tgt, made, victim>>

InstallPin(c) ==
  /\ pc[c] = "pin"
  /\ st' = Reap(HostOf[c])
  /\ Report(c, "installed")
  /\ UNCHANGED <<pidFile, inst, parent, cmd, tgt, made, victim>>

\* Mutant of AdoptProbe: the process's port is not compared.
AdoptAnyPort(c) ==
  /\ pc[c] = "adopt"
  /\ \E p \in Pids :
       /\ Bound(p)
       /\ made' = [made EXCEPT ![c] = p]
  /\ Goto(c, "record")
  /\ UNCHANGED <<pidFile, procVars, cmd, tgt, victim>>

\* The pid is the user's; its LISTEN port is compared with the configured
\* one.  --force, which lets the user record any pid, is left out.
AdoptProbe(c) ==
  /\ pc[c] = "adopt"
  /\ \E p \in Pids :
       IF Bound(p) /\ inst[p] = tgt[c]
       THEN made' = [made EXCEPT ![c] = p] /\ Goto(c, "record")
       ELSE /\ Report(c, IF Bound(p) THEN "needs_confirmation" ELSE "error")
            /\ UNCHANGED made
  /\ UNCHANGED <<pidFile, procVars, cmd, tgt, victim>>

HealthLookup(c) ==
  /\ pc[c] = "health"
  /\ Goto(c, IF Exists(pidFile[tgt[c]]) THEN "hHttp" ELSE "hScan")
  /\ UNCHANGED <<pidFile, procVars, cmd, tgt, made, victim>>

\* find_conflicting_process, once no managed process was found.
HealthScan(c) ==
  /\ pc[c] = "hScan"
  /\ Report(c, IF PortsTaken(tgt[c]) THEN "unmanaged" ELSE "stopped")
  /\ UNCHANGED <<pidFile, procVars, cmd, tgt, made, victim>>

\* "unhealthy" is the answer of health_check(wait=True) after its timeout.
HealthHttp(c) ==
  /\ pc[c] = "hHttp"
  /\ IF PortsTaken(tgt[c]) THEN Report(c, "healthy")
     ELSE \E r \in {"starting", "unhealthy"} : Report(c, r)
  /\ UNCHANGED <<pidFile, procVars, cmd, tgt, made, victim>>

-----------------------------------------------------------------------------

Init ==
  /\ pidFile = [i \in Instances |-> Unset]
  /\ st = [p \in Pids |-> "unborn"]
  /\ inst = [p \in Pids |-> Unset]
  /\ parent = [p \in Pids |-> Pid1]
  /\ pc = [c \in Clients |-> "idle"]
  /\ cmd = [c \in Clients |-> "none"]
  /\ tgt = [c \in Clients |-> Unset]
  /\ made = [c \in Clients |-> Unset]
  /\ victim = [c \in Clients |-> Unset]
  /\ result = [c \in Clients |-> "none"]

ClientStep(c) ==
  \/ StartCheck(c) \/ StartProbe(c) \/ Spawn(c) \/ SpawnFails(c) \/ Record(c)
  \/ AwaitUp(c) \/ AwaitTimesOut(c)
  \/ StopLookup(c) \/ Signal(c) \/ DrainEnds(c) \/ DrainTimesOut(c) \/ ClearPid(c)
  \/ InstallCheck(c) \/ InstallPin(c) \/ AdoptProbe(c)
  \/ HealthLookup(c) \/ HealthScan(c) \/ HealthHttp(c)
  \/ Return(c)

Next ==
  \/ \E c \in Clients : Begin(c) \/ ClientStep(c)
  \/ \E p \in Pids : Bind(p) \/ Exit(p) \/ ExitOnSignal(p)
  \/ \E p \in Pids, i \in Instances : ManualLaunch(p, i)
  \/ \E h \in Hosts : HostDies(h)

Spec == Init /\ [][Next]_vars

\* Commands run to their end (every wait has a timeout); a user is not
\* assumed to issue commands, nor a process to boot.
CommandsProgress == \A c \in Clients : WF_vars(ClientStep(c))

\* Odoo's own handler of SIGTERM ends the process, outside of owm.
SignalsHonoured == \A p \in Pids : WF_vars(ExitOnSignal(p))

FairSpec == Spec /\ CommandsProgress
DrainingSpec == FairSpec /\ SignalsHonoured

-----------------------------------------------------------------------------
(* Properties.                                                             *)

Labels == {"idle", "check", "probe", "spawn", "record", "await", "lookup",
           "signal", "drain", "clear", "install", "pin", "adopt", "health",
           "hScan", "hHttp", "done"}

Results == {"none", "error", "already_running", "PORT_CONTESTED", "spawned",
            "healthy", "START_TIMEOUT", "restarted", "not_running", "stopping",
            "stopped", "stop_timeout", "STOP_TIMEOUT", "killed", "installed",
            "INSTANCE_RUNNING", "nothing_to_install", "adopted",
            "needs_confirmation", "unmanaged", "starting", "unhealthy"}

\* The types, and what a command has in hand at each step: os.kill and
\* _write_pid are never reached with no pid, nor an instance of another client.
TypeOK ==
  /\ pidFile \in [Instances -> Pids \cup {Unset}]
  /\ st \in [Pids -> ProcessStates]
  /\ inst \in [Pids -> Instances \cup {Unset}]
  /\ parent \in [Pids -> Hosts \cup {Pid1}]
  /\ pc \in [Clients -> Labels]
  /\ cmd \in [Clients -> AllCommands \cup {"none"}]
  /\ tgt \in [Clients -> Instances \cup {Unset}]
  /\ made \in [Clients -> Pids \cup {Unset}]
  /\ victim \in [Clients -> Pids \cup {Unset}]
  /\ result \in [Clients -> Results]
  /\ \A c \in Clients : /\ pc[c] # "idle" => tgt[c] \in Targets[c]
                        /\ pc[c] \in {"record", "await"} => made[c] \in Pids
                        /\ pc[c] \in {"signal", "drain", "clear"} => victim[c] \in Pids

\* No two clients work on the same instance at the same time.
Exclusive == \A c, d \in Clients : c # d => Targets[c] \cap Targets[d] = {}

\* owm never signals another instance's process, whatever the interleaving,
\* as long as pids are not reused (instance.py stop_instance, kill_instance:
\* the pid they signal was read from state.json some steps before).
OwnVictim ==
  \A c \in Clients : pc[c] = "signal" => inst[victim[c]] = tgt[c]

\* Every Odoo that runs is on record in its instance's state.json, or about
\* to be put there by the command that launched it: no process is orphaned.
Tracked ==
  \A p \in Pids : Live(p) =>
    \/ pidFile[inst[p]] = p
    \/ \E c \in Clients : /\ pc[c] = "record" /\ cmd[c] # "adopt"
                          /\ made[c] = p /\ tgt[c] = inst[p]

\* An instance has at most one running Odoo.
OneLive ==
  \A p, q \in Pids : Live(p) /\ Live(q) /\ inst[p] = inst[q] => p = q

\* "owm start (already running): no-op" (spec.md): nothing is launched while
\* the process on record runs.
StartIsNoOpWhenRunning ==
  \A c \in Clients : pc[c] = "spawn" => ~Live(pidFile[tgt[c]])

\* What answers while start --wait polls is the process it launched, so
\* "healthy" is never said of a predecessor still shutting down.
AwaitsOwn ==
  \A c \in Clients, p \in Pids :
    pc[c] = "await" /\ Bound(p) /\ inst[p] = tgt[c] => p = made[c]

\* health_check calls a running Odoo that owm launched "unmanaged" at most
\* while it shuts down.
NeverDisowned ==
  \A c \in Clients, p \in Pids :
    pc[c] = "hScan" /\ st[p] = "serving" => inst[p] # tgt[c]

\* "installed" is reported only by a command that launched Odoo with -i.
InstallRanInit ==
  \A c \in Clients : result[c] = "installed" => made[c] # Unset

\* stop --wait says "stopped" only of a process that is gone.
StoppedMeansGone ==
  \A c \in Clients :
    cmd[c] = "stopWait" /\ result[c] = "stopped" => ~Exists(victim[c])

\* A restart that reports success has replaced the process it stopped.
RestartReplaces ==
  \A c \in Clients : result[c] = "restarted" => ~Exists(victim[c])

\* Every command comes back to its caller, whatever the processes do.
CommandsReturn == \A c \in Clients : pc[c] # "idle" ~> pc[c] = "idle"

\* A process that stop or kill set out to signal disappears from the process
\* table: the stop of a command-line run is not lost.
StopLeadsToExit ==
  \A p \in Pids :
    (\E c \in Clients : pc[c] = "signal" /\ victim[c] = p) ~> ~Exists(p)

=============================================================================
