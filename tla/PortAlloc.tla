------------------------------ MODULE PortAlloc ------------------------------
(***************************************************************************)
(* Which instance holds which ports: _assign_instance_ports and the        *)
(* operations that write or free the [server] section of an instance.toml. *)
(*                                                                         *)
(* create reads its own instance.toml, lists instances/, reads every other *)
(* instance.toml one after the other, decides, and rewrites its own; the   *)
(* proxy block and instance.conf follow.  Nothing locks instances/         *)
(* meanwhile: every other operation, another create and a user's edit may  *)
(* come between any two of these steps.                                    *)
(***************************************************************************)
EXTENDS Ports

CONSTANTS
  Names,        \* instance names
  Clients,      \* callers that create instances
  DefaultPort,  \* the http_port new_instance writes into every toml
  Pins,         \* the http ports users may pin by editing a toml
  ForceFlags,   \* FALSE, and TRUE if users pass --force to rewrite a toml
  NoName        \* no instance

ASSUME DefaultAssumption == DefaultPort \in Nat \ {NoPort}
ASSUME PinsAssumption == Pins \subseteq Nat
ASSUME ForceAssumption == ForceFlags \subseteq BOOLEAN
ASSUME NoNameAssumption == NoName \notin Names

Absent == -1   \* there is no such file

VARIABLES
  toml,      \* per name, the http_port of instances/<name>/instance.toml
  confs,     \* names with an instance.conf
  pc,        \* per client, the step of its create
  who,       \* per client, the instance it creates
  pin,       \* per client, the http_port it read from the toml
  todo,      \* per client, the tomls it has listed and not read yet
  seen,      \* per client, the ports found in those it has
  missed,    \* history: the tomls written after the client read or listed them
  checked    \* history: how a name's http_port was compared with the others'

files == <<toml, confs>>
creates == <<pc, who, pin, todo, seen>>
vars == <<toml, confs, pc, who, pin, todo, seen, missed, checked>>

\* "no": the port stands as a user, new or unarchive wrote it, or as a create
\* wrote it that had missed a toml; "kept": a create compared it with every
\* other toml and let it stand; "drawn": one drew it from the range.
Checks == {"no", "kept", "drawn"}

-----------------------------------------------------------------------------
(* History.                                                                *)

\* Client c has read, or not found when it listed them, the toml of name n.
HasRead(c, n) ==
  \/ pc[c] # "idle" /\ n = who[c]
  \/ pc[c] = "scan" /\ n \notin todo[c]

\* Files of the names ns are written or removed by somebody other than c.
Missed(ns) == [c \in Clients |-> missed[c] \cup {n \in ns : HasRead(c, n)}]

Writes(ns) == missed' = Missed(ns)

-----------------------------------------------------------------------------
(* create_instance.                                                        *)

\* Also the second materialisation of an instance that exists.
CreateBegin(c, n) ==
  /\ pc[c] = "idle"
  /\ toml[n] # Absent
  /\ pc' = [pc EXCEPT ![c] = "list"]
  /\ who' = [who EXCEPT ![c] = n]
  /\ pin' = [pin EXCEPT ![c] = toml[n]]
  /\ UNCHANGED <<files, todo, seen, missed, checked>>

\* The listing of instances/: a directory made from now on is not met.
ListTomls(c) ==
  /\ pc[c] = "list"
  /\ pc' = [pc EXCEPT ![c] = "scan"]
  /\ todo' = [todo EXCEPT ![c] = {m \in Names \ {who[c]} : toml[m] # Absent}]
  /\ UNCHANGED <<files, who, pin, seen, missed, checked>>

\* Mutant of ScanToml: only instances that are provisioned are looked at.
ScanProvisionedToml(c) ==
  /\ pc[c] = "scan"
  /\ \E m \in todo[c] :
       /\ todo' = [todo EXCEPT ![c] = @ \ {m}]
       /\ seen' = [seen EXCEPT ![c] = IF m \notin confs THEN @ ELSE @ \cup Pair(toml[m])]
  /\ UNCHANGED <<files, pc, who, pin, missed, checked>>

\* _collect_occupied_ports, one instance.toml.
ScanToml(c) ==
  /\ pc[c] = "scan"
  /\ \E m \in todo[c] :
       /\ todo' = [todo EXCEPT ![c] = @ \ {m}]
       /\ seen' = [seen EXCEPT ![c] = IF toml[m] = Absent THEN @ ELSE @ \cup Pair(toml[m])]
  /\ UNCHANGED <<files, pc, who, pin, missed, checked>>

\* The port of the toml stands if no other instance claims it; its gevent
\* port is not looked at.
KeepsPin(c) == pin[c] # NoPort /\ pin[c] \notin seen[c]

Scanned(c) == pc[c] = "scan" /\ todo[c] = {}

\* What was read of the others is done with.
Decide(c) ==
  /\ pc' = [pc EXCEPT ![c] = "provision"]
  /\ seen' = [seen EXCEPT ![c] = {}]

AssignPin(c) ==
  /\ Scanned(c) /\ KeepsPin(c)
  /\ Decide(c)
  /\ missed' = [missed EXCEPT ![c] = @ \cap {who[c]}]
  /\ checked' = IF missed[c] # {} \/ checked[who[c]] # "no" THEN checked
                ELSE [checked EXCEPT ![who[c]] = "kept"]
  /\ UNCHANGED <<files, who, pin, todo>>

\* The instances' tomls as the other clients see them when c rewrites its own.
Rewritten(c) == [Missed({who[c]}) EXCEPT ![c] = missed[c] \cap {who[c]}]

\* Mutant of AssignFresh: the port is not recorded in the toml.
AssignUnrecorded(c) ==
  /\ Scanned(c) /\ ~KeepsPin(c)
  /\ HasRoom(seen[c]) /\ toml[who[c]] # Absent
  /\ pin' = [pin EXCEPT ![c] = AssignPort(seen[c])]
  /\ Decide(c)
  /\ missed' = Rewritten(c)
  /\ checked' = [checked EXCEPT ![who[c]] = IF missed[c] = {} THEN "drawn" ELSE "no"]
  /\ UNCHANGED <<files, who, todo>>

\* _rewrite_ports_in_toml fails if the instance has been removed meanwhile.
AssignFresh(c) ==
  /\ Scanned(c) /\ ~KeepsPin(c)
  /\ HasRoom(seen[c]) /\ toml[who[c]] # Absent
  /\ pin' = [pin EXCEPT ![c] = AssignPort(seen[c])]
  /\ toml' = [toml EXCEPT ![who[c]] = AssignPort(seen[c])]
  /\ Decide(c)
  /\ missed' = Rewritten(c)
  /\ checked' = [checked EXCEPT ![who[c]] = IF missed[c] = {} THEN "drawn" ELSE "no"]
  /\ UNCHANGED <<confs, who, todo>>

Finish(c) ==
  /\ pc' = [pc EXCEPT ![c] = "idle"]
  /\ who' = [who EXCEPT ![c] = NoName]
  /\ pin' = [pin EXCEPT ![c] = NoPort]
  /\ todo' = [todo EXCEPT ![c] = {}]
  /\ seen' = [seen EXCEPT ![c] = {}]
  /\ missed' = [missed EXCEPT ![c] = {}]

\* PORT_RANGE_EXHAUSTED, or the rewrite of a toml that is gone.
AssignFails(c) ==
  /\ Scanned(c) /\ ~KeepsPin(c)
  /\ ~HasRoom(seen[c]) \/ toml[who[c]] = Absent
  /\ Finish(c)
  /\ UNCHANGED <<files, checked>>

\* _configure_proxy, with the ports in memory.  The block itself is left to
\* Provision, and so is its removal.
WriteProxy(c) ==
  /\ pc[c] = "provision"
  /\ pc' = [pc EXCEPT ![c] = "conf"]
  /\ UNCHANGED <<files, who, pin, todo, seen, missed, checked>>

\* Worktrees, venv or database failed: the toml keeps the ports.
ProvisionFails(c) ==
  /\ pc[c] = "provision"
  /\ Finish(c)
  /\ UNCHANGED <<files, checked>>

\* _write_instance_odoo_conf: a new conf, or one marked as owm's.  The first
\* line of a conf is the user's to edit at any time, so a conf that exists is
\* found with any marker.
WriteConf(c) ==
  /\ pc[c] = "conf"
  /\ confs' = confs \cup {who[c]}
  /\ Finish(c)
  /\ UNCHANGED <<toml, checked>>

\* A conf marked as the user's stays as it is and create succeeds; one with no
\* marker is refused (ODOO_CONFIG_UNMARKED), its block written already.
LeaveConf(c) ==
  /\ pc[c] = "conf"
  /\ who[c] \in confs
  /\ Finish(c)
  /\ UNCHANGED <<files, checked>>

-----------------------------------------------------------------------------
(* The operations that write or free a claim in one step.                  *)

\* new_instance: every toml starts out with the same port.
New(n, force) ==
  /\ toml[n] = Absent \/ force
  /\ toml' = [toml EXCEPT ![n] = DefaultPort]
  /\ checked' = [checked EXCEPT ![n] = "no"]
  /\ Writes({n})
  /\ UNCHANGED <<confs, creates>>

\* The user edits the toml, of a draft or of an instance that has run.
PinPort(n, p) ==
  /\ toml[n] # Absent
  /\ toml' = [toml EXCEPT ![n] = p]
  /\ checked' = [checked EXCEPT ![n] = "no"]
  /\ Writes({n})
  /\ UNCHANGED <<confs, creates>>

\* cmd_regen_conf: the conf, unless the user's marker forbids it, and not the
\* proxy block.
RegenConf(n) ==
  /\ toml[n] # Absent
  /\ confs' = confs \cup {n}
  /\ UNCHANGED <<toml, creates, missed, checked>>

\* delete_instance and, for the claims, archive_instance: the directory goes.
Remove(n) ==
  /\ toml[n] # Absent
  /\ toml' = [toml EXCEPT ![n] = Absent]
  /\ confs' = confs \ {n}
  /\ checked' = [checked EXCEPT ![n] = "no"]
  /\ Writes({n})
  /\ UNCHANGED creates

\* The ports were stripped from the toml when it was archived; cmd_unarchive
\* goes on to create_instance.  Any name without a directory may have an
\* archive.
Unarchive(n) ==
  /\ toml[n] = Absent /\ n \notin confs
  /\ toml' = [toml EXCEPT ![n] = NoPort]
  /\ checked' = [checked EXCEPT ![n] = "no"]
  /\ Writes({n})
  /\ UNCHANGED <<confs, creates>>

\* The directory moves with its conf.  Renaming onto a name in use nests
\* directories and is left to Provision.
Rename(n, m) ==
  /\ toml[n] # Absent /\ toml[m] = Absent /\ m \notin confs
  /\ toml' = [toml EXCEPT ![m] = toml[n], ![n] = Absent]
  /\ confs' = IF n \in confs THEN (confs \ {n}) \cup {m} ELSE confs
  /\ checked' = [checked EXCEPT ![m] = checked[n], ![n] = "no"]
  /\ Writes({n, m})
  /\ UNCHANGED creates

-----------------------------------------------------------------------------

Init ==
  /\ toml = [n \in Names |-> Absent]
  /\ confs = {}
  /\ pc = [c \in Clients |-> "idle"]
  /\ who = [c \in Clients |-> NoName]
  /\ pin = [c \in Clients |-> NoPort]
  /\ todo = [c \in Clients |-> {}]
  /\ seen = [c \in Clients |-> {}]
  /\ missed = [c \in Clients |-> {}]
  /\ checked = [n \in Names |-> "no"]

CreateStep(c) ==
  \/ \E n \in Names : CreateBegin(c, n)
  \/ ListTomls(c) \/ ScanToml(c)
  \/ AssignPin(c) \/ AssignFresh(c) \/ AssignFails(c)
  \/ WriteProxy(c) \/ ProvisionFails(c)
  \/ WriteConf(c) \/ LeaveConf(c)

Next ==
  \/ \E c \in Clients : CreateStep(c)
  \/ \E n \in Names, f \in ForceFlags : New(n, f)
  \/ \E n \in Names, p \in Pins : PinPort(n, p)
  \/ \E n \in Names : RegenConf(n) \/ Remove(n) \/ Unarchive(n)
  \/ \E n, m \in Names : Rename(n, m)

Spec == Init /\ [][Next]_vars

-----------------------------------------------------------------------------
(* Properties.                                                             *)

TomlPorts == {Absent, NoPort, DefaultPort} \cup Pins \cup HttpPorts

\* The types; what create assigns has both its ports inside the range.
TypeOK ==
  /\ toml \in [Names -> TomlPorts]
  /\ confs \in SUBSET Names
  /\ pc \in [Clients -> {"idle", "list", "scan", "provision", "conf"}]
  /\ who \in [Clients -> Names \cup {NoName}]
  /\ pin \in [Clients -> TomlPorts \ {Absent}]
  /\ todo \in [Clients -> SUBSET Names]
  /\ seen \in [Clients -> SUBSET Nat]
  /\ missed \in [Clients -> SUBSET Names]
  /\ checked \in [Names -> Checks]
  /\ \A c \in Clients : pc[c] # "idle" => who[c] \in Names

\* What the tomls of these names claim.
Claimed(names) == UNION {Pair(toml[n]) : n \in {m \in names : toml[m] # Absent}}

\* However creates, edits and removals interleave, two instances are given a
\* common port in these ways only: a create missed a toml written after it
\* had read or listed it (_assign_instance_ports has no lock), or it let a
\* port stand whose gevent port is another's http port (only the http port of
\* a toml is compared, instance.py:624).
ClaimsApart ==
  \A m, n \in Names :
    /\ m # n
    /\ checked[m] # "no" /\ checked[n] # "no"
    => /\ toml[m] # toml[n]
       /\ toml[m] + 1 = toml[n] => checked[m] = "kept"

\* The port create writes into the proxy block and into instance.conf, from
\* memory, is the one the toml records at that moment, although create read
\* and rewrote the toml steps before - unless somebody else wrote that toml in
\* between.
ConfRecordsClaim ==
  [][\A c \in Clients :
       (WriteProxy(c) \/ WriteConf(c)) /\ who[c] \notin missed[c]
         => pin[c] = toml[who[c]]]_vars

\* create says "port range exhausted" only when no pair of the range is free,
\* or it missed a toml written after it had read or listed it.
ExhaustedIsTrue ==
  [][\A c \in Clients : AssignFails(c) /\ missed[c] = {} =>
       \A n \in HttpPorts : ~PairFree(n, Claimed(Names \ {who[c]}))]_vars

=============================================================================
