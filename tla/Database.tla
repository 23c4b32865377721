------------------------------ MODULE Database ------------------------------
(***************************************************************************)
(* The databases of instances and the commands that act on them: create,   *)
(* db-reset, install, db-dump, db-restore, template create and the sync    *)
(* from a template.  A command is a sequence of Postgres tools, each with  *)
(* checks that may be out of date when the next one runs; nothing is       *)
(* locked and nothing rolled back.  Several front ends work at once, and   *)
(* users run Odoo meanwhile.                                               *)
(*                                                                         *)
(* Postgres itself is external: it refuses to drop or to clone a database  *)
(* somebody is connected to, and to create one that is there.              *)
(***************************************************************************)
CONSTANTS
  Names,     \* instances; the database of one has its name
  Templates, \* names of template databases
  Clients,   \* front-end processes, a command at a time each
  Modules,   \* Odoo modules
  Works,     \* pieces of work users put into a database
  Declared,  \* per instance, the modules its toml declares
  Base,      \* per instance, the template its toml names
  Mcp,       \* clients that are the MCP server: restore checks nothing there
  Faults,    \* what goes wrong: "tool" a Postgres tool or Odoo, "psql" a query,
             \* "odoo" answers but has left out modules it was to install
  Minutes,   \* minutes, by which dumps are named.  The clock is left out: any
             \* of them may be the present one
  Blank,     \* a database createdb made, without a table
  None       \* no database, or no file that could be restored

\* What Odoo has set up in a database, or a dump with it.
Contents == [mods : SUBSET Modules, work : SUBSET Works]
Skeleton == [mods |-> {}, work |-> {}]  \* its tables, or some of them

\* What a database holds; and a file, if pg_restore can read it.
Databases == Contents \cup {Blank, None}

ASSUME DatabaseAssumption ==
  /\ Names \cap Templates = {}
  /\ Declared \in [Names -> SUBSET Modules]
  /\ Base \in [Names -> Templates \cup {None}]
  /\ Mcp \subseteq Clients
  /\ Faults \subseteq {"tool", "psql", "odoo"}
  /\ None \notin Contents \cup Names \cup Minutes \cup {Blank}
  /\ Blank \notin Contents

VARIABLES
  db,      \* per database name, what it holds
  up,      \* per instance, its Odoo: "no", "boot" for an install, "owm" or
           \* "lost", one owm has no pid of
  dumps,   \* per instance and the file in _dumps
  backup,  \* per instance, /tmp/owm_backup_<instance>_<template>.dump
  pc,      \* per client, the next step of its command
  inst,    \* per client, the instance it is for
  arg,     \* per client: the template to make, or the minute of the dump
  todo,    \* per client: the modules to install; once Odoo has answered,
           \* those it has left out, of which owm learns nothing
  out,     \* how the command of a calm client ended in the last step, if
           \* one did
  calm,    \* history, per client: nobody else was at its instance meanwhile
  made,    \* history: work users have put into databases
  given,   \* history: work whose loss a user has agreed to
  spoiled  \* history: work that owm itself took from where it was

jobs == <<pc, inst, arg, todo, out, calm>>
work == <<made, given, spoiled>>
vars == <<db, up, dumps, backup, jobs, work>>

ResetSteps == {"check", "drop", "clone"}
InstallSteps == {"query", "boot", "load", "halt"}
SyncSteps == {"save", "wipe", "fill", "empty", "undo"}
Steps == {"idle", "look", "make", "write", "read", "probe", "copy"}
         \cup ResetSteps \cup InstallSteps \cup SyncSteps

WorkOf(x) == IF x \in Contents THEN x.work ELSE {}
ModsOf(x) == IF x \in Contents THEN x.mods ELSE {}

\* What a client's command is to do next; how it ends.
Goto(c, step) ==
  /\ pc' = [pc EXCEPT ![c] = step]
  /\ out' = None
  /\ UNCHANGED <<inst, arg, todo, calm>>

Return(c, how) ==
  /\ pc' = [pc EXCEPT ![c] = "idle"]
  /\ out' = IF calm[c] THEN how ELSE None
  /\ inst' = [inst EXCEPT ![c] = None]
  /\ arg' = [arg EXCEPT ![c] = None]
  /\ todo' = [todo EXCEPT ![c] = {}]
  /\ calm' = [calm EXCEPT ![c] = FALSE]

Begin(c, n, step, a) ==
  /\ pc[c] = "idle"
  /\ pc' = [pc EXCEPT ![c] = step]
  /\ inst' = [inst EXCEPT ![c] = n]
  /\ arg' = [arg EXCEPT ![c] = a]
  /\ out' = None
  /\ calm' = [x \in Clients |->
                x = c /\ up[n] = "no" /\ \A y \in Clients \ {c} : pc[y] = "idle"]
  /\ UNCHANGED todo

\* A step of client c at instance n.
At(c, step, n) == pc[c] = step /\ inst[c] = n

\* A sync of n has its backup and is about to drop the database.
Wiping(n) == \E x \in Clients : At(x, "wipe", n)

\* The work that is gone where pg_dump writes a new file over an old one of n:
\* what no database has, or only one that a sync may be about to drop.
Overwritten(n, old, new) ==
  WorkOf(old) \ (WorkOf(new) \cup
     IF Wiping(n) THEN {} ELSE UNION {WorkOf(db[d]) : d \in Names \cup Templates})

\* _run_pg_command and the like: the tool fails for a reason of its own.
ToolFails == "tool" \in Faults

\* _is_running, and list_running_instances of the MCP server.
IsRunning(n) == up[n] \in {"boot", "owm"}

\* _has_active_connections: what the query answers; none when psql fails.
HasActiveConnections(n) ==
  {up[n] # "no"} \cup (IF "psql" \in Faults THEN {FALSE} ELSE {})

\* What becomes of a database Odoo is started on: it makes the one missing.
Opened(n) == [db EXCEPT ![n] = IF @ = None THEN Skeleton ELSE @]

\* _createdb of d, from template t unless that is None: in which cases
\* Postgres does it, and what it makes.
CanCreate(d, t) ==
  /\ db[d] = None
  /\ t # None => db[t] # None /\ (t \in Names => up[t] = "no")

Created(d, t) == [db EXCEPT ![d] = IF t = None THEN Blank ELSE db[t]]

-----------------------------------------------------------------------------
(* create_db and db-reset.  Both go on to install what the toml declares.  *)

BeginCreate(c, n) ==
  /\ Begin(c, n, "look", None)
  /\ UNCHANGED <<db, up, dumps, backup, work>>

\* _database_exists: a query that fails counts as "no".
LookForDb(c, n) ==
  /\ At(c, "look", n)
  /\ \E seen \in {db[n] # None} \cup (IF "psql" \in Faults THEN {FALSE} ELSE {}) :
       Goto(c, IF seen THEN "query" ELSE "make")
  /\ UNCHANGED <<db, up, dumps, backup, work>>

\* --no-install ends here ("bare"), and does so in db-reset.
MakeDb(c, n) ==
  /\ At(c, "make", n)
  /\ \/ /\ CanCreate(n, Base[n])
        /\ db' = Created(n, Base[n])
        /\ Goto(c, "query") \/ Return(c, "bare")
     \/ /\ ~CanCreate(n, Base[n])
        /\ Return(c, "refused") /\ UNCHANGED db
     \/ ToolFails /\ Return(c, "failed") /\ UNCHANGED db
  /\ UNCHANGED <<up, dumps, backup, work>>

\* Refused without a template, and where owm knows of an Odoo.
BeginReset(c, n) ==
  /\ Base[n] # None /\ ~IsRunning(n)
  /\ Begin(c, n, "check", None)
  /\ UNCHANGED <<db, up, dumps, backup, work>>

CheckConnections(c, n) ==
  /\ At(c, "check", n)
  /\ \E seen \in HasActiveConnections(n) :
       IF seen THEN Return(c, "refused") ELSE Goto(c, "drop")
  /\ UNCHANGED <<db, up, dumps, backup, work>>

\* Mutants of DropDb: without --if-exists; with --force.
DropDbThere(c, n) ==
  /\ At(c, "drop", n)
  /\ \/ /\ up[n] = "no" /\ db[n] # None
        /\ db' = [db EXCEPT ![n] = None]
        /\ given' = given \cup
             (WorkOf(db[n]) \ UNION {WorkOf(dumps[n][i]) : i \in Minutes})
        /\ Goto(c, "clone")
     \/ (up[n] # "no" \/ db[n] = None) /\ Return(c, "refused") /\ UNCHANGED <<db, given>>
  /\ UNCHANGED <<up, dumps, backup, made, spoiled>>

DropDbForce(c, n) ==
  /\ At(c, "drop", n)
  /\ db' = [db EXCEPT ![n] = None]
  /\ given' = given \cup
       (WorkOf(db[n]) \ UNION {WorkOf(dumps[n][i]) : i \in Minutes})
  /\ Goto(c, "clone")
  /\ UNCHANGED <<up, dumps, backup, made, spoiled>>

\* dropdb --if-exists.  Whoever resets a database gives up what it holds,
\* as far as no dump has it.
DropDb(c, n) ==
  /\ At(c, "drop", n)
  /\ \/ /\ up[n] = "no"
        /\ db' = [db EXCEPT ![n] = None]
        /\ given' = given \cup
             (WorkOf(db[n]) \ UNION {WorkOf(dumps[n][i]) : i \in Minutes})
        /\ Goto(c, "clone")
     \/ up[n] # "no" /\ Return(c, "refused") /\ UNCHANGED <<db, given>>
     \/ ToolFails /\ Return(c, "failed") /\ UNCHANGED <<db, given>>
  /\ UNCHANGED <<up, dumps, backup, made, spoiled>>

\* createdb --template.
CloneDb(c, n) ==
  /\ At(c, "clone", n)
  /\ \/ /\ CanCreate(n, Base[n])
        /\ db' = Created(n, Base[n])
        /\ Goto(c, "query") \/ Return(c, "bare")
     \/ /\ ~CanCreate(n, Base[n])
        /\ Return(c, "refused") /\ UNCHANGED db
     \/ ToolFails /\ Return(c, "failed") /\ UNCHANGED db
  /\ UNCHANGED <<up, dumps, backup, work>>

-----------------------------------------------------------------------------
(* install_instance_modules: owm install, and the end of create and reset. *)

BeginInstall(c, n) ==
  /\ Declared[n] # {}
  /\ Begin(c, n, "query", None)
  /\ UNCHANGED <<db, up, dumps, backup, work>>

\* Mutant of QueryInstalled: a query that fails finds nothing missing.
QueryTrusts(c, n) ==
  /\ At(c, "query", n)
  /\ IF Declared[n] \subseteq ModsOf(db[n]) \/ "psql" \in Faults
     THEN Return(c, "ok") ELSE Return(c, "refused")
  /\ UNCHANGED <<db, up, dumps, backup, work>>

\* _query_installed_modules, which answers "none" when psql fails; _read_pid.
QueryInstalled(c, n) ==
  /\ At(c, "query", n)
  /\ \E already \in {ModsOf(db[n])}
                    \cup (IF "psql" \in Faults THEN {{}} ELSE {}) :
       LET rest == Declared[n] \ already
       IN  \/ Declared[n] # {} /\ IsRunning(n) /\ Return(c, "refused")
           \/ /\ Declared[n] = {} \/ ~IsRunning(n)
              /\ rest = {}
              /\ Return(c, "ok")
           \/ /\ Declared[n] # {} /\ ~IsRunning(n)
              /\ rest # {}
              /\ pc' = [pc EXCEPT ![c] = "boot"]
              /\ todo' = [todo EXCEPT ![c] = rest]
              /\ out' = None
              /\ UNCHANGED <<inst, arg, calm>>
  /\ UNCHANGED <<db, up, dumps, backup, work>>

\* start_instance with init_modules: nothing is started, and so nothing
\* installed, where the Odoo of the instance is up; one owm has lost track of
\* has its port.
BootOdoo(c, n) ==
  /\ At(c, "boot", n)
  /\ \/ /\ up[n] = "no"
        /\ up' = [up EXCEPT ![n] = "boot"]
        /\ db' = Opened(n)
        /\ Goto(c, "load")
     \/ IsRunning(n) /\ Goto(c, "halt") /\ UNCHANGED <<db, up>>
     \/ up[n] = "lost" /\ Return(c, "refused") /\ UNCHANGED <<db, up>>
  /\ UNCHANGED <<dumps, backup, work>>

\* start_instance waits for any answer of Odoo's, an error too: whether it has
\* installed what it was to is not asked.
LoadModules(c, n) ==
  /\ At(c, "load", n)
  /\ \/ /\ up[n] = "boot"
        /\ \E done \in {todo[c]}
                       \cup (IF "odoo" \in Faults THEN SUBSET todo[c] ELSE {}) :
             /\ db' = [db EXCEPT ![n] = [mods |-> ModsOf(@) \cup done,
                                         work |-> WorkOf(@)]]
             /\ todo' = [todo EXCEPT ![c] = @ \ done]
        /\ pc' = [pc EXCEPT ![c] = "halt"]
        /\ out' = None
        /\ UNCHANGED <<inst, arg, calm>>
     \/ up[n] # "boot" /\ Return(c, "refused") /\ UNCHANGED db
     \/ ToolFails /\ Return(c, "failed") /\ UNCHANGED db
  /\ UNCHANGED <<up, dumps, backup, work>>

\* stop_instance, of whatever Odoo owm has on record.
HaltOdoo(c, n) ==
  /\ At(c, "halt", n)
  /\ up' = IF IsRunning(n) THEN [up EXCEPT ![n] = "no"] ELSE up
  /\ Return(c, "ok")
  /\ UNCHANGED <<db, dumps, backup, work>>

-----------------------------------------------------------------------------
(* db-dump and db-restore.                                                 *)

\* The name of the file is decided first, by the minute.
BeginDump(c, n, i) ==
  /\ Begin(c, n, "write", i)
  /\ UNCHANGED <<db, up, dumps, backup, work>>

\* pg_dump opens its file before it connects, whatever is in it by now.
WriteDump(c, n) ==
  /\ At(c, "write", n)
  /\ \/ /\ db[n] # None
        /\ dumps' = [dumps EXCEPT ![n][arg[c]] = db[n]]
        /\ Return(c, "ok")
     \/ /\ db[n] = None \/ ToolFails
        /\ dumps' = [dumps EXCEPT ![n][arg[c]] = None]
        /\ Return(c, "failed")
  /\ spoiled' = spoiled \cup
                 Overwritten(n, dumps[n][arg[c]], dumps'[n][arg[c]])
  /\ UNCHANGED <<db, up, backup, made, given>>

\* The command line looks whether Odoo runs, the MCP server does not.
BeginRestore(c, n) ==
  /\ c \in Mcp \/ ~IsRunning(n)
  /\ Begin(c, n, "read", None)
  /\ UNCHANGED <<db, up, dumps, backup, work>>

\* pg_restore --exit-on-error without --clean: stops at the first relation
\* that is there, and may fail half way.
ReadDump(c, n, i) ==
  /\ At(c, "read", n)
  /\ \/ /\ db[n] = Blank /\ dumps[n][i] # None
        /\ db' = [db EXCEPT ![n] = dumps[n][i]]
        /\ Return(c, "ok")
     \/ /\ db[n] # Blank \/ dumps[n][i] = None
        /\ Return(c, "refused") /\ UNCHANGED db
     \/ /\ ToolFails /\ db[n] = Blank
        /\ db' = [db EXCEPT ![n] = Skeleton]
        /\ Return(c, "failed")
  /\ UNCHANGED <<up, dumps, backup, work>>

-----------------------------------------------------------------------------
(* template create.                                                        *)

BeginTemplate(c, n, t) ==
  /\ ~IsRunning(n)
  /\ Begin(c, n, "probe", t)
  /\ UNCHANGED <<db, up, dumps, backup, work>>

ProbeSource(c, n) ==
  /\ At(c, "probe", n)
  /\ \E seen \in HasActiveConnections(n) :
       IF seen THEN Return(c, "refused") ELSE Goto(c, "copy")
  /\ UNCHANGED <<db, up, dumps, backup, work>>

CopyTemplate(c, n) ==
  /\ At(c, "copy", n)
  /\ \/ /\ CanCreate(arg[c], n)
        /\ db' = Created(arg[c], n)
        /\ Return(c, "ok")
     \/ ~CanCreate(arg[c], n) /\ Return(c, "refused") /\ UNCHANGED db
     \/ ToolFails /\ Return(c, "failed") /\ UNCHANGED db
  /\ UNCHANGED <<up, dumps, backup, work>>

-----------------------------------------------------------------------------
(* sync_db_from_template, of an instance that opts in.  Its dropdb has no  *)
(* --if-exists, and it looks at no connections.                            *)

BeginSync(c, n) ==
  /\ Base[n] # None
  /\ Begin(c, n, "save", None)
  /\ UNCHANGED <<db, up, dumps, backup, work>>

\* Mutant of SaveBackup: pg_dump without check=True.
SaveUnchecked(c, n) ==
  /\ At(c, "save", n)
  /\ backup' = [backup EXCEPT ![n] = IF ToolFails THEN None ELSE db[n]]
  /\ Goto(c, "wipe")
  /\ spoiled' = spoiled \cup Overwritten(n, backup[n], backup'[n])
  /\ UNCHANGED <<db, up, dumps, made, given>>

\* The path is the same for every sync of n from its template.
SaveBackup(c, n) ==
  /\ At(c, "save", n)
  /\ \/ /\ db[n] # None
        /\ backup' = [backup EXCEPT ![n] = db[n]]
        /\ Goto(c, "wipe")
     \/ /\ db[n] = None \/ ToolFails
        /\ backup' = [backup EXCEPT ![n] = None]
        /\ Return(c, "failed")
  /\ spoiled' = spoiled \cup Overwritten(n, backup[n], backup'[n])
  /\ UNCHANGED <<db, up, dumps, made, given>>

WipeDb(c, n) ==
  /\ At(c, "wipe", n)
  /\ \/ /\ db[n] # None /\ up[n] = "no"
        /\ db' = [db EXCEPT ![n] = None]
        /\ Goto(c, "fill")
     \/ /\ db[n] = None \/ up[n] # "no" \/ ToolFails
        /\ Goto(c, "empty") /\ UNCHANGED db
  /\ UNCHANGED <<up, dumps, backup, work>>

\* Whoever syncs gives up, if it works, what the backup holds.
FillDb(c, n) ==
  /\ At(c, "fill", n)
  /\ \/ /\ CanCreate(n, Base[n])
        /\ db' = Created(n, Base[n])
        /\ given' = given \cup WorkOf(backup[n])
        /\ Return(c, "ok")
     \/ /\ ~CanCreate(n, Base[n]) \/ ToolFails
        /\ Goto(c, "empty") /\ UNCHANGED <<db, given>>
  /\ UNCHANGED <<up, dumps, backup, made, spoiled>>

\* The except branch: an empty database, into which the backup goes.
EmptyDb(c, n) ==
  /\ At(c, "empty", n)
  /\ \/ /\ CanCreate(n, None)
        /\ db' = Created(n, None)
        /\ Goto(c, "undo")
     \/ /\ ~CanCreate(n, None) \/ ToolFails
        /\ Return(c, "failed") /\ UNCHANGED db
  /\ UNCHANGED <<up, dumps, backup, work>>

\* pg_restore, here without --exit-on-error.
UndoSync(c, n) ==
  /\ At(c, "undo", n)
  /\ \/ /\ db[n] = Blank /\ backup[n] # None
        /\ db' = [db EXCEPT ![n] = backup[n]]
        /\ Return(c, "restored")
     \/ /\ db[n] # Blank \/ backup[n] = None
        /\ Return(c, "failed") /\ UNCHANGED db
     \/ /\ ToolFails /\ db[n] = Blank
        /\ db' = [db EXCEPT ![n] = Skeleton]
        /\ Return(c, "failed")
  /\ UNCHANGED <<up, dumps, backup, work>>

-----------------------------------------------------------------------------
(* Users and their Odoo.                                                   *)

Disturb(n) ==
  /\ calm' = [c \in Clients |-> calm[c] /\ inst[c] # n]
  /\ out' = None
  /\ UNCHANGED <<pc, inst, arg, todo>>

StartOdoo(n, how) ==
  /\ up[n] = "no"
  /\ up' = [up EXCEPT ![n] = how]
  /\ db' = Opened(n)
  /\ Disturb(n)
  /\ UNCHANGED <<dumps, backup, work>>

StopOdoo(n) ==
  /\ up[n] # "no"
  /\ up' = [up EXCEPT ![n] = "no"]
  /\ Disturb(n)
  /\ UNCHANGED <<db, dumps, backup, work>>

\* What is put in once a sync has its backup is not in that.
Work(n, w) ==
  /\ up[n] \in {"owm", "lost"}
  /\ db[n] \in Contents
  /\ w \notin made
  /\ db' = [db EXCEPT ![n].work = @ \cup {w}]
  /\ made' = made \cup {w}
  /\ spoiled' = spoiled \cup (IF Wiping(n) THEN {w} ELSE {})
  /\ out' = None
  /\ UNCHANGED <<up, dumps, backup, pc, inst, arg, todo, calm, given>>

-----------------------------------------------------------------------------
Init ==
  /\ db \in [Names \cup Templates -> {None, Skeleton}]
  /\ \A n \in Names : db[n] = None
  /\ up = [n \in Names |-> "no"]
  /\ dumps = [n \in Names |-> [i \in Minutes |-> None]]
  /\ backup = [n \in Names |-> None]
  /\ pc = [c \in Clients |-> "idle"]
  /\ inst = [c \in Clients |-> None]
  /\ arg = [c \in Clients |-> None]
  /\ todo = [c \in Clients |-> {}]
  /\ out = None
  /\ calm = [c \in Clients |-> FALSE]
  /\ made = {}
  /\ given = {}
  /\ spoiled = {}

Client(c, n) ==
  \/ BeginCreate(c, n) \/ LookForDb(c, n) \/ MakeDb(c, n)
  \/ BeginReset(c, n) \/ CheckConnections(c, n) \/ DropDb(c, n) \/ CloneDb(c, n)
  \/ BeginInstall(c, n) \/ QueryInstalled(c, n)
  \/ BootOdoo(c, n) \/ LoadModules(c, n) \/ HaltOdoo(c, n)
  \/ \E i \in Minutes : BeginDump(c, n, i)
  \/ WriteDump(c, n)
  \/ BeginRestore(c, n) \/ \E i \in Minutes : ReadDump(c, n, i)
  \/ \E t \in Templates : BeginTemplate(c, n, t)
  \/ ProbeSource(c, n) \/ CopyTemplate(c, n)
  \/ BeginSync(c, n) \/ SaveBackup(c, n) \/ WipeDb(c, n) \/ FillDb(c, n)
  \/ EmptyDb(c, n) \/ UndoSync(c, n)

User(n) ==
  \/ \E how \in {"owm", "lost"} : StartOdoo(n, how)
  \/ StopOdoo(n)
  \/ \E w \in Works : Work(n, w)

Next ==
  \E n \in Names : User(n) \/ \E c \in Clients : Client(c, n)

Spec == Init /\ [][Next]_vars

-----------------------------------------------------------------------------
(* What is checked.                                                        *)

\* Every variable is of its type, and an idle client has no command.
TypeOK ==
  /\ db \in [Names \cup Templates -> Databases]
  /\ up \in [Names -> {"no", "boot", "owm", "lost"}]
  /\ dumps \in [Names -> [Minutes -> Databases]]
  /\ backup \in [Names -> Databases]
  /\ pc \in [Clients -> Steps]
  /\ inst \in [Clients -> Names \cup {None}]
  /\ arg \in [Clients -> Templates \cup Minutes \cup {None}]
  /\ todo \in [Clients -> SUBSET Modules]
  /\ out \in {"ok", "bare", "refused", "failed", "restored", None}
  /\ calm \in [Clients -> BOOLEAN]
  /\ made \subseteq Works /\ given \subseteq Works /\ spoiled \subseteq Works

\* What users have put into a database is in a database, in a dump or in the
\* backup of a sync, or its loss was agreed to, whichever tools fail at whatever
\* step (reset_db, sync_db_from_template), but for two things owm does not
\* guard against: a pg_dump over the file that has the only copy (a second sync
\* after a failed one, database.py:211; two dumps in a minute,
\* operations.py:274), and work put in while a sync goes from its backup to its
\* dropdb (database.py:213).
WorkIsSomewhere ==
  \A w \in made \ (given \cup spoiled) :
    \/ \E d \in Names \cup Templates : w \in WorkOf(db[d])
    \/ \E n \in Names : \/ \E i \in Minutes : w \in WorkOf(dumps[n][i])
                        \/ w \in WorkOf(backup[n])

\* Whatever a command looked at before, the database of an Odoo that is up is
\* not dropped, and loses neither a module nor work to a clone or a restore
\* (dropdb without --force after a check that is out of date).
NotUnderOdoo ==
  [][\A n \in Names :
       up[n] # "no" /\ db[n] # None =>
         /\ db'[n] # None
         /\ ModsOf(db[n]) \subseteq ModsOf(db'[n])
         /\ WorkOf(db[n]) \subseteq WorkOf(db'[n])]_vars

\* A reset can be repeated: where its template is there, no tool fails and
\* nobody is at its instance meanwhile, it is not refused, whatever an earlier
\* command has left behind (_dropdb has --if-exists, the drop comes first).
ResetRepeatable ==
  [][\A c \in Clients :
       /\ pc[c] \in ResetSteps \cup InstallSteps /\ calm[c]
       /\ db[Base[inst[c]]] # None
       /\ pc'[c] = "idle"
       => out' # "refused"]_vars

\* When create, reset or install says ok, and nobody else was at the
\* instance, all modules its toml declares are in its database but those Odoo
\* was started to install and left out, of which the ok says nothing
\* (_probe_http takes any answer, instance.py:159).  It holds also when the
\* query for what is installed failed (_query_installed_modules).
InstallComplete ==
  [][\A c \in Clients :
       /\ pc[c] \in InstallSteps /\ calm[c]
       /\ pc'[c] = "idle" /\ out' = "ok"
       => Declared[inst[c]] \ todo[c] \subseteq ModsOf(db'[inst[c]])]_vars

=============================================================================
