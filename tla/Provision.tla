------------------------------ MODULE Provision ------------------------------
(***************************************************************************)
(* What an instance consists of, and the commands that build it, move it   *)
(* and take it apart: create, archive, unarchive, delete and rename.  Each *)
(* is a fixed sequence of steps over git, Postgres and the file system; a  *)
(* tool may fail or the command be killed at any of them, and nothing is   *)
(* rolled back.  Ports are the subject of PortAlloc.  Each instance has one *)
(* repository of its own, the workspace has a proxy.                       *)
(*                                                                         *)
(* One command runs at a time; Odoo may be started, used and stopped between *)
(* any two of its steps.                                                   *)
(***************************************************************************)
EXTENDS Naturals, FiniteSets

CONSTANTS
  Names,      \* instance names, which are also the names of their databases
  Works,      \* pieces of work users put into a database
  Templated,  \* whether instances may name a template database
  Faults,     \* what goes wrong: "tool", "crash"
  MaxCommands, \* bound: how many commands are begun
  None        \* nothing there

\* "tool": git, uv or a Postgres command fails.  "crash": the command is
\* killed between two steps, except those of a rename.
ASSUME FaultsAssumption == Faults \subseteq {"tool", "crash"}

ASSUME TemplatedAssumption == Templated \subseteq BOOLEAN
ASSUME CommandsAssumption == MaxCommands \in Nat

Blank == "blank"    \* a database createdb made, without a table
Tables == "tables"  \* one with tables and no work: a clone of the template,
                    \* one that Odoo made, one that was restored in part
Broken == "broken"  \* a dump file that pg_dump did not finish
Contents == {Blank, Tables} \cup Works
Dumps == Contents \cup {Broken}

Archives == [db : Names, tmpl : BOOLEAN, dump : Dumps \cup {None}]

ASSUME NoneAssumption == None \notin Names \cup Dumps \cup Archives
ASSUME WorksAssumption == Works \cap {Blank, Tables, Broken} = {}

VARIABLES
  dirs,     \* names with a directory in instances/
  toml,     \* per name, the database its instance.toml names
  tmpl,     \* names whose instance.toml names a template
  wt,       \* names whose directory holds its worktrees
  reg,      \* per name, the instance whose worktrees git has on record there
  db,       \* per database name, what is in it
  dump,     \* per name, what instances/<name>/db.dump holds
  arch,     \* per name, what _archive/<name> holds
  conf,     \* names with an instance.conf
  proxy,    \* names with a proxy block
  running,  \* per name, the database its Odoo was started on, if it runs
  pc,       \* the next step of the command under way
  name,     \* the instance it is for
  to,       \* rename: the new name
  mode,     \* archive and unarchive: what to discard
  begun,    \* how many commands were begun
  made,     \* history: the work users have put into databases
  given,    \* history: the work whose loss a user has agreed to
  exposed,  \* history: work put where a command no longer looks, or overwritten
  remade    \* history: databases Odoo made behind the back of a command

files == <<dirs, toml, tmpl, dump, conf>>
git == <<wt, reg>>
job == <<pc, name, to, mode, begun>>
ghosts == <<made, given, exposed, remade>>
vars == <<dirs, toml, tmpl, wt, reg, db, dump, arch, conf, proxy, running,
          pc, name, to, mode, begun, made, given, exposed, remade>>

Idle == pc = "idle"

Begin(n, step) ==
  /\ Idle
  /\ begun < MaxCommands
  /\ begun' = begun + 1
  /\ pc' = step /\ name' = n

Continue(step) == pc' = step /\ UNCHANGED <<name, to, mode, begun>>

Finish ==
  /\ pc' = "idle" /\ name' = None /\ to' = None /\ mode' = "all"
  /\ UNCHANGED begun

-----------------------------------------------------------------------------
(* create, on its own or as part of unarchive (then an archive is there    *)
(* and "to" names it).                                                     *)

\* owm create --toml-only.
New(n, t) ==
  /\ Idle
  /\ toml[n] = None
  /\ dirs' = dirs \cup {n}
  /\ toml' = [toml EXCEPT ![n] = n]
  /\ tmpl' = IF t THEN tmpl \cup {n} ELSE tmpl \ {n}
  /\ UNCHANGED <<git, db, dump, arch, conf, proxy, running, job, ghosts>>

BeginCreate(n) ==
  /\ Begin(n, "worktrees")
  /\ toml[n] # None
  /\ UNCHANGED <<files, git, db, arch, proxy, running, to, mode, ghosts>>

\* create_worktree: a directory that exists counts as the worktree; git
\* refuses a path it has on record and does not find.
AddWorktrees ==
  /\ pc = "worktrees"
  /\ name \in wt \/ reg[name] = None
  /\ wt' = wt \cup {name}
  /\ reg' = IF name \in wt THEN reg ELSE [reg EXCEPT ![name] = name]
  /\ Continue("venv")
  /\ UNCHANGED <<files, db, arch, proxy, running, ghosts>>

ProvisionVenv ==
  /\ pc = "venv"
  /\ Continue("database")
  /\ UNCHANGED <<files, git, db, arch, proxy, running, ghosts>>

\* create_db: a database that exists is used as it is.
CreateDb ==
  /\ pc = "database"
  /\ db' = IF db[toml[name]] # None THEN db
           ELSE [db EXCEPT ![toml[name]] = IF name \in tmpl THEN Tables ELSE Blank]
  /\ remade' = remade \ {toml[name]}
  /\ Continue("configure")
  /\ UNCHANGED <<files, git, arch, proxy, running, made, given, exposed>>

Configure ==
  /\ pc = "configure"
  /\ proxy' = proxy \cup {name}
  /\ Continue("conf")
  /\ UNCHANGED <<files, git, db, arch, running, ghosts>>

\* instance.conf, unless the one that is there is the user's; unarchive goes on
\* to the dump.
WriteConf ==
  /\ pc = "conf"
  /\ conf' = conf \cup {name}
  /\ IF to = None THEN Finish
     ELSE Continue(IF arch[name].dump = None THEN "discard" ELSE "restore")
  /\ UNCHANGED <<dirs, toml, tmpl, dump, git, db, arch, proxy, running, ghosts>>

-----------------------------------------------------------------------------
(* unarchive.                                                              *)

BeginUnarchive(n, what) ==
  /\ Begin(n, "unpack")
  /\ arch[n] # None /\ n \notin dirs
  /\ dirs' = dirs \cup {n}
  /\ to' = n /\ mode' = what
  /\ UNCHANGED <<toml, tmpl, dump, conf, git, db, arch, proxy, running, ghosts>>

Unpack ==
  /\ pc = "unpack"
  /\ toml' = [toml EXCEPT ![name] = arch[name].db]
  /\ tmpl' = IF arch[name].tmpl THEN tmpl \cup {name} ELSE tmpl \ {name}
  /\ Continue("worktrees")
  /\ UNCHANGED <<dirs, dump, conf, git, db, arch, proxy, running, ghosts>>

\* pg_restore --exit-on-error without --clean: only into an empty database.
Restorable == db[toml[name]] = Blank /\ arch[name].dump # Broken

Restore ==
  /\ pc = "restore" /\ Restorable
  /\ db' = [db EXCEPT ![toml[name]] = arch[name].dump]
  /\ given' = given \ {arch[name].dump}
  /\ exposed' = exposed \ {arch[name].dump}
  /\ Continue("discard")
  /\ UNCHANGED <<files, git, arch, proxy, running, made, remade>>

\* The end of unarchive: with --discard the archive goes.
Discard ==
  /\ pc = "discard"
  /\ arch' = IF mode = "discard" THEN [arch EXCEPT ![name] = None] ELSE arch
  /\ Finish
  /\ UNCHANGED <<files, git, db, proxy, running, ghosts>>

-----------------------------------------------------------------------------
(* archive and delete.                                                     *)

\* The CLI refuses while the instance runs; the MCP tools do not look.
Stopped(n, mcp) == mcp \/ running[n] = None

\* What the caller agrees to lose: "db" with --discard-db, "all" with
\* discard_artifacts, which only the Python function offers, and with delete.
Condemned(n, what) ==
  Works \cap CASE what = "keep" -> {}
              [] what = "db"   -> {db[toml[n]]}
              [] what = "all"  -> {db[toml[n]], dump[n]}

BeginArchive(n, what, mcp) ==
  /\ Begin(n, IF what = "keep" THEN "dump" ELSE "drop")
  /\ toml[n] # None /\ arch[n] = None
  /\ Stopped(n, mcp)
  /\ mode' = what
  /\ given' = given \cup Condemned(n, what)
  /\ UNCHANGED <<files, git, db, arch, proxy, running, to, made, exposed, remade>>

\* The dump that a failed archive has left in the directory is written over.
Overwritten == (Works \cap {dump[name]}) \ {db[toml[name]]}

\* Mutant of Dump: pg_dump is run with check=False.
DumpUnchecked ==
  /\ pc = "dump"
  /\ db[toml[name]] # None
  /\ \E content \in {db[toml[name]], Broken} : dump' = [dump EXCEPT ![name] = content]
  /\ exposed' = exposed \cup Overwritten
  /\ Continue("drop")
  /\ UNCHANGED <<dirs, toml, tmpl, conf, git, db, arch, proxy, running, made, given, remade>>

Dump ==
  /\ pc = "dump"
  /\ db[toml[name]] # None
  /\ dump' = [dump EXCEPT ![name] = db[toml[name]]]
  /\ exposed' = exposed \cup Overwritten
  /\ Continue("drop")
  /\ UNCHANGED <<dirs, toml, tmpl, conf, git, db, arch, proxy, running, made, given, remade>>

\* Somebody is connected to the database.
InUse(d) == \E n \in Names : running[n] = d

\* dropdb, which fails on a database that is missing or in use.
DropArchived ==
  /\ pc = "drop"
  /\ db[toml[name]] # None /\ ~InUse(toml[name])
  /\ db' = [db EXCEPT ![toml[name]] = None]
  /\ remade' = remade \ {toml[name]}
  /\ Continue("detach")
  /\ UNCHANGED <<files, git, arch, proxy, running, made, given, exposed>>

\* remove_worktree: nothing if the directory is gone; git refuses one it has
\* no record of.
Removable(n) == n \in wt => reg[n] = n

Detach ==
  /\ wt' = wt \ {name}
  /\ reg' = IF name \in wt THEN [reg EXCEPT ![name] = None] ELSE reg

DetachArchived ==
  /\ pc = "detach"
  /\ Removable(name)
  /\ Detach
  /\ Continue("unproxy")
  /\ UNCHANGED <<files, db, arch, proxy, running, ghosts>>

\* Mutant of UnproxyArchived: the block is looked for under another name.
UnproxyMisses ==
  /\ pc = "unproxy"
  /\ Continue("move")
  /\ UNCHANGED <<files, git, db, arch, proxy, running, ghosts>>

UnproxyArchived ==
  /\ pc = "unproxy"
  /\ proxy' = proxy \ {name}
  /\ Continue("move")
  /\ UNCHANGED <<files, git, db, arch, running, ghosts>>

\* The directory of n is no more, or no longer n's.
DropDirectory(n) ==
  /\ dirs' = dirs \ {n}
  /\ toml' = [toml EXCEPT ![n] = None]
  /\ tmpl' = tmpl \ {n}
  /\ dump' = [dump EXCEPT ![n] = None]
  /\ conf' = conf \ {n}

MoveToArchive ==
  /\ pc = "move"
  /\ arch' = [arch EXCEPT ![name] =
       [db |-> toml[name], tmpl |-> name \in tmpl,
        dump |-> IF mode = "all" THEN None ELSE dump[name]]]
  /\ DropDirectory(name)
  /\ Finish
  /\ UNCHANGED <<git, db, proxy, running, ghosts>>

\* delete --force, or confirmed.
BeginDelete(n, mcp) ==
  /\ Begin(n, "dDetach")
  /\ toml[n] # None /\ Stopped(n, mcp)
  /\ given' = given \cup Condemned(n, "all")
  /\ UNCHANGED <<files, git, db, arch, proxy, running, to, mode, made, exposed, remade>>

DetachDeleted ==
  /\ pc = "dDetach"
  /\ Removable(name)
  /\ Detach
  /\ Continue("dDrop")
  /\ UNCHANGED <<files, db, arch, proxy, running, ghosts>>

\* Mutant of DropDeleted: dropdb is run with check=False.
DropDeletedOrSkip ==
  /\ pc = "dDrop"
  /\ db' = IF InUse(toml[name]) THEN db ELSE [db EXCEPT ![toml[name]] = None]
  /\ Continue("dUnproxy")
  /\ UNCHANGED <<files, git, arch, proxy, running, ghosts>>

DropDeleted ==
  /\ pc = "dDrop"
  /\ db[toml[name]] # None /\ ~InUse(toml[name])
  /\ db' = [db EXCEPT ![toml[name]] = None]
  /\ remade' = remade \ {toml[name]}
  /\ Continue("dUnproxy")
  /\ UNCHANGED <<files, git, arch, proxy, running, made, given, exposed>>

UnproxyDeleted ==
  /\ pc = "dUnproxy"
  /\ proxy' = proxy \ {name}
  /\ Continue("dRemove")
  /\ UNCHANGED <<files, git, db, arch, running, ghosts>>

RemoveDirectory ==
  /\ pc = "dRemove"
  /\ DropDirectory(name)
  /\ Finish
  /\ UNCHANGED <<git, db, arch, proxy, running, ghosts>>

-----------------------------------------------------------------------------
(* rename.  The new name is one without a directory: shutil.move would put *)
(* the old directory inside an existing one.                               *)

BeginRename(n, m, mcp) ==
  /\ Begin(n, "rDb")
  /\ toml[n] # None /\ m \notin dirs /\ Stopped(n, mcp)
  /\ to' = m
  /\ UNCHANGED <<files, git, db, arch, proxy, running, mode, ghosts>>

\* Connections are terminated first; ALTER DATABASE fails if the database is
\* missing or the new name is taken.
RenameDb ==
  /\ pc = "rDb"
  /\ db[toml[name]] # None /\ db[to] = None
  /\ db' = [db EXCEPT ![to] = db[toml[name]], ![toml[name]] = None]
  /\ remade' = remade \ {toml[name]}
  /\ Continue("rToml")
  /\ UNCHANGED <<files, git, arch, proxy, running, made, given, exposed>>

\* Mutant of PatchToml: the pattern does not match, the toml stays.
PatchMisses ==
  /\ pc = "rToml"
  /\ Continue("rMove")
  /\ UNCHANGED <<files, git, db, arch, proxy, running, ghosts>>

PatchToml ==
  /\ pc = "rToml"
  /\ toml' = [toml EXCEPT ![name] = to]
  /\ Continue("rMove")
  /\ UNCHANGED <<dirs, tmpl, dump, conf, git, db, arch, proxy, running, ghosts>>

Moved(S) == IF name \in S THEN (S \ {name}) \cup {to} ELSE S \ {to}

\* shutil.move of the directory; git is not told, and keeps its worktrees on
\* record where they were.
MoveDirectory ==
  /\ pc = "rMove"
  /\ dirs' = (dirs \ {name}) \cup {to}
  /\ toml' = [toml EXCEPT ![to] = toml[name], ![name] = None]
  /\ dump' = [dump EXCEPT ![to] = dump[name], ![name] = None]
  /\ running' = [running EXCEPT ![to] = running[name], ![name] = None]
  /\ tmpl' = Moved(tmpl) /\ conf' = Moved(conf) /\ wt' = Moved(wt)
  /\ reg' = [p \in Names |-> IF reg[p] = name THEN to ELSE reg[p]]
  /\ Continue("rProxy")
  /\ UNCHANGED <<db, arch, proxy, ghosts>>

MoveProxy ==
  /\ pc = "rProxy"
  /\ proxy' = (proxy \ {name}) \cup {to}
  /\ Finish
  /\ UNCHANGED <<files, git, db, arch, running, ghosts>>

-----------------------------------------------------------------------------
(* Failure, and Odoo.                                                      *)

Renaming == pc \in {"rDb", "rToml", "rMove", "rProxy"}

\* What the tool at hand refuses.
Refused ==
  \/ pc = "worktrees" /\ name \notin wt /\ reg[name] # None
  \/ pc = "restore" /\ ~Restorable
  \/ pc \in {"drop", "dDrop"} /\ (db[toml[name]] = None \/ InUse(toml[name]))
  \/ pc \in {"detach", "dDetach"} /\ ~Removable(name)
  \/ pc = "rDb" /\ (db[toml[name]] = None \/ db[to] # None)
  \/ pc = "conf" /\ name \in conf   \* a conf without a marker

ToolSteps == {"worktrees", "venv", "database", "restore", "dump", "drop", "detach",
              "dDetach", "dDrop", "rDb"}

\* From here on the command takes for granted that it has seen all the work in
\* the database, or need not see it.
PastDump == pc \in {"drop", "dDetach", "dDrop"}

\* The command ends where it is, and what is still in the database is safe.
Fail ==
  /\ ~Idle
  /\ \/ Refused
     \/ pc \in ToolSteps /\ "tool" \in Faults
     \/ ~Renaming /\ "crash" \in Faults
  /\ Finish
  /\ exposed' = IF PastDump THEN exposed \ {db[toml[name]]} ELSE exposed
  /\ UNCHANGED <<files, git, db, arch, proxy, running, made, given, remade>>

\* pg_dump opens its file before it looks for the database, and may fail or be
\* killed with part of it written.
DumpBreaks ==
  /\ pc = "dump"
  /\ db[toml[name]] = None \/ Faults # {}
  /\ dump' = [dump EXCEPT ![name] = Broken]
  /\ exposed' = exposed \cup Overwritten
  /\ Finish
  /\ UNCHANGED <<dirs, toml, tmpl, conf, git, db, arch, proxy, running, made, given, remade>>

\* pg_restore fails, or is killed, with part of the tables made.
RestoreBreaks ==
  /\ pc = "restore"
  /\ db[toml[name]] = Blank
  /\ arch[name].dump = Broken \/ Faults # {}
  /\ db' = [db EXCEPT ![toml[name]] = Tables]
  /\ Finish
  /\ UNCHANGED <<files, git, arch, proxy, running, ghosts>>

\* The steps at which the database of the instance is gone, or has its new
\* name, and the toml still names it.
Dropped == pc \in {"detach", "unproxy", "move", "dUnproxy", "dRemove", "rToml"}

\* Odoo keeps to the database it was started on, whatever becomes of its
\* instance.  It makes one that is missing (odoo-bin -d).
Start(n) ==
  /\ running[n] = None /\ n \in conf \cap wt /\ toml[n] # None
  /\ running' = [running EXCEPT ![n] = toml[n]]
  /\ db' = IF db[toml[n]] # None THEN db ELSE [db EXCEPT ![toml[n]] = Tables]
  /\ remade' = IF db[toml[n]] = None /\ Dropped /\ n = name THEN remade \cup {toml[n]}
               ELSE remade
  /\ UNCHANGED <<files, git, arch, proxy, job, made, given, exposed>>

Stop(n) ==
  /\ running[n] # None
  /\ running' = [running EXCEPT ![n] = None]
  /\ UNCHANGED <<files, git, db, arch, proxy, job, ghosts>>

\* Somebody puts work into a fresh database.
Work(n, w) ==
  /\ running[n] # None /\ w \notin made
  /\ db[running[n]] \in {Blank, Tables}
  /\ db' = [db EXCEPT ![running[n]] = w]
  /\ made' = made \cup {w}
  /\ exposed' = IF PastDump /\ running[n] = toml[name] THEN exposed \cup {w} ELSE exposed
  /\ UNCHANGED <<files, git, arch, proxy, running, job, given, remade>>

-----------------------------------------------------------------------------

Init ==
  /\ dirs = {} /\ toml = [n \in Names |-> None] /\ tmpl = {}
  /\ wt = {} /\ reg = [n \in Names |-> None]
  /\ db = [n \in Names |-> None] /\ dump = [n \in Names |-> None]
  /\ arch = [n \in Names |-> None]
  /\ conf = {} /\ proxy = {} /\ running = [n \in Names |-> None]
  /\ pc = "idle" /\ name = None /\ to = None /\ mode = "all" /\ begun = 0
  /\ made = {} /\ given = {} /\ exposed = {} /\ remade = {}

CommandStep ==
  \/ AddWorktrees \/ ProvisionVenv \/ CreateDb \/ Configure \/ WriteConf
  \/ Unpack \/ Restore \/ Discard
  \/ Dump \/ DropArchived \/ DetachArchived \/ UnproxyArchived \/ MoveToArchive
  \/ DetachDeleted \/ DropDeleted \/ UnproxyDeleted \/ RemoveDirectory
  \/ RenameDb \/ PatchToml \/ MoveDirectory \/ MoveProxy
  \/ Fail \/ DumpBreaks \/ RestoreBreaks

Next ==
  \/ CommandStep
  \/ \E n \in Names, t \in Templated : New(n, t)
  \/ \E n \in Names : BeginCreate(n)
  \/ \E n \in Names, what \in {"keep", "discard"} : BeginUnarchive(n, what)
  \/ \E mcp \in BOOLEAN, n \in Names :
       \/ \E what \in {"keep", "db", "all"} : BeginArchive(n, what, mcp)
       \/ BeginDelete(n, mcp)
       \/ \E m \in Names : BeginRename(n, m, mcp)
  \/ \E n \in Names : Start(n) \/ Stop(n)
  \/ \E n \in Names, w \in Works : Work(n, w)

Spec == Init /\ [][Next]_vars

-----------------------------------------------------------------------------
(* Properties.                                                             *)

Steps == ToolSteps \cup {"idle", "configure", "conf", "unpack", "discard", "unproxy", "move",
                         "dUnproxy", "dRemove", "rToml", "rMove", "rProxy"}

TypeOK ==
  /\ \A s \in {dirs, tmpl, wt, conf, proxy} : s \subseteq Names
  /\ made \subseteq Works
  /\ toml \in [Names -> Names \cup {None}]
  /\ db \in [Names -> Contents \cup {None}] /\ dump \in [Names -> Dumps \cup {None}]
  /\ arch \in [Names -> Archives \cup {None}]
  /\ running \in [Names -> Names \cup {None}] /\ reg \in [Names -> Names \cup {None}]
  /\ begun \in 0 .. MaxCommands
  /\ pc \in Steps /\ mode \in {"keep", "db", "discard", "all"}
  /\ name \in Names \cup {None} /\ to \in Names \cup {None}
  /\ given \subseteq Works /\ exposed \subseteq Works /\ remade \subseteq Names
  /\ pc \notin {"idle", "unpack"} /\ ~(pc = "rProxy") => toml[name] # None

Kept(w) == \E n \in Names : \/ w \in {db[n], dump[n]}
                            \/ arch[n] # None /\ arch[n].dump = w

\* Work is in a database, a dump or an archive as long as nobody has agreed
\* to lose it: whatever fails, and wherever, between dumping a database,
\* dropping it, moving the dump, restoring it and discarding the archive; but
\* for work put into the database after the command had dumped it or had been
\* told not to (archive.py:204-207, operations.py:105-106), and for a dump left
\* behind by an archive that failed, when the next one writes over it
\* (archive.py:203).
NoSilentLoss ==
  \A w \in made \ (given \cup exposed) : Kept(w)

\* Two instances never share a database, so none can drop the other's.
OneInstancePerDatabase ==
  ~Renaming => \A m, n \in Names : m # n /\ toml[m] # None => toml[m] # toml[n]

\* Every database belongs to an instance, so a name that is free in instances/
\* is free in Postgres, and create does not find somebody's old database; but for
\* one that Odoo made because it was started, on the instance of a command
\* under way, between the drop or the rename of its database and the end of
\* its toml.
NoOrphanDatabase ==
  ~Renaming => \A d \in Names : db[d] # None =>
    d \in remade \/ \E n \in Names : toml[n] = d

\* A proxy block stands for an instance that is there, so it never leads to a
\* port that has been given to another.
NoGhostProxy == pc # "rProxy" => proxy \subseteq dirs

=============================================================================
