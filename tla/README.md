# A verification project for owm

owm (`src/owm/`, with a web dashboard under `dashboard/`) manages Odoo
development instances inside one workspace directory. Three front ends call the
same library functions: the command line (`cli.py`, a short-lived process per
command), the MCP server (`mcp.py`, one long-lived process) and the dashboard
(`dashboard/server.py`, one long-lived process with a thread pool). They share the
workspace on disk, the PostgreSQL databases, the bare git repositories, the TCP
ports and the process table. **They share no lock.** That is what most of this
project is about; the rest is about operations of several irreversible steps, any
of which may fail.

This directory holds TLA+ modules of the parts that can be checked, the TLC
configurations that check them on small instances, and proofs of the theorems
that hold for every instance, checked by TLAPS.

## Inventory

| Component (source) | State it keeps | Operations | What makes it correct |
|---|---|---|---|
| Instance lifecycle (`instance.py`, `adoption.py`) | `state.json` (a pid), Odoo processes, the ports they hold | start, stop, kill, restart, install, adopt, health | no Odoo is orphaned, started twice or signalled for another; what a command reports is true; commands return |
| Port allocation (`ports.py`, `instance._assign_instance_ports`, `config.list_instances`) | `[server]` of every `instance.toml` | assign at create, plan over the range, honour a pin, next-ports, eviction alerts | the pairs in use are disjoint, inside the range, and found whenever there is room |
| Provisioning (`instance.create_instance`, `operations.delete_instance`/`rename_instance`, `archive.py`) | instance directory, worktrees, database, archive directory, dump | new, create, archive, unarchive, delete, rename | nothing is lost when a step fails; a retry is possible; no operation touches a running instance |
| Git synchronisation (`sync.py`, `worktrees.py`) | bare repositories, remote refs, worktrees, stashes, fetch timestamps | fetch, active branches, sync, push, pull-base, reset, rollback, add or remove a worktree | no commit or uncommitted change is lost without `force`; rollback restores |
| Databases (`database.py`, `operations.db_dump`/`db_restore`) | PostgreSQL databases and template clones | create, reset, sync-db, template, dump, restore | work is in a database, a dump or a backup until its loss is agreed to; nothing is dropped under a running Odoo; a reset can be repeated |
| Virtual environments (`venv.py`, `instance._sync_instance_venv`) | `.venv`, a requirements stamp | create, reconcile, rebuild | the stamp never claims an install that did not happen |
| Process scan (`instance.scan_odoo_processes`, `api.odoo_ps`, `ports.find_conflicting_process`) | none (reads the process table) | odoo-ps, squatters, orphans | each process is attributed to one instance and one tier |
| Scripts (`scripts.py`, `api.run_instance_script`, `api.compare_instance`) | timestamped output files, `latest` links | run, tally, compare | a record is never changed; `latest` leads to a complete one |
| Workspace (`workspace.py`) | bare clones, Postgres clusters and roles | init | an init that reports no error has made everything, but what an earlier one left half made |
| Modules, addons and environment (`modules.py`, `addons.py`, `env.py`) | none | resolve addons, list modules | — |
| Proxy (`proxy.py`) | nginx or Caddy blocks | write, remove, reload | one block per instance |
| Logs and sessions (`audit_log.py`, `log_rotation.py`, `oplog.py`, `session_context.py`) | append-only logs | append, rotate | — |
| Front ends (`cli.py`, `mcp.py`, `dashboard/`) | none of their own (the dashboard: PR urls, event offsets) | one entry point per operation | they pass the guards (`running`, `force`) that the library trusts |

Interactions. A front end reads configuration (`config.py`), then calls one
library function, which calls the others: create → ports, worktrees, venv,
database, proxy; start → venv sync, port probe, `psql`, `Popen`; install → start
and stop; archive, delete and rename → a `running` flag *computed by the caller*,
git, `pg_dump`/`dropdb`, directory removal. Everything that crosses a component
boundary is a file, a subprocess or a socket; there are no callbacks or queues.

Hard behaviours. (1) Check-then-act over shared files and processes by callers
that do not know of each other. (2) Facts about processes that change while being
looked at: booting, binding a port, shutting down, zombie, pid reuse. (3) Waits
with a deadline (`--wait`, the stop grace period) and what is done after it.
(4) Sequences of irreversible steps (drop a database, delete a directory, rename)
that fail half way. (5) Git operations that discard. `PROJECT.json` lists these as
hazards, each at its line.

## Instance lifecycle: `Lifecycle`

`Lifecycle.tla` is the core: one action per step of `start_instance`,
`stop_instance`, `kill_instance`, `restart_instance`, `install_instance_modules`,
`adopt_instance` and `health_check`, interleaved for any number of clients.

*State.* `pidFile` is the pid in each `state.json`; `st`, `inst`, `parent` are the
process table (a process is booting, serving, dying = signalled before it bound
its ports, draining = signalled while holding them, zombie, or gone); `pc`, `cmd`,
`tgt`, `made`, `victim`, `result` are each client's place in its command and its
local variables. A client is a command-line run or a thread of a server; `HostOf`
says which OS process it runs in, and `LongLived` which of those outlive a command
(MCP server, dashboard). The difference matters twice: a long-lived host keeps
zombies of the instances it started, and `owm restart` in the command line is not
`restart_instance` (it ignores a stop timeout).

*Steps.* Each `pc` label is a place where another process can come in: the read of
the pid (`check`, `lookup`, `install`, `health`), the port probe (`probe`), the
fork (`spawn`), `_write_pid` (`record`), the waits (`await`, `drain`), `os.kill`
(`signal`), `_clear_pid` (`clear`). Reading the pid and asking `psutil.pid_exists`
are one step, as are the two port probes; the read-modify-write of `state.json` in
`_write_pid` is one step, because the pid is the only key anything reads from it.
The venv sync between the check and the probe is folded into the check: it can
fail, and it may run a subprocess.

*Zombies.* `start_instance` drops its `Popen` object and nobody waits for the
child. CPython then reaps such children when the same process next creates a
`Popen`; `Reap` does so at every step that runs a subprocess, and spares children
whose `Popen` a running `start_instance` still references. When a host ends its
children pass to pid 1. A server that stops an instance it started therefore polls
an exited child until the deadline and answers STOP_TIMEOUT, which ARCHITECTURE.md:256
explains as "Instance did not stop within grace period" (instance.py:944).

*Abstractions.* A port pair is one resource per instance: it is bound and released
as a whole. `adopt --force` (record any pid the user likes) is left out. Deadlines
are nondeterministic: a wait may time out whenever its condition is false.

*Environment* (`Faults`): an Odoo process may crash; a host may be killed between
any two steps; somebody may launch Odoo without owm; the kernel may reuse a pid.
Each run says which of these it allows.

### Runs

| Run | Who and what | Shows |
|---|---|---|
| `LifecycleExclusive` | two command-line users, each on its own instance, crashes; 3 pids | `Tracked`, `AwaitsOwn`, `NeverDisowned`, `InstallRanInit`, types |
| `LifecycleRace` | two threads of one long-lived server on the same two instances, crashes, a killed host, manual launches; 2 pids, zombies | `OwnVictim`, `StoppedMeansGone`, `RestartReplaces` survive all of it |
| `LifecycleLive` | two users racing on one instance, fairness | `CommandsReturn`, `StopLeadsToExit` |

Met on the way, without a run: `owm restart` of the command line (cli.py:386) goes on
whatever its stop reported, so after a stop that timed out it finds the old process
alive and prints that it restarted it. `RestartReplaces` fails in `LifecycleRace` with
`LongLived = {}`, that is, with command-line users.

With two users on one instance `Tracked` and the three properties checked
beside it are false, because the code has no lock: two `owm start` of one instance both pass the running
check (instance.py:918) before either has written its pid (947), although spec.md:1618
asks that starting a running instance be a no-op. The run and the theorem `ExclusiveCorrect` say what the code does
give: all hold as long as no two clients work on one instance at a time.

*Bounds.* Two instances are what it takes to signal or disown the wrong one; two
clients make every interleaving of two commands; the third pid lets one instance
see a process that is shutting down, its successor, and a process of the other
instance. `Pids` bounds how often a behaviour can launch (pids are not reused
unless `"reuse"` is in `Faults`), so commands repeat as long as pids last.
`Permutations(Pids)` (and of
instances, where clients may work on all) is sound for the safety runs; the
liveness run uses no symmetry.

*Fairness.* `CommandsProgress` is weak fairness of each client's own steps: no
step waits for another client, and both waits poll against a deadline that
`DrainTimesOut`/`AwaitTimesOut` take. `SignalsHonoured` is weak fairness of
`ExitOnSignal`: Odoo's handler of SIGTERM ends it, and the kernel's SIGKILL too.
Neither a user's `Begin` nor an Odoo's `Bind` is fair.

### Proofs

`LifecycleProofs.tla` proves, for every value of the constants:

- `TypeCorrect`: `Spec => []TypeOK`, inductive as it stands.
- `SignalsAreOwn`, `StopsAreTrue`: without pid reuse, `OwnVictim` and `StoppedMeansGone`. The
  inductive invariant `OwnInv` says that every pid on record, and every pid in the
  hands of a client about to record, signal or clear it, was launched for the
  instance in question. `PidsAge` is its engine: a step never changes the instance
  of a pid that has been handed out, nor revives one.
- `ExclusiveCorrect`: with one client per instance, no killed host, no manual
  launch and no pid reuse, the properties of `LifecycleExclusive`, that no instance
  has two running processes (`OneLive`) and that a start finds no process it has not
  on record (`StartIsNoOpWhenRunning`). `AwaitCorrect`, `HealthCorrect` and
  `InstallCorrect` state three of them by themselves. The
  invariant `WorkInv` says what holds at each step of a command (`StepInv`), and
  that a process holding an instance's ports and a running process of the same
  instance are the same (`BoundUnique`), without which a draining predecessor
  could answer for its successor. The proof is split by whose step it is: the
  client's own (`OwnStep`), another client's (`OthersStep`, through `ClientFrame`,
  what no client ever does to another's instance) or a process's
  (`ProcessInductive`).

- `RestartCorrect`: without pid reuse, and with all restarts made by servers,
  `RestartReplaces`. `RestartInv` follows the process a restart has stopped through
  the start that comes after it: it is gone, and `PidsAge` keeps it so.

The liveness properties are checked by TLC only.

## Port allocation: `Ports`, `PortPlan`, `PortAlloc`

`Ports` is the arithmetic of `ports.py`: `AssignPort` is the stride-1 scan of
`assign_port` for the lowest n with n and n + 1 free, `HasRoom` says whether it
finds one, `GreedyPairCount` is the counting loop behind `free_pairs` (a
recursive function, so that the proofs may use the module).

`PortPlan` is the loop of `plan_ports`: one `Draw` per turn adds the pair found
to the work set, `GiveUp` is the exception that ends it. The warnings are left
out. `PortPlanAll` starts from *every* set of claimed ports of the range 2..9
and every count up to 5; the loop ends, so deadlock is not checked. Eight ports
are enough for every local pattern the scan distinguishes: a free pair, a gap
of one, a pair cut off by the end of the range, and their combinations.

`PortAlloc` follows the claim itself. `toml[n]` is the `http_port` of
`instances/n/instance.toml` (`Absent` without the file, `NoPort` when archiving
stripped it or an edit took it out), `confs` the names that have an
`instance.conf`. `create` is `CreateBegin` (it reads its own toml), `ListTomls`
(the listing of `instances/`: a directory made later is not met), one `ScanToml`
per toml listed, `AssignPin`, `AssignFresh` or `AssignFails`, then `WriteProxy` or
`ProvisionFails` (worktrees, venv or database failed; the port stays in the toml),
then `WriteConf`, or `LeaveConf` for a conf that is the user's (create succeeds)
or has no marker (create fails, its block written). The marker is a line the user
may edit at any time, so a conf that exists is found with any marker. Everything
else is one write. Nothing is assumed of concurrency: two clients create, also the
same instance, while tomls are pinned, forced back to the default, renamed, removed
and restored. owm takes no lock, and two overlapping creates do get the same pair
(both read the tomls, instance.py:623, before either has written its own, 627).

Two history variables say what a create can answer for. `missed[c]` collects the
names whose toml somebody else wrote after `c` had read it or had not found it in
the listing; it is what a lock would have kept empty. `checked[n]` says what the port
of `n` stands on: "no" after an edit, `new`, an unarchive or a create that missed
something, "kept" and "drawn" after one that did not. No guard reads either.

| run | what it shows |
| --- | --- |
| `PortPlanAll` | the announced pairs fit, `free_pairs` counts down with them to 0, and the greedy count is the most pairs any choice could place |
| `PortAlloc` | two clients, two instances, room for two pairs or, around an odd pin, for one: `ClaimsApart`, `ConfRecordsClaim`, `ExhaustedIsTrue` |

Two instances make every clash, every race of two creates and, with one of them
pinned at an odd port, a range that is exhausted by fragmentation. `ClaimsApart`
says in which ways two instances come to a common port, and that there is no other:

* a create missed a toml (the race above), or a port was written by an edit, `new`
  or an unarchive and no create has looked at it since;
* a create let a port stand whose gevent port is another instance's http port. Only
  the http port of a toml is compared (instance.py:624), although ARCHITECTURE.md:136
  says to skip a pair "if either occupied": an odd pin one below another instance's
  port is accepted. The other direction, a pin on another's gevent port, is caught.

Other disagreements met on the way, without a run of their own. `create` repeated on a
provisioned instance moves it when another toml has its port, for which a draft with
the default 8100 is enough, although spec.md:240-241 has such a create skip all
steps. And `next_ports` is called "a read-only preview of what create/start would grab"
(api.py:131-132), but it counts the draft's own port as taken, while create leaves
its own toml out and keeps a port nobody else has: a fresh `new` plus `create` gets
8100 whatever was announced. The preview is checked for what it promises about
the *range* (`PortPlan`), not as a promise to the next create.

Ports bound by processes outside owm are not looked at by `create` at all
(`_collect_occupied_ports` reads tomls only), although spec.md:162-163 assigns
around "instance configs or bound by processes"; there is nothing to check.

**Proved** (for every range, any number of instances and clients):

* `PortsProofs!AssignPortIsLowest`: what `assign_port` returns. That a least
  free port exists is an induction over the naturals; it is obtained from the
  library's well-foundedness of the strict subset order on finite sets
  (`LeastMember`), since the induction theorems themselves take an operator.
* `PortsProofs!CandidatesCorrect`: the strengthening `PlanInv` says that the
  work set holds the claims and the candidates' pairs, and that whatever is
  still free in it lies above every candidate.
* `PortsProofs!FreePairsCorrect` and `GreedyCorrect`: `FreePairsCountsDown` and
  `GreedyIsMaximal`, which speak of what the recursive function of
  `GreedyPairCount` computes. `LeastMember` gives induction along the range with a
  *set* of ports in the place of a predicate (`DownwardInduction`); by it the
  function exists (`CountsExist`), satisfies its recursion and is natural
  (`CountsStep`), and passes over ports where nothing is free
  (`NothingCounted`). Then the pair `assign_port` takes uses up exactly one
  that was counted (`AssignUsesOnePair`), and at each port the scan counts at
  least as many as any packing has from there (`GreedyIsOptimal`).
* `PortAllocProofs!TypeCorrect`; like the rest of that module, with no assumption
  on concurrency, on the pins or on the range.
* `PortAllocProofs!CreateCorrect`: the invariant `CreateInv`. `Knows(c)` says that
  unless its own toml was written behind its back, a create has that toml's port at
  hand, and that unless it missed any, what it has collected is what the tomls it has
  read or not met claim *now*. Why other clients cannot break it is one
  lemma (`WritesKeepKnows`): whoever writes tomls, a client either had not
  read them yet or has missed them.
* `PortAllocProofs!ConfCorrect`, `ExhaustionCorrect`: from it.
* `PortAllocProofs!ClaimsCorrect`: `ClaimsApart`, with the addition that a checked port
  is a port. The step that matters is the decision of a create that missed nothing:
  a port let stand is none of the ports of a checked toml, http or gevent, which leaves
  only its own gevent port uncompared.

That candidates ascend, and the types of `PortPlan`, are proved and not in a run.
`PortsProofs` is about both `Ports` and `PortPlan`; the latter's names have a prefix, so
that `PortAllocProofs` can extend it next to `PortAlloc`.
## Provisioning: `Provision`

The five commands that build an instance, move it and take it apart. The state is
what they act on: `dirs` (directories in `instances/`), `toml[n]` (the database
name in `instances/n/instance.toml`), `tmpl` (tomls that name a template), `wt`
and `reg` (where the worktrees are, and at which path git has whose on record),
`db[d]` (what is in the database), `dump[n]` (`instances/n/db.dump`), `arch[n]`
(`_archive/n`), `conf`, `proxy` and `running[n]` (the database Odoo was started
on). `pc`, `name`, `to`, `mode` are the command under way: **one at a time**, but
Odoo may be started, put work into its database and be stopped between any two of its
steps, because `start` and `stop` neither know of the command nor are known to it; and
Odoo makes the database it is started on when that is missing (`odoo-bin -d`), as
`start_instance` does not look (instance.py:910-947). Each step
is one subprocess or one group of file operations of the code, in its order:

| command | steps |
| --- | --- |
| create | `AddWorktrees`, `ProvisionVenv`, `CreateDb`, `Configure` (the proxy block), `WriteConf` |
| unarchive | `Unpack`, the steps of create, `Restore` (if there is a dump), `Discard` |
| archive | `Dump` (unless discarded), `DropArchived`, `DetachArchived`, `UnproxyArchived`, `MoveToArchive` |
| delete | `DetachDeleted`, `DropDeleted`, `UnproxyDeleted`, `RemoveDirectory` |
| rename | `RenameDb`, `PatchToml`, `MoveDirectory`, `MoveProxy` |

`Fail` ends the command where it is, and nothing is rolled back: because the tool
refuses what it finds (`Refused`: a dropped database, a database in use, a
worktree git does not know, an `instance.conf` without a marker), because it fails for a
reason of its own (`"tool"`), or because the command is killed (`"crash"`). A `pg_dump` or
`pg_restore` that fails has done half of it: `DumpBreaks` leaves a broken file, also over a
good one, `RestoreBreaks` a database with some of the tables, into which nothing can be
restored any more. History: `made` is the work put into databases, `given` the work a
caller has agreed to lose, by deleting or by discarding the dump. Two more record where the
code does lose things, so that the properties say that it happens there and nowhere else:
`exposed` is the work that was put into a database after the command had dumped it or asked,
or that was in a dump which an archive wrote over; `remade` the databases that Odoo
made on the instance of a command which had taken the database away.

Not modelled: a rename killed halfway (it has no recovery; toml and database
then bear different names and every property about names is false) and a rename
onto a name whose directory exists (`shutil.move` nests it); partial worktree
sets (one repository per instance).

| run | what it shows |
| --- | --- |
| `Provision` | two instances, two pieces of work, templates or none, tool failures and kills: the four invariants. Two names are what a rename, a name used again and a shared database need; two works are what an overwritten one needs. `MaxCommands = 5` bounds how many commands are begun: enough for archive (failed), create, archive, unarchive and delete in a row, and for a name renamed away, used again and renamed back. When they are used up and both pieces of work are made nothing may be left to do, so the run does not look for deadlocks. Names and works are symmetric |

What the code loses, and the invariants except by name:

- `exposed`. Archive runs `pg_dump` and then `dropdb` (archive.py:204-207), delete asks and then
  drops (operations.py:105-106). Odoo started, used and stopped in between is seen by neither:
  `dropdb` refuses only while it is connected. What was put in meanwhile is gone without a
  message. And archive dumps to `instances/<name>/db.dump` whatever is there: archive
  fails after `dropdb`, since a worktree cannot be removed; create makes a blank database;
  the next archive dumps that over the only copy of the work.
- `remade`. Odoo started after the `dropdb` of a delete or an archive, or after the
  `ALTER DATABASE` of a rename, makes a database that outlives the directory. The next
  create of the name takes it for its own (database.py:134).

Also met, without a run: an instance with `[database] template` cannot be unarchived, though
nothing fails (getting-started.md:342-350 has no such exception): create clones the template
and `pg_restore --exit-on-error` stops at its first table (cli.py:948). The dump stays in the
archive. A renamed instance can be neither deleted nor
archived, nor its old name created again (`git worktree remove` and `add` refuse,
`Removable`; spec.md:522-523 and 530-532 promise otherwise); `delete` and `archive`
cannot be repeated after the `dropdb` (it has no `--if-exists`); the MCP tools
never look whether an instance runs (mcp.py:335-366, spec.md:901, 910 and 918 say
`INSTANCE_RUNNING`; `Stopped`): for archive and delete `dropdb` refuses while Odoo is
connected, for delete only after the worktrees are gone; `workspace.toml` and `_archive/` are
not updated by rename and delete (spec.md:523, 531-532).

**Proved** in `ProvisionProofs`, for any instances, works, faults and number of commands,
with no assumption on what users do. The invariant comes in parts. `Inv` (types, `NamesInv`,
`CommandInv`) says that each toml, archive and dump bears the name of its place and what the
command under way has in hand; `DatabasesApart` follows. `ProxyInv` and `DbInv` follow blocks
and databases through the steps at which they are on their own: `ProxiesFollow`,
`DatabasesOwned`. `WorkInv` says that what the next step destroys is kept elsewhere, or given
up, or exposed: before `dropdb` the work in the database is in the dump unless it came later,
before a directory goes its dump was given up, and before an archive is discarded its dump is
in the database. `NothingLost` is that and `NoSilentLoss` together. `TypeOK` is proved
(`TypeCorrect`), and so in no run.


## Git synchronisation: `Sync`

`Sync` is what `fetch`, `sync`, `push`, `reset` and `pull-base` do to branches,
while users edit and commit in the worktrees and colleagues push. A commit is the
change it makes and a branch the set of changes in its history: ahead, behind and
diverged are inclusions, a merge or a rebase is a union, and a rebase keeps what
its commits change. Whether a merge of diverged histories conflicts is left open.

*State*, per worktree (an instance's repository on its branch): `origin` and
`published` (the branch at the origin, if it is there), `head`
(`refs/heads/<branch>` of the bare repository, which the worktree has checked
out), `track` and `known` (`refs/remotes/origin/<branch>`, if it exists), `main`
(`refs/remotes/origin/<base>`), `files` and `edits` (committed and uncommitted
changes in index and files) and `busy` (a merge or rebase that has stopped).
`settled`, `swept` and `made` are history: what was reset away or merged by a colleague,
what owm discarded without being asked to, and everything anybody did. `pc`, `cmd`, `flag`, `todo`, `seen`, `at` are each
client's command and what it has read.

*Steps.* A command looks at its worktrees one by one (`Look`, which is
`read_repo_state`), then acts on those its policy selects (`SyncSelects`,
`PushSelects`, `ResetSelects`), one git command at a time: `FastForward`, `Rebase`,
`RebaseStops`, `Push` (with `Refetch` after `push --all`), `Reset`, `MergeBase`,
`MergeFails` and `AbortMerge`. A fetch is `List` (`git ls-remote`), then `Fetch`.
Between any two of these anything may happen, which is the point: what was `seen`
is old when it is used (once a command acts, only the decision it drew from that is
kept: `Remembered`). `GitFails` and `FetchFails` are git refusing or failing; the
command line then goes on with the next worktree, the tool that syncs does not.

*Configurations.* owm's own `init` makes bare repositories that fetch
`+refs/heads/*:refs/heads/*`, without `origin/` references; a repository somebody
cloned has them, and branches may have an upstream. `Tracked` and `Upstream` say
which worktrees have what, and the theorems hold for every choice.

*Bounds.* Users commit only after they have brought their files up to date with
the branch (in `Commit`). Nothing is assumed of when they push or fetch.

*What owm sweeps.* `NoChangeLost` is not true of every change, and says of which it is not.
A fetch moves every branch it is given to where the origin has it (`+refs/heads/b:refs/heads/b`,
sync.py:179-183): commits that are not there are gone from the branch, also those made
between a `push --all` and the fetch that follows it; spec.md:658-659 has a "hard stop" for
them, the code has none. And a reset without `--force` discards edits it has not seen, made
after it looked, or with `--all` those it has seen and does not ask about (sync.py:671,
`ResetDirty`). Both go to `swept`; what a forced reset, or the move to the upstream which any
reset is, discards is `settled`.

*What a rebase rewrites.* `RebaseIsLocal` excepts the base. A colleague who brings the branch up
to date with the base at the origin (`BranchUpdated`), after a `pull-base` here, makes commits
that both have and `origin/<branch>` has not, and `git rebase @{u}` copies them (sync.py:259).

| run | what it shows |
| --- | --- |
| `Sync` | one worktree with an upstream, its user, its colleagues, and two owm processes with `fetch`, `sync`, `push`, `push --all`, `reset --all` and `pull-base`; three changes, of which a merge, a rebase and a conflict need two and a third for what comes in between. On one worktree the tool that syncs does nothing that `sync` does not, and `reset` nothing that `reset --all` does not: they are left to the theorems. `NoChangeLost`, `OriginOnlyGrows`, `TrackWasPushed`, `RebaseIsLocal`, `MergesEnd`, types |
| `ResetDirty` (violation) | `reset --all` without `--force` discards edits it has seen: it asks for a key that `read_repo_state` does not return, and that a test puts in by hand |

Clients and changes are symmetric. What several worktrees add, a batch that is
fetched as one and a command that has dealt with some of its worktrees, is in the
theorems, which are about any number.

Met on the way, without a run:

- A fetch in the layout of `init` moves the branch under a shared worktree and leaves
  its files, which are then behind and look edited (spec.md:646 "fast-forwards shared
  worktrees"); where the branch has local commits they are gone from it (:659 "hard
  stop").
- `owm push` and `owm reset` without `--all` stop with a TypeError before they do
  anything: the policy returns one flat record and the command line iterates over it
  as over one record per repository (cli.py:1484, 1524). The model's `push` and
  `reset` are the tools of the MCP server.
- `push --all` asks each state for `"owned"`, which nobody sets, and so pushes
  repositories marked readonly, although spec.md:750 has push tools refuse unowned
  branches "unconditionally".
- In the layout `init` makes, `origin/<branch>` does not resolve: every worktree is
  clean to `read_repo_state`, `sync` and `push --all` find nothing to do, and
  `pull-base` reports a conflict without files.
- Where `origin/` exists, `owm fetch` moves the branch and `origin/<branch>`
  together: the worktree is never behind after it, it is dirty.
- `owm fetch` updates `origin/<base>` only if an instance declares the base as a
  branch; `pull-base` otherwise merges the base as somebody last fetched it.
- A rebase that conflicts is left as it stopped, by `owm sync --rebase` and the tool
  alike; after a `pull-base`, a rebase copies the commits of the base.
- The reset tool does not look at `shared`, and a repository that no instance
  declares a branch of is fetched whole with `--prune`, which in `init`'s layout
  deletes branches that exist only locally.

**Proved** in `SyncProofs`, for any worktrees, clients, changes and configuration.
What git stores changes in few ways, whatever the command: `GitNext` lists them and
`NextIsGit` shows that every step is one of them, so the invariants of the
repositories are proved over `GitNext` and the commands are looked at only once.

- `TypeCorrect`, inductive as it stands.
- `LossFree`: `NoChangeLost`, with no assumption on users. Each step keeps what holds
  a change, settles it or sweeps it (`KeptOn`), or puts a new one somewhere (`KeptNew`).
- `OriginSafe`: `OriginOnlyGrows`; `PushedCorrect`: `TrackWasPushed`.
- `RebaseCorrect`: `RebaseIsLocal`. It is not inductive: what is uncommitted
  becomes part of the branch later, so `PushedIsTracked` says it of that
  too, and `MadeSomewhere` that a change made now is new to the origin.
- `MergesCorrect`: `MergesEnd`, with `OthersStay`: a command moves no other one.

## Databases: `Database`

`Provision` moves whole databases about, one command at a time. `Database` takes apart the
commands that act on a database itself, for any number of them at once. The state is
`db` (what each database holds: `None`, `Blank` as `createdb` makes it, or the modules
Odoo has set up in it and the work users have put there), `up[n]` (the Odoo of instance
n, also one owm has lost the pid of), `dumps` (`_dumps/n/<minute>.dump`), `backup[n]` (the
file in `/tmp` that a sync writes first), and per client `pc`, `inst`, `arg`, `todo`. The
clock is left out: a dump is named by any of the `Minutes`. Each step is one Postgres tool, one
check, or one call of Odoo:

| command | steps |
| --- | --- |
| create (`create_db`) | `LookForDb`, `MakeDb`, then install |
| db-reset (`reset_db`) | `CheckConnections`, `DropDb`, `CloneDb`, then install |
| install | `QueryInstalled`, `BootOdoo`, `LoadModules`, `HaltOdoo` |
| db-dump, db-restore | `WriteDump`; `ReadDump` |
| template create | `ProbeSource`, `CopyTemplate` |
| `sync_db_from_template` | `SaveBackup`, `WipeDb`, `FillDb`, or, when one fails, `EmptyDb`, `UndoSync` |

*Environment.* Postgres is external: it refuses to drop or to clone a database somebody
is connected to, and to create one that exists. Users start and stop Odoo and work in it
between any two steps (`User`); an Odoo started where there is no database makes one.
`Faults`: `"tool"`, a Postgres tool or Odoo fails for a reason of its own, a restore half
way; `"psql"`, a query fails, which owm reads as *no connections* (database.py:261), *no
such database* (125), *nothing installed*; `"odoo"`, an Odoo answers and has left out modules
it was to install. History: `made` and `given`, the work users have put in and the work they
have given up; `spoiled`, what owm itself took; `calm[c]` says that nobody but client c has
been at its instance since its command began.

| run | what it shows |
| --- | --- |
| `Database` | two processes of the MCP server, which checks least, on one instance of one template; one module, one piece of work, one minute; all three faults: `WorkIsSomewhere`, `NotUnderOdoo`, `ResetRepeatable`, `InstallComplete` |

Commands on different instances meet in templates alone, and a template is only ever
cloned, or refused because it exists; so one instance and two clients make every
interleaving that matters. One minute is enough for a dump to be written over an earlier
one; one work is enough, since the properties speak of one at a time. The clients are
symmetric.

Users do as they like: they sync again after a sync that failed, start Odoo and work
while an instance is synced, and take dumps at will. owm then does lose work, in two ways
that `spoiled` records, and `WorkIsSomewhere` says that there is no third:

- a `pg_dump` over a file that has the only copy (`Overwritten`). `sync_db_from_template`
  backs up to a path that depends only on the names (database.py:211), so after a restore
  that failed half way a second attempt dumps what is left over the only good copy; and a
  second `db-dump` in the minute of the first replaces it, or truncates it and fails
  (operations.py:274). A copy in a database does not count while another sync of the
  instance may be about to drop that (`Wiping`).
- work put in between the backup of a sync and its `dropdb` (database.py:213-216, which
  looks at no connections and stops no Odoo).

The sync is called by no front end; the two dumps in a minute any user can take.

`InstallComplete` does not say that an install that reports ok has installed what it
reports. `start_instance` waits until the port gives any HTTP answer, an error page too
(`_probe_http`, instance.py:159-167), and `install_instance_modules` then reports
`to_install` as installed (instance.py:495-512): an Odoo whose `-i` failed, or that ignored
a module it does not know, is taken for one that installed. `LoadModules` lets Odoo leave
out any of them (the fault `"odoo"`), and what it left out stays in `todo[c]`. The property
is about the rest: the query that failed, the modules skipped as already there, and the
start that was to run them.

Met on the way, without a run: the restore of the MCP server does not look whether the
instance runs (spec.md:1044 has it refuse; the restore then stops at the first table,
so nothing is lost); `Mcp` says which clients do that. A `dropdb` after a check that is
out of date is harmless only because Postgres refuses it, which is `NotUnderOdoo`.

Not modelled: a dump or restore path the user names, modules named on the command line,
and the readers (template list, staleness, reachability).

**Proved** in `DatabaseProofs`, for any instances, templates, clients, modules and faults.
`DbStep` lists the few things a step of anyone does to the databases and `JobMove` what
it does to commands, so each invariant is proved over these.

- `TypeCorrect`; `UnderOdooCorrect`: `NotUnderOdoo`, from `DbStep` alone.
- `ResetCorrect`, `InstallCorrect`: from `CalmInv`, which says that what a calm client
  has found, or made, is still so when it comes to its next step.
- `WorkCorrect`: `WorkIsSomewhere`, with no assumption on users. The invariant that makes
  it inductive is `WipeInv`: while a sync is about to drop a database, the work in that is
  `Kept`, in a file of the instance, in a template, or counted as `given` or `spoiled`.
  `Refilled` says that whatever another command puts into the database meanwhile comes
  from such a place, `KeptGrows` that nothing leaves them while the sync is there.

## Scripts and comparison: `Records`, `Scripts`

`Records` is the abstract specification: what readers of `_dumps/<instance>` may rely on.
A record, once published, is never changed, withdrawn or given to another run; a latest
link leads to a record that it may lead to, or is not there. It has three actions.

`Scripts` is `run_instance_script` and `_point_latest` (api.py), for any number of
processes. `file[i][s]` is the run whose rows `<stem>.ndjson` has, `logs[i]` the stems with
a log, `link[i][l]` where a latest link points (one link per script, one for the
instance); `at`, `inst`, `script`, `stem`, `next`, `result`, `wrote` are a run's. A run
takes the first name of this second without a log (`Reserve`), executes its script
(`Execute`, `ScriptFails` or `ScriptExits`), writes the log (`WriteLog`), reads back the
results or makes an empty file (`ReadResults`), and points two links, each by looking,
unlinking and linking (`LookForLink`, `Unlink`, `Symlink`), where another run may come in
between. `Kill` ends it anywhere. `Compare` is `compare_instance`, which changes nothing.
Scripts differ in whether they write rows (`Structured`); a row is the status of a case,
or says abort.

`Published == INSTANCE Records WITH record <- Record, latest <- link, ...` is the
refinement mapping: a record is a stem with a log, and whose it is what the results file
says. `WriteLog` of a script that wrote rows, and `ReadResults` of one that wrote none, is a
`Publish`; an unlink is a `Withdraw`, a symlink a `Point`, and the rest, rows that are
written while there is no log among it, a stutter.

| run | what it shows |
| --- | --- |
| `Scripts` | three runs of two scripts, one of which writes rows, on one instance, two seconds, two runs of a script in one: `RecordKept`, `LatestResolves`, `ImplementsRecords` |
| `CompareSymmetric` (violation) | `owm compare` of one instance and of the other need not agree, against its help text: only the cases of the instance asked about are gone over |

Three runs are what the links take: two that race over one and a third whose record it
may lose. Instances share nothing, so the first run has one. Runs end, so deadlock is not
checked. Runs are symmetric.

`Spread` says that users start no run in the second in which another one of that script on
that instance has chosen its name and not yet written its log. Without it `RecordKept`
and `ImplementsRecords` are false: a name is taken only once its log is written
(api.py:355), at the end, so both runs write to the same files and the later one replaces
the results of the first, an "immutable, timestamped record".

Met on the way, without a run: where one of the instances has no results to compare,
`compare_instance` answers ok, although its docstring speaks of an ErrorResponse
(api.py:413-414); a row that says abort has no case, and makes the comparison raise
`KeyError`; a run killed between unlink and symlink leaves no latest link until the next
one, which is why `LatestResolves` asks that none was; a race over a link makes one of the
runs raise, after its script has run and its record is there.

**Proved** in `ScriptsProofs`, from `Spread`: `RecordsKept` and `RecordsImplemented`
(`Spec => ImplementsRecords`). The invariant `RunInv` says that no
two runs at work have the same stem (`Apart`), that a script that writes no rows has no results file before
owm makes it (`NoStray`), and what holds of a run's stem at each of its steps
(`StepInv`). `RunPublishes` then maps each step of a run to a step of `Records`.
`LatestCorrect` proves `LatestResolves` without an assumption on the users. Its
invariant `LinkInv` says that a link that is missing is owed by a run still to make it; a
run that finds the link it would unlink gone, or the one it would make there again, owes nothing.

## Workspace and virtual environments: `Workspace`, `Venv`

`Workspace` is `init_workspace`. `repo[r]` is `_repos/<r>.git`: none, half of a clone, a
clone without its refspec (`"bare"`), or ready; `thread[r]` is the thread that clones it
(`CheckDest`, `CloneEnds`, `SetRefspec`), all at once; `cluster[k]` and `role[k]` are a
Postgres cluster and what the operator is there. When all threads are done (`ClonesDone`)
init goes through the clusters in turn: `PgIsReady`, `ClusterExists`, `CreateCluster`,
`ClusterRunning`, `StartCluster`, `SuperuserExists`, `CreateSuperuser`. A failing clone is
only printed; a failing Postgres tool ends init. `Faults` makes each of them fail, a
query answer nothing, and init be killed; the administrator starts and stops clusters.

`Venv` extends it by the environment of one instance. `text[f]` is what a requirement file
says, `has[f]` the content of it that was installed last, `stamp` the content of
`.owm_stamp`, `venv` whether there is an environment, or half of one. `create_venv`, which
create calls once the repositories are there, is `Collect`, `MakeVenv`, `VenvMade`,
`Install` (one file each), `Installed`, `WriteStamp`; `reconcile_venv`, which every start
calls before it spawns Odoo, is `Collect`, `CompareStamp` (the stamp is computed *before*
the installation), `Install`, `WriteStamp`, or nothing when the stamp agrees. The stamp
is truncated, then written: two steps. Users edit files, check out others, and remove
broken environments. A stamp is modelled as the file contents it is a hash of.

| run | what it shows |
| --- | --- |
| `Venv` | two repositories, one cluster, two requirement files that are variants or both named by `[python].requirements`, two contents; one create and one start at a time, every fault: `InitCompletes`, `StampTruthful`, types |

Init takes clusters one after another and they share nothing, so one is enough; two clones
are what it takes for one to fail and the other not. Two files make an installation stop
half way, two contents make one stale. The contents are symmetric.

cli.py:167 says "Safe to re-run: existing repos, running clusters, and existing roles are
skipped" (and so docs/getting-started.md:145). Of clusters and roles that is true. Of repositories it is not: a
directory that exists is taken for a clone (workspace.py:142), so one whose clone was
killed, or whose `git config` after it failed, is skipped for ever and the next init
answers ok. `stale` is the set of those init found when it began, kept unless it fails; `InitCompletes` leaves
them out and speaks of all the others, and of what fails within the init itself. Users may
remove such a clone (`RemoveClone`), or run init again as often as they like.

`Careful` is about environments alone: users edit nothing while create builds the
environment, or while two processes are at it; neither take a file away nor put it back to
what it said before; and run no init while a command is at the environment. Without it
`StampTruthful` is false. An installation that fails, or is killed, leaves the stamp of
the one before; when the files go back to what they were then, the stamp agrees and the
next start installs nothing, although some of the packages are the others. And
`create_venv` computes its stamp after the installation (venv.py:106): what was edited
meanwhile is stamped and not installed.

Met on the way, without a run: an environment that `uv venv` left half made lets every
start fail until it is removed, since `_sync_instance_venv` asks only whether it is there;
`rebuild_venv` is called by no front end, and the patches it and the others take are
always empty. Two creates of one instance at once are excluded (`VenvAssumption`).

**Proved** (`VenvProofs`), for any repositories, clusters, requirement files, contents and
any number of starts at once: `TypeCorrect`; `InitCorrect`, that is `InitCompletes`, with no
assumption on users; `StampCorrect`, that is `StampTruthful` from `Careful`.

`InitCorrect` needs two invariants. `CloneInv` says what a repository is at each step of
its thread, and that past its thread it is ready, or has its error, or was found
unfinished (`stale`), as a thread that finds a directory asks no more. `ClusterInv` says that every
cluster is still to come, or the one init is at, or in order: the administrator may stop
one that is, but a role is not taken away.

`StampCorrect` rests on `StampInv`. Its first part says what each worker holds: the files
it would collect now, unless they were edited under it, and then the stamp that is there
vouches for nothing it may take away; and that what it has installed is as its file says,
while its stamp is that of the files as they are. Its second part is `Outlived`: each
entry of a stamp, written or only computed, is what its file says, or what it will never
say again. An edit leaves a stamp agreeing only if it agreed before and the edit was of
none of its files (`EditAgrees`); this is where the proof needs that files do not go back
to what they said (`spent`), and it is false without it, as the second example above shows.
`OneVariant` is the third ingredient: of the variants of a repository only one is
collected, so that installing one file of a stamp does not undo another. The
assumptions on constants are that a candidate's name is listed once, and that "asks for
nothing" is not among the contents (`VenvAssumption`). With two creates at
once, which `VenvAssumption` excludes, nothing is claimed.

## Composition

The proof modules and the MC modules extend the module they speak about; `PortAlloc` and `PortPlan` both extend `Ports`, where
the pure algorithm (which pairs are free, which one is planned) stands once, so
that what `PortPlanAll` checks by enumeration is the operator the allocation
uses. The modules meet where one abstracts the other:

- `Lifecycle` makes the ports one resource per instance, so it takes for granted
  that no two instances share a port; `ClaimsApart` of `PortAlloc` says when
  they do.
- `Provision` keeps of `Lifecycle` only which database Odoo is connected to, and
  lets it start between any two steps.
- `PortAlloc` keeps of `Provision` only what a toml says of ports, and lets any
  toml appear and disappear.
- `Provision` and `Sync` share the worktrees: one adds and removes them, the other
  moves what is checked out in them.
- `Provision` has creating a database and dumping one as one step each; `Database` has
  the steps, and leaves out everything else that create and archive do. Its install is
  that of `Lifecycle` without pids: Odoo is up, known to owm or lost to it.
- `Venv` extends `Workspace`, whose clones it builds on, and is what a start of
  `Lifecycle` does before it looks at the ports.
- `Scripts` implements `Records`: the refinement is checked by TLC and proved for every
  instance.

## Proofs and what stays with TLC

Eight modules hold theorems; their lemmas and inductive invariants are named and
commented there. Out of the prover's reach: liveness under fairness
(`CommandsReturn`, `StopLeadsToExit`) and whatever needs ENABLED. Induction over
data, whose library theorems take an operator as a parameter, is done where it is
needed with sets instead (`LeastMember` and `DownwardInduction` of `PortsProofs`). Every
invariant and every safety property of a run is proved; only those two are not. No proved
module uses a RECURSIVE operator. What each theorem assumes is in its section
above; there is no assumption on a constant but those named `...Assumption`,
which TLC evaluates on every run. The type invariants of `PortPlan`, `Database`, `Provision`
and `Scripts` are proved for every instance, and so in no run.

## Disagreements

Each run that ends in a violation shows one place where a document, a comment, a
docstring or a test says something of the program that the code does not do;
`PROJECT.json` quotes both under `findings`. The others are told in the sections
above. Most need a failure half way, two callers, or a configuration the tests do
not have; those of git synchronisation are met in ordinary use.

## Plan

Done and checked: (1) `Lifecycle`, (2) `Ports`, `PortPlan`, `PortAlloc`, (3) `Provision`,
(4) `Sync`, (5) `Database`, (6) `Records` and `Scripts`, (7) `Workspace` and `Venv`; all
are proved about (8). To come, in this order:

9. More of `Lifecycle`: adopt with `--force`, and the start of an instance that is being
   deleted, where `Provision` has only a coarse start.
10. `InstanceAbs` (an instance is down, booting, up or going down, and a command changes that
   once), to be implemented by `Lifecycle` for one client. Checked by TLC first, then proved.

## Not modelled

Formatting of reports, tomls, conf files and proxy blocks; parsing of configuration
beyond defaults that decide something; the process scan, the resolution of addons and the
dashboard's views, which read and change nothing; the protocol of the MCP server; logs and
their rotation. They hold no state that another part acts on, or the tests reach all of
it. Functions that no front end calls are left out (`check_port_at_start`, `evict_port`,
`rebuild_venv`, checkpoint and rollback), but for `sync_db_from_template`, which the
documentation describes at length. `PROJECT.json` says of each component what is left
out of it.
