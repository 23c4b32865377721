----------------------------- MODULE Workspace ------------------------------
(***************************************************************************)
(* owm init: from workspace.toml to bare clones and Postgres clusters.     *)
(* Repositories are cloned in parallel, a thread each; then one cluster    *)
(* after another is created, started and given the operator's superuser    *)
(* role, as far as it is missing.  What is there is skipped, so init is    *)
(* run again after a failure.                                              *)
(***************************************************************************)
EXTENDS FiniteSets

CONSTANTS
  Repos,    \* [repos] of workspace.toml
  Clusters, \* [clusters] of workspace.toml
  Faults,   \* what goes wrong: "git" a clone, "config" the step after it,
            \* "kill" init itself, "pg" a Postgres tool, "psql" a query,
            \* "uv" an installation
  Careful,  \* users take care (see MindsEdit, MindsStart of Venv)
  None

ASSUME WorkspaceAssumption ==
  /\ Faults \subseteq {"git", "config", "kill", "pg", "psql", "uv"}
  /\ Careful \in BOOLEAN
  /\ None \notin Clusters \cup {"ok", "errors", "failed", "killed"}

VARIABLES
  repo,    \* per repository, _repos/<name>.git: "none", "half" of a clone,
           \* "bare" a clone that fetches no branch, or "ready"
  cluster, \* per cluster: "absent", "down" or "up"
  role,    \* per cluster, what the operator is there: "none", "plain", "super"
  thread,  \* per repository, the next step of its thread
  phase,   \* init's next step
  left,    \* the clusters init has not come to
  at,      \* the cluster it is at
  errs,    \* the repositories it has an error for
  said,    \* how the last init ended
  stale    \* history: the clones, begun and never finished, that init found
           \* and, unless it failed, has skipped

clones == <<repo, thread, errs, stale>>
servers == <<cluster, role>>
workspaceVars == <<repo, cluster, role, thread, phase, left, at, errs, said, stale>>

Phases == {"idle", "clone", "next", "ready", "exists", "create", "running",
           "start", "role", "grant"}

-----------------------------------------------------------------------------
(* The clones.                                                             *)

BeginInit ==
  /\ phase = "idle"
  /\ phase' = "clone"
  /\ thread' = [r \in Repos |-> "check"]
  /\ said' = None
  /\ stale' = {r \in Repos : repo[r] \in {"half", "bare"}}
  /\ UNCHANGED <<repo, errs, servers, left, at>>

ThreadGoto(r, step) == thread' = [thread EXCEPT ![r] = step]

\* _clone_repo: a directory that is there is taken for a clone.
CheckDest(r) ==
  /\ thread[r] = "check"
  /\ IF repo[r] = "none"
     THEN repo' = [repo EXCEPT ![r] = "half"] /\ ThreadGoto(r, "fetch")
     ELSE ThreadGoto(r, "done") /\ UNCHANGED repo
  /\ UNCHANGED <<servers, phase, left, at, errs, said, stale>>

\* git clone --bare; one that fails takes its directory away.
CloneEnds(r) ==
  /\ thread[r] = "fetch"
  /\ \/ /\ repo' = [repo EXCEPT ![r] = "bare"]
        /\ ThreadGoto(r, "config")
        /\ UNCHANGED errs
     \/ /\ "git" \in Faults
        /\ repo' = [repo EXCEPT ![r] = "none"]
        /\ ThreadGoto(r, "done")
        /\ errs' = errs \cup {r}
  /\ UNCHANGED <<servers, phase, left, at, said, stale>>

\* Mutant of SetRefspec: the thread ends with the clone.
SetNoRefspec(r) ==
  /\ thread[r] = "config"
  /\ ThreadGoto(r, "done")
  /\ UNCHANGED <<repo, servers, phase, left, at, errs, said, stale>>

\* git config remote.origin.fetch, after set-url for a local copy.
SetRefspec(r) ==
  /\ thread[r] = "config"
  /\ ThreadGoto(r, "done")
  /\ \/ repo' = [repo EXCEPT ![r] = "ready"] /\ UNCHANGED errs
     \/ "config" \in Faults /\ errs' = errs \cup {r} /\ UNCHANGED repo
  /\ UNCHANGED <<servers, phase, left, at, said, stale>>

ClonesDone ==
  /\ phase = "clone"
  /\ \A r \in Repos : thread[r] = "done"
  /\ phase' = "next" /\ left' = Clusters
  /\ UNCHANGED <<clones, servers, at, said>>

-----------------------------------------------------------------------------
(* The clusters.                                                           *)

Goto(step) ==
  /\ phase' = step
  /\ UNCHANGED <<clones, left, at, said>>

\* A tool that fails ends init.
Fail ==
  /\ phase' = "idle" /\ said' = "failed"
  /\ left' = {} /\ at' = None /\ errs' = {} /\ stale' = {}
  /\ UNCHANGED <<repo, thread, servers>>

ToolFails == "pg" \in Faults

NextCluster(k) ==
  /\ phase = "next" /\ k \in left
  /\ phase' = "ready" /\ at' = k /\ left' = left \ {k}
  /\ UNCHANGED <<clones, servers, said>>

\* _pg_is_ready.
PgIsReady ==
  /\ phase = "ready"
  /\ Goto(IF cluster[at] = "up" THEN "role" ELSE "exists")
  /\ UNCHANGED servers

\* pg_lsclusters; when it fails nothing is listed.
ClusterExists ==
  /\ phase = "exists"
  /\ \/ Goto(IF cluster[at] = "absent" THEN "create" ELSE "running")
     \/ ToolFails /\ Goto("create")
  /\ UNCHANGED servers

CreateCluster ==
  /\ phase = "create"
  /\ \/ /\ cluster[at] = "absent"
        /\ cluster' = [cluster EXCEPT ![at] = "down"]
        /\ Goto("running") /\ UNCHANGED role
     \/ (cluster[at] # "absent" \/ ToolFails) /\ Fail

ClusterRunning ==
  /\ phase = "running"
  /\ \/ Goto(IF cluster[at] = "up" THEN "role" ELSE "start")
     \/ ToolFails /\ Goto("start")
  /\ UNCHANGED servers

StartCluster ==
  /\ phase = "start"
  /\ \/ /\ cluster[at] = "down"
        /\ cluster' = [cluster EXCEPT ![at] = "up"]
        /\ Goto("role") /\ UNCHANGED role
     \/ (cluster[at] # "down" \/ ToolFails) /\ Fail

\* Mutant of SuperuserExists: a role that is not a superuser will do, and so
\* will an answer that is empty.
SuperuserTrusts ==
  /\ phase = "role"
  /\ Goto(IF cluster[at] = "up" /\ role[at] = "none" /\ "psql" \notin Faults
          THEN "grant" ELSE "next")
  /\ UNCHANGED servers

\* psql; when it fails there is no such role.
SuperuserExists ==
  /\ phase = "role"
  /\ \/ cluster[at] = "up" /\ role[at] = "super" /\ Goto("next")
     \/ /\ cluster[at] # "up" \/ role[at] # "super" \/ "psql" \in Faults
        /\ Goto("grant")
  /\ UNCHANGED servers

\* createuser makes no superuser of a role that exists.
CreateSuperuser ==
  /\ phase = "grant"
  /\ \/ /\ cluster[at] = "up" /\ role[at] = "none"
        /\ role' = [role EXCEPT ![at] = "super"]
        /\ Goto("next") /\ UNCHANGED cluster
     \/ (cluster[at] # "up" \/ role[at] # "none" \/ ToolFails) /\ Fail

\* Clones that failed are printed; they make no difference otherwise.
EndInit ==
  /\ phase = "next" /\ left = {}
  /\ phase' = "idle" /\ at' = None
  /\ said' = IF errs = {} THEN "ok" ELSE "errors"
  /\ errs' = {}
  /\ UNCHANGED <<repo, thread, servers, left, stale>>

-----------------------------------------------------------------------------
(* What else happens.                                                      *)

\* init is killed, and its git commands with it.
KillInit ==
  /\ "kill" \in Faults /\ phase # "idle"
  /\ phase' = "idle" /\ said' = "killed"
  /\ left' = {} /\ at' = None /\ errs' = {}
  /\ thread' = [r \in Repos |-> "done"] /\ stale' = {}
  /\ UNCHANGED <<repo, servers>>

RemoveClone(r) ==
  /\ phase = "idle" /\ repo[r] \in {"half", "bare"}
  /\ repo' = [repo EXCEPT ![r] = "none"]
  /\ UNCHANGED <<servers, thread, phase, left, at, errs, said, stale>>

\* The host's administrator starts and stops clusters.
Toggle(k) ==
  /\ cluster[k] # "absent"
  /\ cluster' = [cluster EXCEPT ![k] = IF @ = "up" THEN "down" ELSE "up"]
  /\ UNCHANGED <<clones, role, phase, left, at, said>>

-----------------------------------------------------------------------------
WorkspaceInit ==
  /\ repo = [r \in Repos |-> "none"]
  /\ cluster \in [Clusters -> {"absent", "up"}]
  /\ role \in [Clusters -> {"none", "plain", "super"}]
  /\ \A k \in Clusters : cluster[k] = "absent" => role[k] = "none"
  /\ thread = [r \in Repos |-> "done"]
  /\ phase = "idle" /\ left = {} /\ at = None /\ errs = {} /\ said = None
  /\ stale = {}

InitCommand ==
  \/ BeginInit
  \/ \E r \in Repos : CheckDest(r) \/ CloneEnds(r) \/ SetRefspec(r)
  \/ ClonesDone
  \/ \E k \in Clusters : NextCluster(k)
  \/ PgIsReady \/ ClusterExists \/ CreateCluster \/ ClusterRunning
  \/ StartCluster \/ SuperuserExists \/ CreateSuperuser \/ EndInit

WorkspaceNext ==
  \/ InitCommand \/ KillInit
  \/ \E r \in Repos : RemoveClone(r)
  \/ \E k \in Clusters : Toggle(k)

-----------------------------------------------------------------------------
(* What is checked.                                                        *)

WorkspaceTypeOK ==
  /\ repo \in [Repos -> {"none", "half", "bare", "ready"}]
  /\ cluster \in [Clusters -> {"absent", "down", "up"}]
  /\ role \in [Clusters -> {"none", "plain", "super"}]
  /\ thread \in [Repos -> {"check", "fetch", "config", "done"}]
  /\ phase \in Phases
  /\ left \subseteq Clusters /\ at \in Clusters \cup {None}
  /\ errs \subseteq Repos /\ stale \subseteq Repos
  /\ said \in {"ok", "errors", "failed", "killed", None}
  /\ phase \notin {"idle", "clone", "next"} => at \in Clusters

\* An init that reports no error has left every cluster made, with the operator
\* its superuser, and every repository cloned, with its refspec, but those of
\* which it found a clone begun and never finished.  Those it skips, so that
\* "Safe to re-run: existing repos ... are skipped" (cli.py:167) is false of
\* them: no init after one that was killed, or failed after git clone, repairs
\* or reports what it left (workspace.py:142).  What fails, and whichever query
\* answers nothing, within the init itself it does report.
InitCompletes ==
  said = "ok" =>
    /\ \A r \in Repos \ stale : repo[r] = "ready"
    /\ \A k \in Clusters : cluster[k] # "absent" /\ role[k] = "super"

=============================================================================
