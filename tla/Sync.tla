-------------------------------- MODULE Sync --------------------------------
(***************************************************************************)
(* Git synchronisation: what fetch, sync, push, reset and pull-base do to  *)
(* the branches of a workspace.  A bare repository serves the worktrees of *)
(* several instances, each on a branch of its own; users edit and commit   *)
(* in the worktrees and colleagues push to origin while owm looks first    *)
(* and acts later.                                                         *)
(*                                                                         *)
(* A commit is the change it makes, and a branch the set of changes in its *)
(* history: ahead, behind and diverged are inclusions of sets, a merge or  *)
(* a rebase is their union.  Files are what is checked out.                *)
(***************************************************************************)
EXTENDS FiniteSets

CONSTANTS
  Worktrees,   \* one per instance and repository, with its branch
  RepoOf,      \* the repository of a worktree
  InstanceOf,  \* the instance of a worktree
  Shared,      \* worktrees with shared = true
  Readonly,    \* worktrees with readonly = true
  Tracked,     \* worktrees whose bare repository has refs/remotes/origin/
  Upstream,    \* worktrees whose branch has @{u} configured
  Changes,     \* the changes anybody makes
  Clients,     \* owm processes
  Commands,    \* the commands they run
  None

AllCommands == {"fetch", "sync", "mcpSync", "push", "pushAll", "reset", "resetAll", "pullBase"}

ASSUME RepoAssumption == DOMAIN RepoOf = Worktrees /\ DOMAIN InstanceOf = Worktrees
ASSUME TrackedAssumption == Upstream \subseteq Tracked /\ Tracked \subseteq Worktrees
ASSUME CommandsAssumption == Commands \subseteq AllCommands
ASSUME NoneAssumption == None \notin Worktrees

VARIABLES
  origin,     \* per worktree, its branch at the origin
  published,  \* the worktrees whose branch is at the origin
  head,       \* refs/heads/<branch> of the bare repository: HEAD of the worktree
  track,      \* refs/remotes/origin/<branch>
  known,      \* the worktrees for which that reference exists
  main,       \* refs/remotes/origin/<base>, as last fetched by hand
  files,      \* the committed changes that index and files contain
  edits,      \* the uncommitted ones
  busy,       \* the merge or rebase that has stopped in a worktree
  settled,    \* history: changes nobody expects to find: lost in a reset that
              \* was asked for, or merged by a colleague who deleted the branch
  swept,      \* history: changes owm has discarded without being asked to
  made,       \* history: every change made so far
  pc, cmd,    \* per client, its step and its command
  flag,       \* --rebase, --force
  todo,       \* the worktrees the step is still to be done for
  seen,       \* the status of each as it was read; for fetch, what ls-remote lists
  at          \* the worktree of the merge to be aborted, of the push to be fetched

branches == <<origin, published, head, track, known, main>>
trees == <<files, edits, busy>>
work == <<settled, swept, made>>
git == <<branches, trees, work>>
local == <<pc, cmd, flag, todo, seen, at>>
vars == <<git, local>>

Init ==
  /\ published \in SUBSET Worktrees
  /\ known = published \cap Tracked
  /\ origin = [w \in Worktrees |-> {}] /\ head = origin /\ track = origin
  /\ main = origin /\ files = origin /\ edits = origin
  /\ busy = [w \in Worktrees |-> "no"]
  /\ settled = {} /\ swept = {} /\ made = {}
  /\ pc = [c \in Clients |-> "idle"] /\ cmd = [c \in Clients |-> "none"]
  /\ flag = [c \in Clients |-> FALSE]
  /\ todo = [c \in Clients |-> {}] /\ seen = [c \in Clients |-> [w \in Worktrees |-> "unread"]]
  /\ at = [c \in Clients |-> None]

Statuses == {"unread", "clean", "dirty", "ahead", "behind", "diverged"}

-----------------------------------------------------------------------------
(* What git sees and decides.                                              *)

Untidy(w) == edits[w] # {} \/ files[w] # head[w]

\* read_repo_state.  Without origin/<branch> nothing is ahead or behind.
Status(w) ==
  IF Untidy(w) \/ busy[w] # "no" THEN "dirty"
  ELSE IF w \notin known THEN "clean"
  ELSE IF ~(head[w] \subseteq track[w])
       THEN IF track[w] \subseteq head[w] THEN "ahead" ELSE "diverged"
       ELSE IF head[w] # track[w] THEN "behind" ELSE "clean"

\* Otherwise a merge or rebase is called for, which may conflict.
FastForwards(w, theirs) == head[w] \subseteq theirs \/ theirs \subseteq head[w]

\* The branch and the files take over a history.
Advance(w, theirs) ==
  /\ head' = [head EXCEPT ![w] = @ \cup theirs]
  /\ files' = [files EXCEPT ![w] = @ \cup (theirs \ head[w])]

-----------------------------------------------------------------------------
(* Users and colleagues.                                                   *)

Edit(w, x) ==
  /\ busy[w] = "no" /\ x \notin made /\ made' = made \cup {x}
  /\ edits' = [edits EXCEPT ![w] = @ \cup {x}]
  /\ UNCHANGED <<branches, files, busy, settled, swept, local>>

\* git commit.  Bound: users bring their files up to date before they commit.
Commit(w) ==
  /\ busy[w] = "no" /\ edits[w] # {} /\ files[w] = head[w]
  /\ head' = [head EXCEPT ![w] = @ \cup edits[w]]
  /\ files' = [files EXCEPT ![w] = @ \cup edits[w]]
  /\ edits' = [edits EXCEPT ![w] = {}]
  /\ UNCHANGED <<origin, published, track, known, main, busy, work, local>>

\* git stash, git reset --hard, git stash pop.
CatchUp(w) ==
  /\ busy[w] = "no" /\ files[w] # head[w]
  /\ files' = [files EXCEPT ![w] = head[w]]
  /\ UNCHANGED <<branches, edits, busy, work, local>>

\* git rebase --abort.
GiveUpRebase(w) ==
  /\ busy[w] = "rebase"
  /\ busy' = [busy EXCEPT ![w] = "no"]
  /\ UNCHANGED <<branches, files, edits, work, local>>

\* A colleague pushes to the branch, brings it up to date with the base at the
\* origin, deletes it once it is merged, or merges something into the base,
\* which the user fetches.
Colleague(w, x) ==
  /\ w \in published /\ x \notin made /\ made' = made \cup {x}
  /\ origin' = [origin EXCEPT ![w] = @ \cup {x}]
  /\ UNCHANGED <<published, head, track, known, main, trees, settled, swept, local>>

BranchUpdated(w) ==
  /\ w \in published
  /\ origin' = [origin EXCEPT ![w] = @ \cup main[w]]
  /\ UNCHANGED <<published, head, track, known, main, trees, work, local>>

BranchDeleted(w) ==
  /\ w \in published
  /\ published' = published \ {w}
  /\ origin' = [origin EXCEPT ![w] = {}]
  /\ settled' = settled \cup origin[w]
  /\ UNCHANGED <<head, track, known, main, trees, swept, made, local>>

BaseMoves(w, x) ==
  /\ w \in Tracked /\ x \notin made /\ made' = made \cup {x}
  /\ main' = [v \in Worktrees |-> IF RepoOf[v] = RepoOf[w] THEN main[v] \cup {x} ELSE main[v]]
  /\ UNCHANGED <<origin, published, head, track, known, trees, settled, swept, local>>

\* git fetch by hand, with the refspec of a repository that keeps origin/.
FetchByHand(w) ==
  /\ w \in published \cap Tracked
  /\ track' = [track EXCEPT ![w] = origin[w]]
  /\ known' = known \cup {w}
  /\ UNCHANGED <<origin, published, head, main, trees, work, local>>

-----------------------------------------------------------------------------
(* Commands: a look at every worktree, then the action the policy selects. *)

\* What a command is run on: fetch on a repository (a workspace's fetch is one
\* after the other), the tools for push and reset on one worktree, the others
\* on an instance or, with --repo, on one worktree of it.  pull-base leaves
\* shared worktrees out.
Scope(command) ==
  LET repos == {{w \in Worktrees : RepoOf[w] = RepoOf[v]} : v \in Worktrees}
      instances == {{w \in Worktrees : InstanceOf[w] = InstanceOf[v]} : v \in Worktrees}
      single == {{w} : w \in Worktrees}
  IN  CASE command = "fetch" -> repos
        [] command \in {"push", "reset"} -> single
        [] command \in {"pushAll", "resetAll"} -> instances
        [] command = "pullBase" -> {ws \ Shared : ws \in instances \cup single}
        [] OTHER -> instances \cup single

Begin(c) ==
  /\ pc[c] = "idle"
  /\ \E command \in Commands, f \in BOOLEAN : \E ws \in Scope(command) \ {{}} :
       /\ f => command \in {"sync", "mcpSync", "reset", "resetAll"}
       /\ cmd' = [cmd EXCEPT ![c] = command]
       /\ flag' = [flag EXCEPT ![c] = f]
       /\ todo' = [todo EXCEPT ![c] = ws]
       /\ pc' = [pc EXCEPT ![c] = IF command = "fetch" THEN "list" ELSE "look"]
  /\ UNCHANGED <<git, seen, at>>

\* The command returns, and what it saw is forgotten with it.
Return(c) ==
  /\ pc' = [pc EXCEPT ![c] = "idle"] /\ cmd' = [cmd EXCEPT ![c] = "none"]
  /\ flag' = [flag EXCEPT ![c] = FALSE]
  /\ todo' = [todo EXCEPT ![c] = {}]
  /\ seen' = [seen EXCEPT ![c] = [w \in Worktrees |-> "unread"]]
  /\ at' = [at EXCEPT ![c] = None]

\* The command acts on these worktrees, if there are any.
Act(c, ws) ==
  IF ws = {} THEN Return(c)
  ELSE /\ pc' = [pc EXCEPT ![c] = "act"]
       /\ todo' = [todo EXCEPT ![c] = ws]
       /\ at' = [at EXCEPT ![c] = None]
       /\ UNCHANGED <<cmd, flag>>

\* A worktree is dealt with.
Done(c, w) == Act(c, todo[c] \ {w}) /\ (todo[c] # {w} => seen' = seen)

\* sync_instance, push_instance and reset_instance: which worktrees a command
\* acts on.  push --all asks for an owner nobody has noted, and reset --all for
\* a "dirty" nobody has noted.
SyncSelects(w, status, rebase) ==
  w \notin Shared /\ (status = "behind" \/ (rebase /\ status = "diverged"))

PushSelects(w, status, all) ==
  IF all THEN w \notin Shared /\ status = "ahead"
         ELSE w \notin Shared \cup Readonly /\ status # "diverged"

ResetSelects(w, status, all, force) ==
  IF all THEN w \notin Shared ELSE status = "dirty" => force

Selected(c, status) ==
  {w \in Worktrees : status[w] # "unread" /\
     CASE cmd[c] \in {"sync", "mcpSync"} -> SyncSelects(w, status[w], flag[c])
       [] cmd[c] \in {"push", "pushAll"} -> PushSelects(w, status[w], cmd[c] = "pushAll")
       [] cmd[c] \in {"reset", "resetAll"} ->
            ResetSelects(w, status[w], cmd[c] = "resetAll", flag[c])
       [] OTHER -> TRUE}

\* The decisions a command acts on: what still matters of what it has seen.
Remembered(c, status) ==
  LET asked == CASE cmd[c] \in {"sync", "mcpSync"} -> {"behind", "diverged"}
                 [] cmd[c] \in {"reset", "resetAll"} -> {"dirty"}
                 [] OTHER -> {}
  IN  [w \in Worktrees |-> IF status[w] \in asked THEN status[w] ELSE "unread"]

\* read_repo_state of one worktree; pull-base gives up on the first dirty one.
Look(c, w) ==
  /\ pc[c] = "look" /\ w \in todo[c]
  /\ LET status == [seen[c] EXCEPT ![w] = Status(w)] IN
     IF cmd[c] = "pullBase" /\ Status(w) = "dirty" THEN Return(c)
     ELSE IF todo[c] # {w}
     THEN /\ seen' = [seen EXCEPT ![c] = status]
          /\ todo' = [todo EXCEPT ![c] = @ \ {w}]
          /\ UNCHANGED <<pc, cmd, flag, at>>
     ELSE /\ Act(c, Selected(c, status))
          /\ Selected(c, status) # {} => seen' = [seen EXCEPT ![c] = Remembered(c, status)]
  /\ UNCHANGED git

Acting(c, w, commands) == pc[c] = "act" /\ w \in todo[c] /\ cmd[c] \in commands

\* Git refuses, or fails.  The command line goes on to the next worktree, the
\* tools and pages let the error through.
Fails(c, w) == IF cmd[c] = "mcpSync" THEN Return(c) ELSE Done(c, w)

GitFails(c, w) ==
  /\ Acting(c, w, AllCommands \ {"pullBase"})
  /\ Fails(c, w)
  /\ UNCHANGED git

-----------------------------------------------------------------------------
(* sync                                                                    *)

\* Mutant of FastForward: git reset --hard origin/<branch>.
FastForwardByReset(c, w) ==
  /\ Acting(c, w, {"sync", "mcpSync"}) /\ seen[c][w] = "behind" /\ busy[w] = "no"
  /\ head' = [head EXCEPT ![w] = track[w]] /\ files' = [files EXCEPT ![w] = track[w]]
  /\ Done(c, w)
  /\ UNCHANGED <<origin, published, track, known, main, edits, busy, work>>

\* git merge --ff-only origin/<branch>.
FastForward(c, w) ==
  /\ Acting(c, w, {"sync", "mcpSync"}) /\ seen[c][w] = "behind"
  /\ FastForwards(w, track[w]) /\ busy[w] = "no"
  /\ Advance(w, track[w])
  /\ Done(c, w)
  /\ UNCHANGED <<origin, published, track, known, main, edits, busy, work>>

\* git rebase @{u}.
Rebasing(c, w) ==
  /\ Acting(c, w, {"sync", "mcpSync"}) /\ seen[c][w] = "diverged"
  /\ w \in Upstream \cap known /\ ~Untidy(w) /\ busy[w] = "no"

Rebase(c, w) ==
  /\ Rebasing(c, w)
  /\ Advance(w, track[w])
  /\ Done(c, w)
  /\ UNCHANGED <<origin, published, track, known, main, edits, busy, work>>

\* A rebase that conflicts stays where it stopped: nothing aborts it.
RebaseStops(c, w) ==
  /\ Rebasing(c, w) /\ ~FastForwards(w, track[w])
  /\ busy' = [busy EXCEPT ![w] = "rebase"]
  /\ Fails(c, w)
  /\ UNCHANGED <<branches, files, edits, work>>

-----------------------------------------------------------------------------
(* push and fetch                                                          *)

\* Mutants of Push: with --force; to the URL of the origin, which leaves
\* origin/<branch> behind; taking a refused push for done.
PushForced(c, w) ==
  /\ Acting(c, w, {"push", "pushAll"})
  /\ busy[w] # "rebase"
  /\ origin' = [origin EXCEPT ![w] = head[w]]
  /\ published' = published \cup {w}
  /\ track' = IF w \in Tracked THEN [track EXCEPT ![w] = head[w]] ELSE track
  /\ known' = known \cup ({w} \cap Tracked)
  /\ IF cmd[c] = "pushAll"
     THEN /\ pc' = [pc EXCEPT ![c] = "refetch"] /\ at' = [at EXCEPT ![c] = w]
          /\ UNCHANGED <<cmd, flag, todo, seen>>
     ELSE Done(c, w)
  /\ UNCHANGED <<head, main, trees, work>>

PushByUrl(c, w) ==
  /\ Acting(c, w, {"push", "pushAll"})
  /\ busy[w] # "rebase" /\ origin[w] \subseteq head[w]
  /\ origin' = [origin EXCEPT ![w] = head[w]]
  /\ published' = published \cup {w}
  /\ IF cmd[c] = "pushAll"
     THEN /\ pc' = [pc EXCEPT ![c] = "refetch"] /\ at' = [at EXCEPT ![c] = w]
          /\ UNCHANGED <<cmd, flag, todo, seen>>
     ELSE Done(c, w)
  /\ UNCHANGED <<head, track, known, main, trees, work>>

PushAssumed(c, w) ==
  /\ Acting(c, w, {"push", "pushAll"})
  /\ busy[w] # "rebase"
  /\ track' = IF w \in Tracked THEN [track EXCEPT ![w] = head[w]] ELSE track
  /\ known' = known \cup ({w} \cap Tracked)
  /\ IF cmd[c] = "pushAll"
     THEN /\ pc' = [pc EXCEPT ![c] = "refetch"] /\ at' = [at EXCEPT ![c] = w]
          /\ UNCHANGED <<cmd, flag, todo, seen>>
     ELSE Done(c, w)
  /\ UNCHANGED <<origin, published, head, main, trees, work>>

\* git push origin HEAD: refused by the origin unless it fast-forwards, and
\* by git where HEAD is detached.  It moves origin/<branch> too.
Push(c, w) ==
  /\ Acting(c, w, {"push", "pushAll"})
  /\ busy[w] # "rebase" /\ origin[w] \subseteq head[w]
  /\ origin' = [origin EXCEPT ![w] = head[w]]
  /\ published' = published \cup {w}
  /\ track' = IF w \in Tracked THEN [track EXCEPT ![w] = head[w]] ELSE track
  /\ known' = known \cup ({w} \cap Tracked)
  /\ IF cmd[c] = "pushAll"
     THEN /\ pc' = [pc EXCEPT ![c] = "refetch"] /\ at' = [at EXCEPT ![c] = w]
          /\ UNCHANGED <<cmd, flag, todo, seen>>
     ELSE Done(c, w)
  /\ UNCHANGED <<head, main, trees, work>>

\* git fetch --update-head-ok origin +refs/heads/b:refs/heads/b for a batch of
\* branches: all or nothing.  Branches move under their worktrees, files stay,
\* and a branch loses the commits that are not at the origin.
MoveBranches(ws) ==
  /\ ws \subseteq published
  /\ swept' = swept \cup UNION {head[w] \ origin[w] : w \in ws}
  /\ head' = [w \in Worktrees |-> IF w \in ws THEN origin[w] ELSE head[w]]
  /\ track' = [w \in Worktrees |-> IF w \in ws \cap Tracked THEN origin[w] ELSE track[w]]
  /\ known' = known \cup (ws \cap Tracked)
  /\ UNCHANGED <<origin, published, main, trees, settled, made>>

\* push --all brings the bare repository up to date after each push.
Refetch(c) ==
  /\ pc[c] = "refetch"
  /\ MoveBranches({at[c]}) \/ UNCHANGED git
  /\ Done(c, at[c])

\* list_origin_branches: a branch that is not at the origin would make the
\* fetch of the others fail, and is left out.
List(c) ==
  /\ pc[c] = "list"
  /\ IF todo[c] \cap published = {} THEN Return(c)
     ELSE /\ pc' = [pc EXCEPT ![c] = "fetch"]
          /\ todo' = [todo EXCEPT ![c] = @ \cap published]
          /\ UNCHANGED <<cmd, flag, seen, at>>
  /\ UNCHANGED git

Fetch(c) ==
  /\ pc[c] = "fetch"
  /\ MoveBranches(todo[c])
  /\ Return(c)

\* The origin is unreachable, too slow, or has lost one of the branches.
FetchFails(c) ==
  /\ pc[c] \in {"list", "fetch"}
  /\ Return(c)
  /\ UNCHANGED git

-----------------------------------------------------------------------------
(* reset and pull-base                                                     *)

\* git reset --hard @{u}, or HEAD where there is no upstream, and git clean.  A
\* rebase that has stopped has detached HEAD: the branch stays.
ResetTarget(w) ==
  IF w \in Upstream \cap known /\ busy[w] # "rebase" THEN track[w] ELSE head[w]

Reset(c, w) ==
  /\ Acting(c, w, {"reset", "resetAll"})
  /\ LET target == ResetTarget(w) IN
       /\ head' = [head EXCEPT ![w] = target]
       /\ files' = [files EXCEPT ![w] = target]
       /\ settled' = settled \cup (head[w] \ target) \cup (IF flag[c] THEN edits[w] ELSE {})
       /\ swept' = IF flag[c] THEN swept ELSE swept \cup edits[w]
  /\ edits' = [edits EXCEPT ![w] = {}]
  /\ busy' = [busy EXCEPT ![w] = IF @ = "merge" THEN "no" ELSE @]
  /\ Done(c, w)
  /\ UNCHANGED <<origin, published, track, known, main, made>>

\* git merge --no-edit origin/<base>.
MergeBase(c, w) ==
  /\ Acting(c, w, {"pullBase"})
  /\ w \in Tracked /\ busy[w] = "no"
  /\ FastForwards(w, main[w]) \/ files[w] = head[w]
  /\ Advance(w, main[w])
  /\ Done(c, w)
  /\ UNCHANGED <<origin, published, track, known, main, edits, busy, work>>

\* Mutant of MergeFails: the worktree to abort in is not kept.
MergeFailsSomewhere(c, w) ==
  /\ Acting(c, w, {"pullBase"})
  /\ pc' = [pc EXCEPT ![c] = "abort"]
  /\ UNCHANGED <<git, cmd, flag, todo, seen, at>>

\* It conflicts, or git will not even begin (the user's edits are in the way,
\* there is no origin/<base>, another merge has stopped here).  pull-base does
\* not tell these apart and aborts.
MergeFails(c, w) ==
  /\ Acting(c, w, {"pullBase"})
  /\ \/ /\ w \in Tracked /\ busy[w] = "no" /\ files[w] = head[w]
        /\ ~FastForwards(w, main[w])
        /\ busy' = [busy EXCEPT ![w] = "merge"]
     \/ busy' = busy
  /\ pc' = [pc EXCEPT ![c] = "abort"]
  /\ at' = [at EXCEPT ![c] = w]
  /\ UNCHANGED <<branches, files, edits, work, cmd, flag, todo, seen>>

\* Mutant of AbortMerge: the conflict is reported and left there.
AbortForgotten(c) ==
  /\ pc[c] = "abort"
  /\ Done(c, at[c])
  /\ UNCHANGED git

\* git merge --abort.
AbortMerge(c) ==
  /\ pc[c] = "abort"
  /\ busy' = [busy EXCEPT ![at[c]] = IF @ = "merge" THEN "no" ELSE @]
  /\ Done(c, at[c])
  /\ UNCHANGED <<branches, files, edits, work>>

-----------------------------------------------------------------------------
User ==
  \E w \in Worktrees :
    \/ \E x \in Changes : Edit(w, x) \/ Colleague(w, x) \/ BaseMoves(w, x)
    \/ Commit(w) \/ CatchUp(w) \/ GiveUpRebase(w)
    \/ BranchUpdated(w) \/ BranchDeleted(w) \/ FetchByHand(w)

Owm(c) ==
  \/ Begin(c) \/ List(c) \/ Fetch(c) \/ FetchFails(c) \/ Refetch(c) \/ AbortMerge(c)
  \/ \E w \in Worktrees :
       \/ Look(c, w) \/ GitFails(c, w) \/ FastForward(c, w) \/ Rebase(c, w) \/ RebaseStops(c, w)
       \/ Push(c, w) \/ Reset(c, w) \/ MergeBase(c, w) \/ MergeFails(c, w)

Next == User \/ \E c \in Clients : Owm(c)

Spec == Init /\ [][Next]_vars

-----------------------------------------------------------------------------
(* Properties.                                                             *)

GitOK ==
  /\ \A f \in {origin, head, track, main, files, edits} : f \in [Worktrees -> SUBSET Changes]
  /\ published \subseteq Worktrees /\ known \subseteq Tracked
  /\ settled \subseteq Changes /\ swept \subseteq Changes /\ made \subseteq Changes
  /\ busy \in [Worktrees -> {"no", "merge", "rebase"}]

LocalOK ==
  /\ pc \in [Clients -> {"idle", "look", "act", "list", "fetch", "refetch", "abort"}]
  /\ cmd \in [Clients -> AllCommands \cup {"none"}] /\ flag \in [Clients -> BOOLEAN]
  /\ todo \in [Clients -> SUBSET Worktrees] /\ at \in [Clients -> Worktrees \cup {None}]
  /\ seen \in [Clients -> [Worktrees -> Statuses]]
  /\ \A c \in Clients : pc[c] \in {"refetch", "abort"} => at[c] # None

TypeOK == GitOK /\ LocalOK

Kept == UNION {origin[w] \cup main[w] \cup head[w] \cup edits[w] : w \in Worktrees}

\* Every change that anybody has made is at the origin, on a branch or
\* uncommitted in a worktree, unless its user has reset it away or a colleague
\* has merged it: a command never relies on what it read of a worktree before
\* users, colleagues and other commands went on.  Two commands do discard
\* changes nobody has asked them to: a fetch, with its forced refspec, the
\* commits that are not at the origin (sync.py:179), where spec.md:659 has a
\* hard stop, and a reset without --force what it has not seen, or with --all
\* has not looked for (sync.py:671).
NoChangeLost == made \subseteq Kept \cup settled \cup swept

\* "No tool touches upstream destructively" (spec.md): what has been pushed to
\* a branch stays there, until somebody deletes the branch.
OriginOnlyGrows == [][\A w \in Worktrees : origin[w] \subseteq origin'[w] \/ w \notin published']_vars

\* read_repo_state compares with origin/<branch>, not with the origin.  That is
\* safe in one direction: what it takes for pushed has been pushed.
TrackWasPushed == \A w \in known : track[w] \subseteq origin[w] \cup settled

\* A rebase rewrites what the worktree has and origin/<branch> has not, and must
\* not rewrite what has been pushed to the branch, which colleagues may have: it
\* rewrites nothing of that kind but what came with the base, which pull-base
\* merges here and colleagues merge at the origin (sync.py:259, 638).
RebaseIsLocal ==
  \A w \in known : (head[w] \ track[w]) \cap origin[w] \subseteq main[w]

\* A merge that pull-base began is over when pull-base is ("aborts cleanly").
MergesEnd ==
  \A w \in Worktrees : busy[w] = "merge" => \E c \in Clients : pc[c] = "abort" /\ at[c] = w

\* reset refuses a worktree it has seen to be dirty unless it is forced
\* (test_reset_dirty_without_force_exits_nonzero).
ResetAsks ==
  [][\A c \in Clients, w \in Worktrees :
       Reset(c, w) /\ seen[c][w] = "dirty" => flag[c]]_vars

=============================================================================
