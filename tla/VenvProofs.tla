----------------------------- MODULE VenvProofs ------------------------------
(***************************************************************************)
(* owm init and the environments of instances: theorems about Workspace    *)
(* and Venv, for any repositories, clusters, requirement files and any     *)
(* number of processes that start an instance.                             *)
(***************************************************************************)
EXTENDS Venv, TLAPS

USE WorkspaceAssumption, VenvAssumption

-----------------------------------------------------------------------------
(* owm init.                                                               *)

LEMMA WorkspaceTyped ==
  ASSUME WorkspaceTypeOK, [WorkspaceNext]_workspaceVars
  PROVE  WorkspaceTypeOK'
<1> USE DEF WorkspaceTypeOK, Phases, clones, servers, ThreadGoto, Goto
<1>1. CASE BeginInit
  BY <1>1 DEF BeginInit
<1>2. ASSUME NEW r \in Repos, CheckDest(r) \/ CloneEnds(r) \/ SetRefspec(r) \/ RemoveClone(r)
      PROVE  WorkspaceTypeOK'
  BY <1>2 DEF CheckDest, CloneEnds, SetRefspec, RemoveClone
<1>3. CASE ClonesDone \/ \E k \in Clusters : NextCluster(k)
  BY <1>3 DEF ClonesDone, NextCluster
<1>4. CASE PgIsReady \/ ClusterExists \/ ClusterRunning \/ SuperuserExists
  BY <1>4 DEF PgIsReady, ClusterExists, ClusterRunning, SuperuserExists
<1>5. CASE CreateCluster \/ StartCluster \/ CreateSuperuser
  BY <1>5 DEF CreateCluster, StartCluster, CreateSuperuser, Fail
<1>6. CASE EndInit \/ KillInit
  BY <1>6 DEF EndInit, KillInit
<1>7. ASSUME NEW k \in Clusters, Toggle(k) PROVE WorkspaceTypeOK'
  BY <1>7 DEF Toggle
<1>8. CASE UNCHANGED workspaceVars
  BY <1>8 DEF workspaceVars
<1>9. QED
  BY <1>1, <1>2, <1>3, <1>4, <1>5, <1>6, <1>7, <1>8 DEF WorkspaceNext, InitCommand

\* Where the threads are, and what they have left: past the clones, each
\* repository is ready or has its error, or init found it broken.
CloneInv ==
  /\ \A r \in Repos :
       /\ thread[r] # "done" => phase = "clone"
       /\ thread[r] = "check" => repo[r] \in {"none", "ready"} \/ r \in stale
       /\ thread[r] = "fetch" => repo[r] = "half"
       /\ thread[r] = "config" => repo[r] = "bare"
       /\ phase # "idle" /\ thread[r] = "done" =>
            repo[r] = "ready" \/ r \in errs \/ r \in stale
  /\ said = "ok" => phase = "idle" /\ \A r \in Repos \ stale : repo[r] = "ready"

\* Every cluster is still to come, or the one init is at, or in order.
ClusterInv ==
  /\ phase \notin {"idle", "clone"} =>
       \A k \in Clusters \ left :
         \/ at = k /\ phase # "next"
         \/ cluster[k] # "absent" /\ role[k] = "super"
  /\ said = "ok" =>
       phase = "idle" /\ \A k \in Clusters : cluster[k] # "absent" /\ role[k] = "super"

LEMMA ClonesInductive ==
  ASSUME WorkspaceTypeOK, CloneInv, [WorkspaceNext]_workspaceVars
  PROVE  CloneInv'
<1> USE DEF WorkspaceTypeOK, CloneInv, clones, servers
<1>1. CASE BeginInit
  BY <1>1 DEF BeginInit
<1>2. ASSUME NEW r \in Repos, CheckDest(r) \/ CloneEnds(r) \/ SetRefspec(r) \/ RemoveClone(r)
      PROVE  CloneInv'
  BY <1>2 DEF CheckDest, CloneEnds, SetRefspec, RemoveClone, ThreadGoto
<1>3. CASE ClonesDone \/ \E k \in Clusters : NextCluster(k)
  BY <1>3 DEF ClonesDone, NextCluster
<1>4. CASE PgIsReady \/ ClusterExists \/ ClusterRunning \/ SuperuserExists
  BY <1>4 DEF PgIsReady, ClusterExists, ClusterRunning, SuperuserExists, Goto
<1>5. CASE CreateCluster \/ StartCluster \/ CreateSuperuser
  BY <1>5 DEF CreateCluster, StartCluster, CreateSuperuser, Fail, Goto
<1>6. CASE EndInit \/ KillInit
  BY <1>6 DEF EndInit, KillInit
<1>7. ASSUME NEW k \in Clusters, Toggle(k) PROVE CloneInv'
  BY <1>7 DEF Toggle
<1>8. CASE UNCHANGED workspaceVars
  BY <1>8 DEF workspaceVars
<1>9. QED
  BY <1>1, <1>2, <1>3, <1>4, <1>5, <1>6, <1>7, <1>8 DEF WorkspaceNext, InitCommand

LEMMA ClustersInductive ==
  ASSUME WorkspaceTypeOK, ClusterInv, [WorkspaceNext]_workspaceVars
  PROVE  ClusterInv'
<1> USE DEF WorkspaceTypeOK, ClusterInv, clones, servers
<1>1. CASE BeginInit
  BY <1>1 DEF BeginInit
<1>2. ASSUME NEW r \in Repos, CheckDest(r) \/ CloneEnds(r) \/ SetRefspec(r) \/ RemoveClone(r)
      PROVE  ClusterInv'
  BY <1>2 DEF CheckDest, CloneEnds, SetRefspec, RemoveClone
<1>3. CASE ClonesDone \/ \E k \in Clusters : NextCluster(k)
  <2>1. CASE ClonesDone
    <3>1. phase' = "next" /\ Clusters \ left' = {} /\ said' # "ok"
      BY <2>1 DEF ClonesDone
    <3>2. QED
      BY <3>1
  <2>2. ASSUME NEW k \in Clusters, NextCluster(k) PROVE ClusterInv'
    BY <2>2 DEF NextCluster
  <2>3. QED
    BY <1>3, <2>1, <2>2
<1>4. CASE PgIsReady \/ ClusterExists \/ ClusterRunning \/ SuperuserExists
  BY <1>4 DEF PgIsReady, ClusterExists, ClusterRunning, SuperuserExists, Goto
<1>5. CASE CreateCluster \/ StartCluster \/ CreateSuperuser
  BY <1>5 DEF CreateCluster, StartCluster, CreateSuperuser, Fail, Goto
<1>6. CASE EndInit \/ KillInit
  BY <1>6 DEF EndInit, KillInit
<1>7. ASSUME NEW k \in Clusters, Toggle(k) PROVE ClusterInv'
  BY <1>7 DEF Toggle
<1>8. CASE UNCHANGED workspaceVars
  BY <1>8 DEF workspaceVars
<1>9. QED
  BY <1>1, <1>2, <1>3, <1>4, <1>5, <1>6, <1>7, <1>8 DEF WorkspaceNext, InitCommand

WorkspaceInv == CloneInv /\ ClusterInv

\* An init that reports no error has left every cluster in order, and every
\* repository but those of which it found a clone that was never finished.
THEOREM InitCorrect == Spec => []InitCompletes
<1> DEFINE Inv == WorkspaceTypeOK /\ WorkspaceInv
<1>1. Init => Inv
  BY DEF Init, WorkspaceInit, WorkspaceTypeOK, WorkspaceInv, CloneInv, ClusterInv, Phases
<1>2. [Next]_vars => [WorkspaceNext]_workspaceVars
  BY DEF Next, vars
<1>3. Inv /\ [Next]_vars => Inv'
  <2>1. Inv /\ [WorkspaceNext]_workspaceVars => Inv'
    BY WorkspaceTyped, ClonesInductive, ClustersInductive DEF WorkspaceInv
  <2>2. QED
    BY <1>2, <2>1
<1>4. Inv => InitCompletes
  BY DEF WorkspaceInv, CloneInv, ClusterInv, InitCompletes
<1>5. QED
  BY <1>1, <1>3, <1>4, PTL DEF Spec

-----------------------------------------------------------------------------
(* Environments: what is there of one, and of its stamp.                   *)

\* A worker at one of these steps has an environment to work on.
NeedsVenv(w) ==
  \/ pc[w] \in {"uvEnds", "stamp", "install", "write"}
  \/ w \in Starters /\ pc[w] # "idle"

\* Only an installation has files to go.
WorkerTyped(w) ==
  /\ NeedsVenv(w) => venv # "none"
  /\ pc[w] \notin {"install", "write"} => todo[w] = {}

VenvTyped == TypeOK /\ \A w \in Workers : WorkerTyped(w)

LEMMA StampOf ==
  ASSUME TypeOK, NEW F \in SUBSET Files
  PROVE  /\ ComputeStamp(F) \in Stamps /\ ComputeStamp(F) # None
         /\ DOMAIN ComputeStamp(F) = F
         /\ \A f \in F : ComputeStamp(F)[f] = IF text[f] = None THEN Empty ELSE text[f]
<1>1. ComputeStamp(F) \in [F -> Contents \cup {Empty}]
  BY DEF TypeOK, ComputeStamp
<1>2. ComputeStamp(F) \in Stamps
  BY <1>1 DEF Stamps
<1>3. QED
  BY <1>2 DEF ComputeStamp

LEMMA CollectedFiles == TypeOK => Collected \in SUBSET Files
BY DEF TypeOK, Collected

LEMMA DoneTyped ==
  ASSUME VenvTyped, NEW w \in Workers, Done(w),
         UNCHANGED <<workspaceVars, explicit, text, venv, has, stamp>>
  PROVE  VenvTyped'
<1>1. WorkspaceTypeOK'
  BY DEF VenvTyped, TypeOK, workspaceVars, WorkspaceTypeOK
<1>2. TypeOK'
  BY <1>1 DEF VenvTyped, TypeOK, Done, WorkerGoto, AtWork
<1>3. \A v \in Workers : WorkerTyped(v)'
  BY DEF VenvTyped, TypeOK, Done, WorkerGoto, WorkerTyped, NeedsVenv
<1>4. QED
  BY <1>2, <1>3 DEF VenvTyped

LEMMA CommandTyped ==
  ASSUME VenvTyped, NEW w \in Workers, Command(w), UNCHANGED <<workspaceVars, explicit>>
  PROVE  VenvTyped'
<1>0. WorkspaceTypeOK'
  BY DEF VenvTyped, TypeOK, workspaceVars, WorkspaceTypeOK
<1> USE DEF VenvTyped, store
<1>1. CASE BeginCreate(w) \/ BeginStart(w)
  <2>1. TypeOK'
    BY <1>0, <1>1 DEF BeginCreate, BeginStart, WorkerGoto, TypeOK
  <2>2. CASE BeginCreate(w)
    <3>1. w \notin Starters /\ pc' = [pc EXCEPT ![w] = "collect"]
          /\ pc[w] = "idle" /\ UNCHANGED <<venv, todo>>
      BY <2>2 DEF BeginCreate, WorkerGoto
    <3>2. \A v \in Workers : WorkerTyped(v)'
      BY <3>1 DEF WorkerTyped, NeedsVenv, TypeOK
    <3>3. QED
      BY <2>1, <3>2
  <2>3. CASE BeginStart(w)
    <3>1. venv # "none" /\ pc' = [pc EXCEPT ![w] = "collect"]
          /\ pc[w] = "idle" /\ UNCHANGED <<venv, todo>>
      BY <2>3 DEF BeginStart, WorkerGoto
    <3>2. QED
      BY <2>1, <3>1 DEF WorkerTyped, TypeOK
  <2>4. QED
    BY <1>1, <2>2, <2>3
<1>2. CASE Collect(w)
  <2>1. TypeOK'
    <3>1. files' \in [Workers -> SUBSET Files] /\ \A v \in Workers : todo[v] \subseteq files'[v]
      BY <1>2, CollectedFiles DEF Collect, WorkerTyped, TypeOK
    <3>2. pc' = [pc EXCEPT ![w] = "stamp"] \/ pc' = [pc EXCEPT ![w] = "uv"]
      BY <1>2 DEF Collect, WorkerGoto
    <3>3. QED
      BY <1>0, <1>2, <3>1, <3>2 DEF Collect, TypeOK
  <2>2. \A v \in Workers : WorkerTyped(v)'
    BY <1>2 DEF Collect, WorkerGoto, TypeOK, WorkerTyped, NeedsVenv
  <2>3. QED
    BY <2>1, <2>2
<1>3. CASE MakeVenv(w)
  <2>1. TypeOK'
    BY <1>0, <1>3 DEF MakeVenv, WorkerGoto, TypeOK
  <2>2. \A v \in Workers : WorkerTyped(v)'
    BY <1>3 DEF MakeVenv, WorkerGoto, WorkerTyped, TypeOK
  <2>3. QED
    BY <2>1, <2>2
<1>4. CASE VenvMade(w)
  <2>1. CASE Done(w) /\ UNCHANGED venv
    BY <1>4, <2>1, DoneTyped DEF VenvMade
  <2>2. CASE venv' = "made" /\ todo' = [todo EXCEPT ![w] = files[w]]
             /\ WorkerGoto(w, "install") /\ UNCHANGED <<files, current, edited>>
    <3>1. TypeOK'
      BY <1>0, <1>4, <2>2 DEF VenvMade, WorkerGoto, TypeOK
    <3>2. \A v \in Workers : WorkerTyped(v)'
      BY <2>2 DEF WorkerGoto, WorkerTyped, TypeOK
    <3>3. QED
      BY <3>1, <3>2
  <2>3. QED
    BY <1>4, <2>1, <2>2 DEF VenvMade
<1>5. CASE CompareStamp(w)
  <2>1. CASE Done(w)
    BY <1>5, <2>1, DoneTyped DEF CompareStamp
  <2>2. CASE ~Done(w)
    <3>1. /\ current' = [current EXCEPT ![w] = ComputeStamp(files[w])]
          /\ todo' = [todo EXCEPT ![w] = files[w]]
          /\ WorkerGoto(w, "install") /\ pc[w] = "stamp"
          /\ UNCHANGED <<text, venv, has, stamp, files, edited, spent>>
      BY <1>5, <2>2 DEF CompareStamp
    <3>2. ComputeStamp(files[w]) \in Stamps
      BY StampOf DEF TypeOK
    <3>3. TypeOK'
      BY <1>0, <3>1, <3>2 DEF WorkerGoto, TypeOK
    <3>4. \A v \in Workers : WorkerTyped(v)'
      BY <3>1 DEF WorkerGoto, WorkerTyped, NeedsVenv, TypeOK
    <3>5. QED
      BY <3>1, <3>3, <3>4
  <2>3. QED
    BY <2>1, <2>2
<1>6. ASSUME NEW f \in Files, Install(w, f) PROVE VenvTyped'
  <2>1. CASE Done(w) /\ UNCHANGED has
    BY <1>6, <2>1, DoneTyped DEF Install
  <2>2. CASE ~(Done(w) /\ UNCHANGED has)
    <3>1. /\ venv = "made" /\ text[f] # None
          /\ has' = [g \in Files |-> IF g = f THEN text[f]
                                    ELSE IF Variants(f, g) THEN None ELSE has[g]]
          /\ todo' = [todo EXCEPT ![w] = @ \ {f}]
          /\ UNCHANGED <<text, venv, stamp, spent, pc, files, current, edited>>
      BY <1>6, <2>2 DEF Install
    <3>2. has' \in [Files -> Contents \cup {None}]
      BY <3>1 DEF TypeOK
    <3>3. TypeOK'
      BY <1>0, <3>1, <3>2 DEF TypeOK
    <3>4. QED
      BY <3>1, <3>3 DEF WorkerTyped, NeedsVenv
  <2>3. QED
    BY <2>1, <2>2
<1>7. CASE Installed(w)
  <2>1. ComputeStamp(files[w]) \in Stamps
    BY StampOf DEF TypeOK
  <2>2. TypeOK'
    BY <1>0, <1>7, <2>1 DEF Installed, WorkerGoto, TypeOK
  <2>3. \A v \in Workers : WorkerTyped(v)'
    BY <1>7 DEF Installed, WorkerGoto, WorkerTyped, NeedsVenv, TypeOK
  <2>4. QED
    BY <1>7, <2>2, <2>3 DEF Installed
<1>8. CASE WriteStamp(w)
  <2>1. venv # "none" /\ UNCHANGED <<text, venv, has, spent>> /\ stamp' \in {current[w], None}
    BY <1>8 DEF WriteStamp, WorkerTyped, NeedsVenv
  <2>2. pc' = pc \/ WorkerGoto(w, "idle")
    BY <1>8 DEF WriteStamp, Done
  <2>3. TypeOK'
    <3>1. todo' \in [Workers -> SUBSET Files] /\ files' \in [Workers -> SUBSET Files]
          /\ current' \in [Workers -> Stamps \cup {None}] /\ edited' \in BOOLEAN
          /\ \A v \in Workers : todo'[v] \subseteq files'[v]
      <4>1. CASE Done(w)
        BY <4>1 DEF Done, TypeOK
      <4>2. CASE UNCHANGED <<pc, todo, files, current, edited>>
        BY <4>2 DEF TypeOK
      <4>3. QED
        BY <1>8, <4>1, <4>2 DEF WriteStamp
    <3>2. QED
      BY <1>0, <2>1, <2>2, <3>1 DEF TypeOK, WorkerGoto
  <2>4. \A v \in Workers : WorkerTyped(v)'
    <3>1. CASE Done(w)
      BY <2>1, <3>1 DEF Done, WorkerGoto, WorkerTyped, TypeOK
    <3>2. CASE UNCHANGED <<pc, todo>>
      BY <2>1, <3>2 DEF WorkerTyped, NeedsVenv
    <3>3. QED
      BY <1>8, <3>1, <3>2 DEF WriteStamp
  <2>5. QED
    BY <2>3, <2>4
<1>9. CASE KillWorker(w)
  BY <1>9, DoneTyped DEF KillWorker
<1>10. QED
  BY <1>1, <1>2, <1>3, <1>4, <1>5, <1>6, <1>7, <1>8, <1>9 DEF Command

LEMMA InitTyped == Init => VenvTyped
<1> SUFFICES ASSUME Init PROVE VenvTyped
  OBVIOUS
<1>1. WorkspaceTypeOK
  BY DEF Init, WorkspaceInit, WorkspaceTypeOK, Phases
<1>2. TypeOK
  BY <1>1 DEF Init, TypeOK
<1>3. QED
  BY <1>2 DEF Init, VenvTyped, WorkerTyped, NeedsVenv

LEMMA VenvInductive == VenvTyped /\ [Next]_vars => VenvTyped'
<1> SUFFICES ASSUME VenvTyped, [Next]_vars PROVE VenvTyped'
  OBVIOUS
<1>1. CASE WorkspaceNext /\ UNCHANGED venvVars
  <2>1. WorkspaceTypeOK'
    BY <1>1, WorkspaceTyped DEF VenvTyped, TypeOK
  <2>2. QED
    BY <1>1, <2>1 DEF VenvTyped, TypeOK, WorkerTyped, NeedsVenv, venvVars, store
<1>2. ASSUME UNCHANGED <<workspaceVars, explicit>>, VenvNext PROVE VenvTyped'
  <2>1. WorkspaceTypeOK'
    BY <1>2 DEF VenvTyped, TypeOK, workspaceVars, WorkspaceTypeOK
  <2>2. ASSUME NEW w \in Workers, Command(w) PROVE VenvTyped'
    BY <1>2, <2>2, CommandTyped
  <2>3. ASSUME NEW f \in Files, NEW t \in Contents \cup {None}, Edit(f, t) PROVE VenvTyped'
    BY <1>2, <2>1, <2>3 DEF Edit, VenvTyped, TypeOK, WorkerTyped, NeedsVenv, store
  <2>4. CASE RemoveVenv
    BY <1>2, <2>1, <2>4 DEF RemoveVenv, AtWork, VenvTyped, TypeOK, WorkerTyped, NeedsVenv
  <2>5. QED
    BY <1>2, <2>2, <2>3, <2>4 DEF VenvNext
<1>3. CASE UNCHANGED vars
  BY <1>3 DEF vars, VenvTyped, TypeOK, WorkerTyped, NeedsVenv, venvVars, store, workspaceVars,
     WorkspaceTypeOK
<1>4. QED
  BY <1>1, <1>2, <1>3 DEF Next

\* The types of owm init and of the commands on an environment, and that
\* nothing is installed where there is none: what removes one waits for them.
THEOREM TypeCorrect == Spec => []TypeOK
<1>1. VenvTyped => TypeOK
  BY DEF VenvTyped
<1>2. QED
  BY <1>1, InitTyped, VenvInductive, PTL DEF Spec

-----------------------------------------------------------------------------
(* Stamps.                                                                 *)

\* Each entry of a stamp is what the file says now, or what it will never say
\* again: nothing, once there is a file, or one of the texts that are spent.
Says(content) == IF content = None THEN Empty ELSE content

Outlived(s, contents, gone) ==
  \A f \in DOMAIN s : \/ s[f] = Says(contents[f])
                      \/ s[f] = Empty /\ contents[f] # None
                      \/ <<f, s[f]>> \in gone

\* The worker has collected its files.
Holds(w) == pc[w] \notin {"idle", "collect"}

\* What it installs is what the stamp it has computed, or will, stands for.
UpToDate(w) ==
  /\ pc[w] \in {"install", "write"} /\ files[w] = Collected
  /\ current[w] \in {None, ComputeStamp(Collected)}

\* What a worker holds, step by step.  Its files are those it would collect
\* now, unless they were edited since; then the stamp does not agree with
\* those, and so vouches for nothing that it may take away.
HoldsInv(w) ==
  /\ pc[w] \notin {"install", "write"} => current[w] = None
  /\ pc[w] = "write" => current[w] # None /\ todo[w] = {}
  /\ current[w] # None => /\ DOMAIN current[w] = files[w]
                          /\ Outlived(current[w], text, spent)
  /\ Holds(w) /\ (~edited \/ Building(w)) => files[w] = Collected
  /\ Holds(w) /\ files[w] # Collected => stamp # ComputeStamp(Collected)
  /\ UpToDate(w) => \A f \in files[w] \ todo[w] : text[f] # None => has[f] = text[f]

StampInv ==
  /\ \A w \in Workers : HoldsInv(w)
  /\ stamp # None => Outlived(stamp, text, spent)
  /\ edited => \A v, w \in AtWork : v = w
  /\ StampTruthful

\* Of the variants of a repository one is collected.
LEMMA OneVariant ==
  ASSUME TypeOK, NEW f \in Collected, NEW g \in Collected, Variants(f, g)
  PROVE  f = g
<1>1. explicit = {} /\ f[1] = g[1] /\ IsFirst(f) /\ IsFirst(g) /\ f \in Files /\ g \in Files
  BY DEF Variants, Collected
<1>2. PICK i \in DOMAIN Candidates : f[2] = Candidates[i] /\ f = <<f[1], Candidates[i]>>
  BY <1>1
<1>3. PICK j \in DOMAIN Candidates : g[2] = Candidates[j] /\ g = <<f[1], Candidates[j]>>
  BY <1>1
<1>4. ~(i < j) /\ ~(j < i)
  BY <1>1, <1>2, <1>3 DEF IsFirst
<1>5. i = j
  BY <1>4
<1>6. QED
  BY <1>2, <1>3, <1>5

LEMMA SameFiles ==
  ASSUME UNCHANGED <<explicit, text>>
  PROVE  Collected' = Collected /\ ComputeStamp(Collected)' = ComputeStamp(Collected)
BY DEF Collected, IsFirst, ComputeStamp

\* An edit makes every stamp that has the file outlived, and the files that
\* are collected change only by the one it adds.
LEMMA EditOutlives ==
  ASSUME TypeOK, Careful, NEW f \in Files, NEW t \in Contents \cup {None}, Edit(f, t)
  PROVE  \A s : Outlived(s, text, spent) =>
           Outlived(s, text', spent') /\ (f \in DOMAIN s => s[f] # t)
<1> SUFFICES ASSUME NEW s, Outlived(s, text, spent)
             PROVE  Outlived(s, text', spent') /\ (f \in DOMAIN s => s[f] # t)
  OBVIOUS
<1>1. /\ t # None /\ t \in Contents /\ t # Empty /\ <<f, t>> \notin spent /\ t # text[f]
      /\ text' = [text EXCEPT ![f] = t] /\ spent' = spent \cup {<<f, text[f]>>}
  BY DEF Edit, MindsEdit
<1>2. f \in DOMAIN s => s[f] # t
  BY <1>1 DEF Outlived, Says
<1>3. ASSUME NEW g \in DOMAIN s
      PROVE  \/ s[g] = Says(text'[g])
             \/ s[g] = Empty /\ text'[g] # None
             \/ <<g, s[g]>> \in spent'
  <2>1. CASE g = f
    <3>1. text'[f] = t
      BY <1>1 DEF TypeOK
    <3>2. QED
      BY <1>1, <2>1, <3>1 DEF Outlived, Says
  <2>2. CASE g # f
    <3>1. text'[g] = text[g] \/ g \notin Files
      BY <1>1, <2>2 DEF TypeOK
    <3>2. QED
      BY <1>1, <2>2, <3>1 DEF Outlived, Says
  <2>3. QED
    BY <2>1, <2>2
<1>4. QED
  BY <1>2, <1>3 DEF Outlived

LEMMA EditCollects ==
  ASSUME TypeOK, Careful, NEW f \in Files, NEW t \in Contents \cup {None}, Edit(f, t),
         UNCHANGED explicit, f \notin Collected'
  PROVE  Collected' = Collected /\ ComputeStamp(Collected)' = ComputeStamp(Collected)
<1>1. t # None /\ text' = [text EXCEPT ![f] = t]
  BY DEF Edit, MindsEdit
<1>2. text'[f] = t /\ \A g \in Files \ {f} : text'[g] = text[g]
  BY <1>1 DEF TypeOK
<1>3. CASE explicit # {}
  <2>1. Collected = explicit /\ Collected' = explicit /\ explicit \in SUBSET Files
    BY <1>3 DEF Collected, TypeOK
  <2>2. QED
    BY <1>2, <2>1 DEF ComputeStamp
<1>4. CASE explicit = {}
  <2>1. ~IsFirst(f)'
    BY <1>4 DEF Collected
  <2>2. PICK i \in DOMAIN Candidates : f[2] = Candidates[i] /\ f = <<f[1], Candidates[i]>>
    OBVIOUS
  <2>3. PICK k \in DOMAIN Candidates : /\ k < i /\ <<f[1], Candidates[k]>> \in Files
                                       /\ text'[<<f[1], Candidates[k]>>] # None
    BY <1>1, <1>2, <2>1, <2>2 DEF IsFirst
  <2> DEFINE h == <<f[1], Candidates[k]>>
  <2>4. h \in Files /\ h # f /\ text[h] # None
    <3>1. h # f
      BY <2>2, <2>3
    <3>2. QED
      BY <1>2, <2>3, <3>1
  <2>5. ~IsFirst(f)
    BY <2>2, <2>3, <2>4 DEF IsFirst
  <2>6. ASSUME NEW g \in Files, g # f PROVE IsFirst(g)' <=> IsFirst(g)
    <3>1. text'[g] = text[g]
      BY <1>2, <2>6
    <3>2. IsFirst(g)' => IsFirst(g)
      BY <1>1, <1>2, <3>1 DEF IsFirst
    <3>3. ASSUME IsFirst(g), ~IsFirst(g)' PROVE FALSE
      <4>1. PICK l, j \in DOMAIN Candidates :
              /\ Candidates[j] = g[2] /\ l < j /\ <<g[1], Candidates[l]>> \in Files
              /\ text'[<<g[1], Candidates[l]>>] # None
        BY <3>1, <3>3 DEF IsFirst
      <4>2. <<g[1], Candidates[l]>> = f
        BY <1>2, <3>3, <4>1 DEF IsFirst
      <4>3. l = i /\ f[1] = g[1]
        BY <2>2, <4>2
      <4>4. k < j
        BY <2>3, <4>1, <4>3
      <4>5. QED
        BY <2>3, <2>4, <3>3, <4>1, <4>3, <4>4 DEF IsFirst
    <3>4. QED
      BY <3>2, <3>3
  <2>7. Collected' = Collected /\ f \notin Collected
    BY <1>4, <2>1, <2>5, <2>6 DEF Collected
  <2>8. Collected \subseteq Files
    BY CollectedFiles
  <2> HIDE DEF h
  <2>9. \A g \in Collected : text'[g] = text[g]
    BY <1>2, <2>7, <2>8
  <2>10. QED
    BY <2>7, <2>9 DEF ComputeStamp
<1>5. QED
  BY <1>3, <1>4

\* So a stamp that agrees with the files after an edit did so before, and the
\* edit was of none of them.
LEMMA EditAgrees ==
  ASSUME TypeOK, Careful, NEW f \in Files, NEW t \in Contents \cup {None}, Edit(f, t),
         UNCHANGED explicit,
         NEW s, Outlived(s, text, spent), s = ComputeStamp(Collected)'
  PROVE  /\ f \notin Collected /\ Collected' = Collected
         /\ s = ComputeStamp(Collected)
<1>1. text' = [text EXCEPT ![f] = t] /\ t # None
  BY DEF Edit, MindsEdit
<1>2. text'[f] = t
  BY <1>1 DEF TypeOK
<1>3. /\ DOMAIN s = Collected'
      /\ \A g \in Collected' : s[g] = IF text'[g] = None THEN Empty ELSE text'[g]
  BY DEF ComputeStamp
<1>4. f \notin Collected'
  <2>1. f \in DOMAIN s => s[f] # t
    BY EditOutlives
  <2>2. QED
    BY <1>1, <1>2, <1>3, <2>1
<1>5. QED
  BY <1>4, EditCollects

-----------------------------------------------------------------------------
(* Stamps, step by step.                                                   *)

\* A stamp that stays, or goes, tells no lie it did not tell before.
LEMMA StampStays ==
  ASSUME VenvTyped, StampInv, UNCHANGED <<explicit, text, has, spent>>, stamp' \in {stamp, None}
  PROVE  /\ StampTruthful'
         /\ stamp' # None => Outlived(stamp', text, spent)
<1>1. Collected' = Collected /\ ComputeStamp(Collected)' = ComputeStamp(Collected)
  BY SameFiles
<1>2. ComputeStamp(Collected) # None
  BY StampOf, CollectedFiles DEF VenvTyped
<1>3. QED
  BY <1>1, <1>2 DEF StampInv, StampTruthful

LEMMA OtherHolds ==
  ASSUME VenvTyped, StampInv, UNCHANGED <<explicit, text, has, spent, edited>>,
         stamp' \in {stamp, None},
         NEW v \in Workers, pc'[v] = pc[v], files'[v] = files[v],
         todo'[v] = todo[v], current'[v] = current[v]
  PROVE  HoldsInv(v)'
<1>1. Collected' = Collected /\ ComputeStamp(Collected)' = ComputeStamp(Collected)
  BY SameFiles
<1>2. ComputeStamp(Collected) # None
  BY StampOf, CollectedFiles DEF VenvTyped
<1>3. HoldsInv(v)
  BY DEF StampInv
<1>4. Holds(v)' = Holds(v) /\ Building(v)' = Building(v) /\ UpToDate(v)' = UpToDate(v)
  BY <1>1 DEF Holds, Building, UpToDate
<1>5. QED
  BY <1>1, <1>2, <1>3, <1>4 DEF HoldsInv

\* A step of one worker, which installs nothing and writes no stamp.
LEMMA Proceeds ==
  ASSUME VenvTyped, StampInv, UNCHANGED <<explicit, text, has, spent, edited>>,
         stamp' \in {stamp, None},
         NEW w \in Workers, pc[w] # "idle" \/ ~edited, HoldsInv(w)',
         \A v \in Workers \ {w} : /\ pc'[v] = pc[v] /\ files'[v] = files[v]
                                  /\ todo'[v] = todo[v] /\ current'[v] = current[v]
  PROVE  StampInv'
<1>1. \A v \in Workers : HoldsInv(v)'
  BY OtherHolds
<1>2. edited' => \A v, u \in AtWork' : v = u
  BY DEF AtWork, StampInv
<1>3. QED
  BY <1>1, <1>2, StampStays DEF StampInv

\* A command that is over holds nothing, and no other works on files that
\* were edited.
LEMMA DoneHolds ==
  ASSUME VenvTyped, StampInv, NEW w \in Workers, pc[w] # "idle", Done(w),
         UNCHANGED <<explicit, text, has, spent>>, StampTruthful',
         stamp' # None => Outlived(stamp', text, spent)
  PROVE  StampInv'
<1>1. Collected' = Collected /\ ComputeStamp(Collected)' = ComputeStamp(Collected)
  BY SameFiles
<1>2. edited => AtWork = {w}
  BY DEF StampInv, AtWork
<1>3. ~edited'
  BY <1>2 DEF Done
<1>4. ASSUME NEW v \in Workers, v # w PROVE HoldsInv(v)'
  <2>1. /\ pc'[v] = pc[v] /\ files'[v] = files[v]
        /\ todo'[v] = todo[v] /\ current'[v] = current[v]
    BY <1>4 DEF Done, WorkerGoto, VenvTyped, TypeOK
  <2>2. HoldsInv(v) /\ (pc[v] = "idle" \/ ~edited)
    BY <1>2, <1>4 DEF StampInv, AtWork
  <2>3. Holds(v) => files[v] = Collected
    BY <2>2 DEF HoldsInv, Holds
  <2>4. Holds(v)' = Holds(v) /\ UpToDate(v)' = UpToDate(v)
    BY <1>1, <2>1 DEF Holds, UpToDate
  <2>5. QED
    BY <1>1, <2>1, <2>2, <2>3, <2>4 DEF HoldsInv
<1>5. HoldsInv(w)'
  BY DEF Done, WorkerGoto, VenvTyped, TypeOK, HoldsInv, Holds, UpToDate
<1>6. QED
  BY <1>3, <1>4, <1>5 DEF StampInv

LEMMA BeginsAndCollects ==
  ASSUME Careful, VenvTyped, StampInv, UNCHANGED <<workspaceVars, explicit>>,
         NEW w \in Workers, BeginCreate(w) \/ BeginStart(w) \/ Collect(w) \/ MakeVenv(w)
  PROVE  StampInv'
<1> USE DEF VenvTyped, store
<1>1. Collected' = Collected /\ ComputeStamp(Collected)' = ComputeStamp(Collected)
  BY SameFiles DEF BeginCreate, BeginStart, Collect, MakeVenv
<1>2. CASE BeginCreate(w) \/ BeginStart(w)
  <2>1. /\ ~edited /\ pc[w] = "idle" /\ pc' = [pc EXCEPT ![w] = "collect"]
        /\ UNCHANGED <<text, venv, has, stamp, todo, files, current, edited, spent>>
    BY <1>2 DEF BeginCreate, BeginStart, MindsStart, WorkerGoto
  <2>2. HoldsInv(w)'
    BY <2>1 DEF TypeOK, StampInv, HoldsInv, Holds, UpToDate
  <2>3. QED
    BY <2>1, <2>2, Proceeds DEF TypeOK
<1>3. CASE Collect(w)
  <2>1. /\ pc[w] = "collect" /\ files' = [files EXCEPT ![w] = Collected]
        /\ pc' = [pc EXCEPT ![w] = "stamp"] \/ pc' = [pc EXCEPT ![w] = "uv"]
        /\ UNCHANGED <<text, venv, has, stamp, todo, current, edited, spent>>
    BY <1>3 DEF Collect, WorkerGoto
  <2>2. HoldsInv(w)'
    BY <1>1, <2>1 DEF TypeOK, StampInv, HoldsInv, Holds, UpToDate
  <2>3. QED
    BY <2>1, <2>2, Proceeds DEF TypeOK
<1>4. CASE MakeVenv(w)
  <2>1. /\ pc[w] = "uv" /\ pc' = [pc EXCEPT ![w] = "uvEnds"]
        /\ UNCHANGED <<text, has, stamp, todo, files, current, edited, spent>>
    BY <1>4 DEF MakeVenv, WorkerGoto
  <2>2. HoldsInv(w)'
    BY <1>1, <2>1 DEF TypeOK, StampInv, HoldsInv, Holds, UpToDate, Building
  <2>3. QED
    BY <2>1, <2>2, Proceeds DEF TypeOK
<1>5. QED
  BY <1>2, <1>3, <1>4

\* From here to the stamp the worker has all its files to install.
LEMMA StartsInstalling ==
  ASSUME VenvTyped, StampInv, UNCHANGED explicit,
         NEW w \in Workers, VenvMade(w) \/ CompareStamp(w)
  PROVE  StampInv'
<1> USE DEF VenvTyped, store
<1>1. Collected' = Collected /\ ComputeStamp(Collected)' = ComputeStamp(Collected)
  BY SameFiles DEF VenvMade, CompareStamp
<1>2. /\ pc[w] \in {"uvEnds", "stamp"} /\ UNCHANGED <<text, has, stamp, spent>>
  BY DEF VenvMade, CompareStamp
<1>3. CASE Done(w)
  BY <1>2, <1>3, DoneHolds, StampStays DEF StampInv
<1>4. CASE ~Done(w) /\ VenvMade(w)
  <2>1. /\ pc[w] = "uvEnds" /\ pc' = [pc EXCEPT ![w] = "install"]
        /\ todo' = [todo EXCEPT ![w] = files[w]]
        /\ UNCHANGED <<files, current, edited>>
    BY <1>4 DEF VenvMade, WorkerGoto
  <2>2. HoldsInv(w)'
    BY <1>1, <1>2, <2>1 DEF TypeOK, StampInv, HoldsInv, Holds, UpToDate, Building
  <2>3. QED
    BY <1>2, <2>1, <2>2, Proceeds DEF TypeOK
<1>5. CASE ~Done(w) /\ CompareStamp(w)
  <2>1. /\ pc[w] = "stamp" /\ pc' = [pc EXCEPT ![w] = "install"]
        /\ todo' = [todo EXCEPT ![w] = files[w]]
        /\ current' = [current EXCEPT ![w] = ComputeStamp(files[w])]
        /\ UNCHANGED <<files, edited>>
    BY <1>5 DEF CompareStamp, WorkerGoto
  <2>2. /\ DOMAIN ComputeStamp(files[w]) = files[w] /\ ComputeStamp(files[w]) # None
        /\ Outlived(ComputeStamp(files[w]), text, spent)
    BY StampOf DEF TypeOK, Outlived, Says
  <2>3. HoldsInv(w)'
    BY <1>1, <1>2, <2>1, <2>2 DEF TypeOK, StampInv, HoldsInv, Holds, UpToDate, Building
  <2>4. QED
    BY <1>2, <2>1, <2>3, Proceeds DEF TypeOK
<1>6. QED
  BY <1>3, <1>4, <1>5

\* Two that are at work hold the same files; one alone that holds others has
\* a stamp before it that vouches for nothing.
LEMMA InstallHolds ==
  ASSUME VenvTyped, StampInv, UNCHANGED explicit,
         NEW w \in Workers, NEW f \in Files, Install(w, f)
  PROVE  StampInv'
<1> USE DEF VenvTyped
<1>1. Collected' = Collected /\ ComputeStamp(Collected)' = ComputeStamp(Collected)
  BY SameFiles DEF Install
<1>2. pc[w] = "install" /\ f \in todo[w] /\ f \in files[w] /\ UNCHANGED <<text, stamp, spent>>
  BY DEF Install, TypeOK
<1>3. CASE Done(w) /\ UNCHANGED has
  BY <1>2, <1>3, DoneHolds, StampStays DEF StampInv
<1>4. CASE ~(Done(w) /\ UNCHANGED has)
  <2>1. /\ has' = [g \in Files |-> IF g = f THEN text[f]
                                  ELSE IF Variants(f, g) THEN None ELSE has[g]]
        /\ todo' = [todo EXCEPT ![w] = @ \ {f}]
        /\ UNCHANGED <<pc, files, current, edited>>
    BY <1>4 DEF Install
  <2>2. \A v \in Workers : HoldsInv(v)
    BY DEF StampInv
  <2>3. CASE files[w] = Collected
    <3>1. ASSUME NEW g \in Collected, g # f PROVE has'[g] = has[g]
      <4>1. ~Variants(f, g) /\ g \in Files
        BY <1>2, <2>3, <3>1, OneVariant, CollectedFiles
      <4>2. QED
        BY <2>1, <3>1, <4>1
    <3>2. has'[f] = text[f]
      BY <2>1
    <3>3. ASSUME NEW v \in Workers PROVE HoldsInv(v)'
      <4>1. Holds(v)' = Holds(v) /\ UpToDate(v)' = UpToDate(v) /\ Building(v)' = Building(v)
        BY <1>1, <1>2, <2>1 DEF Holds, UpToDate, Building
      <4>2. \A g \in files[v] \ todo'[v] : g \in files[v] \ todo[v] \/ g = f
        BY <2>1 DEF TypeOK
      <4>3. UpToDate(v) => \A g \in files[v] \ todo'[v] : text[g] # None => has'[g] = text[g]
        <5>1. UpToDate(v) => files[v] = Collected
          BY DEF UpToDate
        <5>2. QED
          BY <2>2, <3>1, <3>2, <4>2, <5>1 DEF HoldsInv
      <4>4. todo[v] = {} => todo'[v] = {}
        BY <2>1 DEF TypeOK
      <4>5. QED
        BY <1>1, <1>2, <2>1, <2>2, <4>1, <4>3, <4>4 DEF HoldsInv
    <3>4. StampTruthful'
      BY <1>1, <1>2, <3>1, <3>2 DEF StampInv, StampTruthful
    <3>5. QED
      BY <1>2, <2>1, <3>3, <3>4 DEF StampInv, AtWork
  <2>4. CASE files[w] # Collected
    <3>1. edited /\ stamp # ComputeStamp(Collected)
      BY <1>2, <2>2, <2>4 DEF HoldsInv, Holds
    <3>2. \A v \in Workers \ {w} : pc[v] = "idle"
      BY <1>2, <3>1 DEF StampInv, AtWork
    <3>3. ASSUME NEW v \in Workers PROVE HoldsInv(v)'
      <4>1. Holds(v)' = Holds(v) /\ UpToDate(v)' = UpToDate(v) /\ Building(v)' = Building(v)
        BY <1>1, <1>2, <2>1 DEF Holds, UpToDate, Building
      <4>2. ~UpToDate(v)
        BY <2>4, <3>2 DEF UpToDate
      <4>3. todo[v] = {} => todo'[v] = {}
        BY <2>1 DEF TypeOK
      <4>4. QED
        BY <1>1, <1>2, <2>1, <2>2, <4>1, <4>2, <4>3 DEF HoldsInv
    <3>4. StampTruthful'
      BY <1>1, <1>2, <3>1 DEF StampTruthful
    <3>5. QED
      BY <1>2, <2>1, <3>3, <3>4 DEF StampInv, AtWork
  <2>5. QED
    BY <2>3, <2>4
<1>5. QED
  BY <1>3, <1>4

\* create computes its stamp after the installation: no file was edited under
\* it.
LEMMA InstalledHolds ==
  ASSUME VenvTyped, StampInv, UNCHANGED explicit, NEW w \in Workers, Installed(w)
  PROVE  StampInv'
<1> USE DEF VenvTyped, store
<1>1. Collected' = Collected /\ ComputeStamp(Collected)' = ComputeStamp(Collected)
  BY SameFiles DEF Installed
<1>2. /\ pc[w] = "install" /\ todo[w] = {} /\ pc' = [pc EXCEPT ![w] = "write"]
      /\ current' = [current EXCEPT ![w] = IF @ = None THEN ComputeStamp(files[w]) ELSE @]
      /\ UNCHANGED <<text, venv, has, stamp, todo, files, edited, spent>>
  BY DEF Installed, WorkerGoto
<1>3. /\ DOMAIN ComputeStamp(files[w]) = files[w] /\ ComputeStamp(files[w]) # None
      /\ Outlived(ComputeStamp(files[w]), text, spent)
  BY StampOf DEF TypeOK, Outlived, Says
<1>4. HoldsInv(w)
  BY DEF StampInv
<1>5. CASE current[w] = None
  <2>1. current'[w] = ComputeStamp(files[w]) /\ pc'[w] = "write"
    BY <1>2, <1>5 DEF TypeOK
  <2>2. UpToDate(w)' => UpToDate(w)
    BY <1>1, <1>2, <1>5 DEF UpToDate
  <2>3. files[w] = Collected
    BY <1>2, <1>4, <1>5 DEF HoldsInv, Holds, Building
  <2>4. HoldsInv(w)'
    BY <1>1, <1>2, <1>3, <1>4, <2>1, <2>2, <2>3 DEF HoldsInv, Holds, Building
  <2>5. QED
    BY <1>2, <2>4, Proceeds DEF TypeOK
<1>6. CASE current[w] # None
  <2>1. current'[w] = current[w] /\ pc'[w] = "write"
    BY <1>2, <1>6 DEF TypeOK
  <2>2. UpToDate(w)' => UpToDate(w)
    BY <1>1, <1>2, <2>1 DEF UpToDate
  <2>3. HoldsInv(w)'
    BY <1>1, <1>2, <1>4, <1>6, <2>1, <2>2 DEF HoldsInv, Holds, Building
  <2>4. QED
    BY <1>2, <2>1, <2>3, Proceeds DEF TypeOK
<1>7. QED
  BY <1>5, <1>6

\* The stamp of files that have changed since is outlived, and agrees with
\* none; one that agrees is of files that are all installed.
LEMMA WriteHolds ==
  ASSUME VenvTyped, StampInv, UNCHANGED explicit, NEW w \in Workers, WriteStamp(w)
  PROVE  StampInv'
<1> USE DEF VenvTyped
<1>1. Collected' = Collected /\ ComputeStamp(Collected)' = ComputeStamp(Collected)
  BY SameFiles DEF WriteStamp
<1>2. pc[w] = "write" /\ UNCHANGED <<text, venv, has, spent>> /\ HoldsInv(w)
  BY DEF WriteStamp, StampInv
<1>3. CASE stamp = None
  <2>1. stamp' = current[w] /\ Done(w)
    BY <1>3 DEF WriteStamp
  <2>2. Outlived(stamp', text, spent) /\ todo[w] = {} /\ DOMAIN current[w] = files[w]
    BY <1>2, <2>1 DEF HoldsInv
  <2>3. ASSUME current[w] = ComputeStamp(Collected) PROVE UpToDate(w)
    <3>1. DOMAIN current[w] = Collected
      BY <2>3 DEF ComputeStamp
    <3>2. QED
      BY <1>2, <2>2, <2>3, <3>1 DEF UpToDate
  <2>4. StampTruthful'
    BY <1>1, <1>2, <2>1, <2>2, <2>3 DEF StampTruthful, HoldsInv, UpToDate
  <2>5. QED
    BY <1>2, <2>1, <2>2, <2>4, DoneHolds
<1>4. CASE stamp # None
  <2>1. stamp' = None /\ UNCHANGED <<pc, todo, files, current, edited>>
    BY <1>4 DEF WriteStamp
  <2>2. HoldsInv(w)'
    BY <1>2, <2>1, OtherHolds
  <2>3. QED
    BY <1>2, <2>1, <2>2, Proceeds
<1>5. QED
  BY <1>3, <1>4

LEMMA EditHolds ==
  ASSUME Careful, VenvTyped, StampInv, UNCHANGED <<workspaceVars, explicit>>, VenvTyped',
         NEW f \in Files, NEW t \in Contents \cup {None}, Edit(f, t)
  PROVE  StampInv'
<1> USE DEF VenvTyped
<1>1. /\ text' = [text EXCEPT ![f] = t] /\ edited' = (AtWork # {})
      /\ UNCHANGED <<venv, has, stamp, pc, todo, files, current>>
      /\ \A v, w \in AtWork : v = w /\ ~Building(w)
  BY DEF Edit, MindsEdit, store
<1>2. \A s : Outlived(s, text, spent) => Outlived(s, text', spent')
  BY EditOutlives
<1>3. \A s : Outlived(s, text, spent) /\ s = ComputeStamp(Collected)' =>
        f \notin Collected /\ Collected' = Collected /\ s = ComputeStamp(Collected)
  BY EditAgrees
<1>4. ComputeStamp(Collected)' # None
  <2>1. text' \in [Files -> Contents \cup {None}] /\ Collected' \subseteq Files
    BY DEF TypeOK, Collected
  <2>2. ComputeStamp(Collected)' \in [Collected' -> Contents \cup {Empty}]
    BY <2>1 DEF ComputeStamp
  <2>3. QED
    BY <2>1, <2>2 DEF Stamps
<1>5. \A g \in Files \ {f} : text'[g] = text[g]
  BY <1>1 DEF TypeOK
<1>6. Collected \subseteq Files
  BY CollectedFiles
<1>7. stamp = ComputeStamp(Collected)' =>
        f \notin Collected /\ Collected' = Collected /\ stamp = ComputeStamp(Collected)
  BY <1>3, <1>4 DEF StampInv
<1>8. StampTruthful'
  BY <1>1, <1>5, <1>6, <1>7 DEF StampInv, StampTruthful
<1>9. ASSUME NEW v \in Workers PROVE HoldsInv(v)'
  <2>1. HoldsInv(v) /\ Holds(v)' = Holds(v) /\ Building(v)' = Building(v)
    BY <1>1 DEF StampInv, Holds, Building
  <2>2. Holds(v) => edited' /\ ~Building(v)
    BY <1>1 DEF Holds, AtWork
  <2>3. current[v] # None => DOMAIN current[v] = files[v] /\ Outlived(current[v], text', spent')
    BY <1>2, <2>1 DEF HoldsInv
  <2>4. Holds(v) /\ files[v] # Collected' => stamp # ComputeStamp(Collected)'
    BY <1>7, <2>1 DEF HoldsInv
  <2>5. UpToDate(v)' => UpToDate(v) /\ f \notin Collected
    <3>1. SUFFICES ASSUME UpToDate(v)' PROVE UpToDate(v) /\ f \notin Collected
      OBVIOUS
    <3>2. pc[v] \in {"install", "write"} /\ current[v] # None
          /\ current[v] = ComputeStamp(Collected)' /\ files[v] = Collected'
      BY <1>1, <2>1, <2>2, <3>1 DEF UpToDate, Holds, Building, HoldsInv
    <3>3. f \notin Collected /\ Collected' = Collected /\ current[v] = ComputeStamp(Collected)
      BY <1>3, <2>1, <3>2 DEF HoldsInv
    <3>4. QED
      BY <3>2, <3>3 DEF UpToDate
  <2>6. UpToDate(v)' => \A g \in files[v] \ todo[v] : text'[g] # None => has[g] = text'[g]
    BY <1>5, <1>6, <2>1, <2>5 DEF HoldsInv, UpToDate
  <2>7. QED
    BY <1>1, <2>1, <2>2, <2>3, <2>4, <2>6 DEF HoldsInv
<1>10. edited' => \A v, w \in AtWork' : v = w
  BY <1>1 DEF AtWork
<1>11. stamp' # None => Outlived(stamp', text', spent')
  BY <1>1, <1>2 DEF StampInv
<1>12. QED
  BY <1>8, <1>9, <1>10, <1>11 DEF StampInv

LEMMA RemoveHolds ==
  ASSUME VenvTyped, StampInv, UNCHANGED explicit, RemoveVenv
  PROVE  StampInv'
<1>1. Collected' = Collected /\ ComputeStamp(Collected)' = ComputeStamp(Collected)
  BY SameFiles DEF RemoveVenv
<1>2. ComputeStamp(Collected) # None
  BY StampOf, CollectedFiles DEF VenvTyped
<1>3. AtWork = {} /\ stamp' = None /\ UNCHANGED <<text, pc, todo, files, current, edited, spent>>
  BY DEF RemoveVenv
<1>4. \A v \in Workers : pc[v] = "idle" /\ HoldsInv(v)
  BY <1>3 DEF AtWork, StampInv
<1>5. \A v \in Workers : HoldsInv(v)'
  BY <1>3, <1>4 DEF HoldsInv, Holds, UpToDate
<1>6. QED
  BY <1>1, <1>2, <1>3, <1>5 DEF StampInv, StampTruthful, AtWork

\* While users take care, a stamp that agrees with the files is a true one, in
\* every state and however many processes start the instance.
THEOREM StampCorrect == Careful => (Spec => []StampTruthful)
<1> SUFFICES ASSUME Careful PROVE Spec => []StampTruthful
  OBVIOUS
<1>1. Init => VenvTyped /\ StampInv
  <2> SUFFICES ASSUME Init PROVE StampInv
    BY InitTyped
  <2>1. ComputeStamp(Collected) # None
    BY InitTyped, StampOf, CollectedFiles DEF VenvTyped
  <2>2. QED
    BY <2>1 DEF Init, StampInv, HoldsInv, Holds, UpToDate, StampTruthful
<1>2. VenvTyped /\ StampInv /\ [Next]_vars => VenvTyped' /\ StampInv'
  <2> SUFFICES ASSUME VenvTyped, StampInv, [Next]_vars PROVE VenvTyped' /\ StampInv'
    OBVIOUS
  <2>1. VenvTyped'
    BY VenvInductive
  <2>2. CASE UNCHANGED venvVars
    <3>1. Collected' = Collected /\ ComputeStamp(Collected)' = ComputeStamp(Collected)
      BY <2>2, SameFiles DEF venvVars, store
    <3>2. QED
      BY <2>1, <2>2, <3>1 DEF venvVars, store, StampInv, HoldsInv, Holds, UpToDate, Building,
         AtWork, StampTruthful
  <2>3. CASE VenvNext /\ UNCHANGED <<workspaceVars, explicit>>
    <3>1. ASSUME NEW w \in Workers, Command(w) PROVE StampInv'
      <4>1. CASE BeginCreate(w) \/ BeginStart(w) \/ Collect(w) \/ MakeVenv(w)
        BY <2>3, <4>1, BeginsAndCollects
      <4>2. CASE VenvMade(w) \/ CompareStamp(w)
        BY <2>3, <4>2, StartsInstalling
      <4>3. CASE \E f \in Files : Install(w, f)
        BY <2>3, <4>3, InstallHolds
      <4>4. CASE Installed(w) \/ WriteStamp(w)
        BY <2>3, <4>4, InstalledHolds, WriteHolds
      <4>5. CASE KillWorker(w)
        BY <2>3, <4>5, DoneHolds, StampStays DEF KillWorker, store, StampInv
      <4>6. QED
        BY <3>1, <4>1, <4>2, <4>3, <4>4, <4>5 DEF Command
    <3>2. ASSUME NEW f \in Files, NEW t \in Contents \cup {None}, Edit(f, t) PROVE StampInv'
      BY <2>1, <2>3, <3>2, EditHolds
    <3>3. CASE RemoveVenv
      BY <2>1, <2>3, <3>3, RemoveHolds
    <3>4. QED
      BY <2>1, <2>3, <3>1, <3>2, <3>3 DEF VenvNext
  <2>4. QED
    BY <2>1, <2>2, <2>3 DEF Next, vars
<1>3. StampInv => StampTruthful
  BY DEF StampInv
<1>4. QED
  BY <1>1, <1>2, <1>3, PTL DEF Spec

=============================================================================
