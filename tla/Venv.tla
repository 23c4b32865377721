-------------------------------- MODULE Venv --------------------------------
(***************************************************************************)
(* The virtual environment of an instance: owm create makes it, once the   *)
(* repositories are cloned, and every start brings it in step with the     *)
(* requirement files of the worktrees.  A stamp in it, a hash of those     *)
(* files, says what was installed last; while it agrees with the files a   *)
(* start installs nothing.  create and starts may be at work at once, and  *)
(* users, or a pull, edit the files.                                       *)
(***************************************************************************)
EXTENDS Workspace, Naturals, Sequences

CONSTANTS
  Candidates, \* file names to look for in a repository, the preferred first
  Files,      \* the requirement files, <<repository, name>>, that may exist
  Explicits,  \* what [python].requirements may name; {} when it is not set
  Contents,   \* what a requirements file that asks for something may say
  Creators,   \* processes that run owm create, one at most
  Starters    \* processes and threads that start the instance

Workers == Creators \cup Starters
Empty == "empty"  \* what a file that is missing is taken to say

Stamps == UNION {[F -> Contents \cup {Empty}] : F \in SUBSET Files}

\* A name that is listed twice counts where it is first, and is left out of
\* Candidates further on.
ASSUME VenvAssumption ==
  /\ Candidates \in Seq(STRING)
  /\ \A i, j \in DOMAIN Candidates : Candidates[i] = Candidates[j] => i = j
  /\ Files \subseteq Repos \X {Candidates[i] : i \in DOMAIN Candidates}
  /\ Explicits \subseteq SUBSET Files
  /\ Empty \notin Contents /\ None \notin Contents \cup {Empty} \cup Stamps
  /\ Cardinality(Creators) <= 1 /\ Creators \cap Starters = {}

VARIABLES
  explicit,\* the files [python].requirements names
  text,    \* per file, what it says; None when there is none
  venv,    \* .venv: "none", "half" of one, or "made"
  has,     \* per file, the content of it installed last; None when none was
  stamp,   \* .owm_stamp: per file it was made from its content; or None
  pc,      \* per worker, the next step of its command
  todo,    \* per worker, the files to install, those before already done
  files,   \* per worker, the files it has collected
  current, \* per worker, the stamp it has computed, or None
  edited,  \* history: a file was edited under the command at work
  spent    \* history: what files said before

store == <<venv, has, stamp>>
venvVars == <<explicit, text, store, pc, todo, files, current, edited, spent>>
vars == <<workspaceVars, venvVars>>

-----------------------------------------------------------------------------
(* Requirement files and stamps.                                           *)

\* _collect_requirements: of each repository the first candidate there is.
IsFirst(f) ==
  /\ text[f] # None
  /\ \A i, j \in DOMAIN Candidates :
       LET g == <<f[1], Candidates[i]>>
       IN  Candidates[j] = f[2] /\ i < j /\ g \in Files => text[g] = None

Collected ==
  IF explicit # {} THEN explicit ELSE {f \in Files : IsFirst(f)}

\* Mutant of ComputeStamp: paths alone.
ComputePaths(F) == [f \in F |-> Empty]

\* compute_stamp: a file that is missing counts as an empty one.
ComputeStamp(F) == [f \in F |-> IF text[f] = None THEN Empty ELSE text[f]]

-----------------------------------------------------------------------------
WorkerGoto(w, step) == pc' = [pc EXCEPT ![w] = step]

AtWork == {w \in Workers : pc[w] # "idle"}

\* The command is over, well or with an error: it keeps nothing.
Done(w) ==
  /\ WorkerGoto(w, "idle")
  /\ todo' = [todo EXCEPT ![w] = {}]
  /\ files' = [files EXCEPT ![w] = {}]
  /\ current' = [current EXCEPT ![w] = None]
  /\ edited' = (edited /\ AtWork # {w})

\* Users start nothing that would collect other files than the command at
\* work has, nor while init runs.
MindsStart == Careful => ~edited /\ phase = "idle"

\* owm create comes to the environment when it has made the worktrees.
BeginCreate(w) ==
  /\ w \in Creators /\ pc[w] = "idle" /\ MindsStart
  /\ \A r \in Repos : repo[r] \in {"bare", "ready"}
  /\ WorkerGoto(w, "collect")
  /\ UNCHANGED <<text, store, todo, files, current, edited, spent>>

\* _sync_instance_venv does nothing where there is none.
BeginStart(w) ==
  /\ w \in Starters /\ pc[w] = "idle" /\ MindsStart
  /\ venv # "none"
  /\ WorkerGoto(w, "collect")
  /\ UNCHANGED <<text, store, todo, files, current, edited, spent>>

Collect(w) ==
  /\ pc[w] = "collect"
  /\ files' = [files EXCEPT ![w] = Collected]
  /\ WorkerGoto(w, IF w \in Starters \/ venv # "none" THEN "stamp" ELSE "uv")
  /\ UNCHANGED <<text, store, todo, current, edited, spent>>

-----------------------------------------------------------------------------
(* create_venv.                                                            *)

MakeVenv(w) ==
  /\ pc[w] = "uv"
  /\ venv' = "half"
  /\ WorkerGoto(w, "uvEnds")
  /\ UNCHANGED <<text, has, stamp, todo, files, current, edited, spent>>

\* Mutant of VenvMade: the stamp is written first.
VenvMadeStamped(w) ==
  /\ pc[w] = "uvEnds"
  /\ venv' = "made" /\ stamp' = ComputeStamp(files[w])
  /\ todo' = [todo EXCEPT ![w] = files[w]]
  /\ WorkerGoto(w, "install")
  /\ UNCHANGED <<files, current, edited>>
  /\ UNCHANGED <<text, has, spent>>

VenvMade(w) ==
  /\ pc[w] = "uvEnds"
  /\ \/ /\ venv' = "made"
        /\ todo' = [todo EXCEPT ![w] = files[w]]
        /\ WorkerGoto(w, "install")
        /\ UNCHANGED <<files, current, edited>>
     \/ "uv" \in Faults /\ Done(w) /\ UNCHANGED venv
  /\ UNCHANGED <<text, has, stamp, spent>>

-----------------------------------------------------------------------------
(* reconcile_venv.                                                         *)

\* Mutant of CompareStamp: the files are collected again for the installation.
CompareStampTwice(w) ==
  /\ pc[w] = "stamp"
  /\ stamp # ComputeStamp(files[w])
  /\ current' = [current EXCEPT ![w] = ComputeStamp(files[w])]
  /\ todo' = [todo EXCEPT ![w] = Collected]
  /\ WorkerGoto(w, "install")
  /\ UNCHANGED <<text, store, files, edited, spent>>

\* The stamp comes before the installation here.
CompareStamp(w) ==
  /\ pc[w] = "stamp"
  /\ LET c == ComputeStamp(files[w])
     IN  \/ stamp = c /\ Done(w)
         \/ /\ stamp # c
            /\ current' = [current EXCEPT ![w] = c]
            /\ todo' = [todo EXCEPT ![w] = files[w]]
            /\ WorkerGoto(w, "install")
            /\ UNCHANGED <<files, edited>>
  /\ UNCHANGED <<text, store, spent>>

-----------------------------------------------------------------------------
(* Both.                                                                   *)

\* Variants for different versions of Odoo pin the same packages: one that is
\* installed takes the place of another.
Variants(f, g) == explicit = {} /\ f[1] = g[1]

\* uv pip install -r, file by file.
Install(w, f) ==
  /\ pc[w] = "install" /\ f \in todo[w]
  /\ \/ /\ venv = "made" /\ text[f] # None
        /\ has' = [g \in Files |-> IF g = f THEN text[f]
                                  ELSE IF Variants(f, g) THEN None ELSE has[g]]
        /\ todo' = [todo EXCEPT ![w] = @ \ {f}]
        /\ UNCHANGED <<pc, files, current, edited>>
     \/ /\ venv # "made" \/ text[f] = None \/ "uv" \in Faults
        /\ Done(w) /\ UNCHANGED has
  /\ UNCHANGED <<text, venv, stamp, spent>>

\* create_venv computes its stamp now.
Installed(w) ==
  /\ pc[w] = "install" /\ todo[w] = {}
  /\ current' = [current EXCEPT ![w] =
                   IF @ = None THEN ComputeStamp(files[w]) ELSE @]
  /\ WorkerGoto(w, "write")
  /\ UNCHANGED <<text, store, todo, files, edited, spent>>

\* _write_stamp truncates the file before it writes; an empty one is none.
WriteStamp(w) ==
  /\ pc[w] = "write"
  /\ IF stamp = None
     THEN stamp' = current[w] /\ Done(w)
     ELSE stamp' = None /\ UNCHANGED <<pc, todo, files, current, edited>>
  /\ UNCHANGED <<text, venv, has, spent>>

-----------------------------------------------------------------------------
(* What else happens.                                                      *)

KillWorker(w) ==
  /\ "kill" \in Faults /\ pc[w] # "idle"
  /\ Done(w)
  /\ UNCHANGED <<text, store, spent>>

\* While create builds the environment, and while two are at work, users edit
\* nothing; and files neither go away nor back to what they said.
Building(w) ==
  \/ pc[w] \in {"uv", "uvEnds"}
  \/ pc[w] = "install" /\ current[w] = None

MindsEdit(f, t) ==
  Careful => /\ t # None /\ <<f, t>> \notin spent
             /\ \A v, w \in AtWork : v = w /\ ~Building(w)

\* Users edit, add and remove requirement files, and check out branches that
\* have others.
Edit(f, t) ==
  /\ repo[f[1]] \in {"bare", "ready"}
  /\ t # text[f] /\ MindsEdit(f, t)
  /\ text' = [text EXCEPT ![f] = t]
  /\ edited' = (AtWork # {})
  /\ spent' = IF Careful THEN spent \cup {<<f, text[f]>>} ELSE spent
  /\ UNCHANGED <<store, pc, todo, files, current>>

\* They remove an environment that is broken.
RemoveVenv ==
  /\ AtWork = {} /\ venv # "none"
  /\ venv' = "none" /\ stamp' = None
  /\ has' = [f \in Files |-> None]
  /\ UNCHANGED <<text, pc, todo, files, current, edited, spent>>

-----------------------------------------------------------------------------
Init ==
  /\ WorkspaceInit
  /\ explicit \in Explicits
  /\ text = [f \in Files |-> None]
  /\ venv = "none" /\ stamp = None
  /\ has = [f \in Files |-> None]
  /\ pc = [w \in Workers |-> "idle"]
  /\ todo = [w \in Workers |-> {}]
  /\ files = [w \in Workers |-> {}]
  /\ current = [w \in Workers |-> None]
  /\ edited = FALSE /\ spent = {}

Command(w) ==
  \/ BeginCreate(w) \/ BeginStart(w) \/ Collect(w)
  \/ MakeVenv(w) \/ VenvMade(w) \/ CompareStamp(w)
  \/ \E f \in Files : Install(w, f)
  \/ Installed(w) \/ WriteStamp(w) \/ KillWorker(w)

VenvNext ==
  \/ \E w \in Workers : Command(w)
  \/ \E f \in Files, t \in Contents \cup {None} : Edit(f, t)
  \/ RemoveVenv

Next ==
  \/ (Careful => AtWork = {}) /\ WorkspaceNext /\ UNCHANGED venvVars
  \/ VenvNext /\ UNCHANGED <<workspaceVars, explicit>>

Spec == Init /\ [][Next]_vars

-----------------------------------------------------------------------------
(* What is checked.                                                        *)

\* Every variable, of owm init too, is of its type, and nothing is installed
\* where there is no environment.
TypeOK ==
  /\ WorkspaceTypeOK
  /\ explicit \in Explicits
  /\ text \in [Files -> Contents \cup {None}]
  /\ venv \in {"none", "half", "made"}
  /\ has \in [Files -> Contents \cup {None}]
  /\ stamp \in Stamps \cup {None}
  /\ pc \in [Workers -> {"idle", "collect", "uv", "uvEnds", "stamp", "install", "write"}]
  /\ files \in [Workers -> SUBSET Files]
  /\ todo \in [Workers -> SUBSET Files]
  /\ \A w \in Workers : todo[w] \subseteq files[w]
  /\ current \in [Workers -> Stamps \cup {None}]
  /\ edited \in BOOLEAN
  /\ venv = "none" => stamp = None /\ has = [f \in Files |-> None]

\* The stamp does not lie: while it agrees with the files, so that a start
\* installs nothing, each of them was installed as it is, whichever
\* installation failed or was killed half way, and whatever was edited under
\* a start (reconcile_venv and create_venv write the stamp last).
StampTruthful ==
  stamp = ComputeStamp(Collected) =>
    \A f \in Collected : text[f] # None => has[f] = text[f]

=============================================================================
