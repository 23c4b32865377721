----------------------------- MODULE SyncProofs -----------------------------
(***************************************************************************)
(* Proofs about Sync.  What git stores changes in few ways, whatever the   *)
(* command: GitNext lists them, NextIsGit shows that every step is one of  *)
(* them, and each invariant of the repository is proved over GitNext.      *)
(***************************************************************************)
EXTENDS Sync, TLAPS

\* A merge, a fast-forward or a rebase.
Advanced(w, theirs) ==
  /\ Advance(w, theirs)
  /\ UNCHANGED <<origin, published, track, known, main, edits, busy, work>>

Pushed(w) ==
  /\ origin[w] \subseteq head[w]
  /\ origin' = [origin EXCEPT ![w] = head[w]]
  /\ published' = published \cup {w}
  /\ track' = IF w \in Tracked THEN [track EXCEPT ![w] = head[w]] ELSE track
  /\ known' = known \cup ({w} \cap Tracked)
  /\ UNCHANGED <<head, main, trees, work>>

\* Asked to or not.
Discarded(w) ==
  /\ LET target == ResetTarget(w) IN
       /\ head' = [head EXCEPT ![w] = target]
       /\ files' = [files EXCEPT ![w] = target]
       /\ \E asked \in BOOLEAN :
            /\ settled' = settled \cup (head[w] \ target) \cup (IF asked THEN edits[w] ELSE {})
            /\ swept' = IF asked THEN swept ELSE swept \cup edits[w]
  /\ edits' = [edits EXCEPT ![w] = {}]
  /\ busy' = [busy EXCEPT ![w] = IF @ = "merge" THEN "no" ELSE @]
  /\ UNCHANGED <<origin, published, track, known, main, made>>

\* A merge or a rebase stops, or is given up.
Stopped(w) ==
  /\ \E b \in {"no", "merge", "rebase"} : busy' = [busy EXCEPT ![w] = b]
  /\ UNCHANGED <<branches, files, edits, work>>

UserNext(w) ==
  \/ \E x \in Changes : Edit(w, x) \/ Colleague(w, x) \/ BaseMoves(w, x)
  \/ Commit(w) \/ CatchUp(w) \/ GiveUpRebase(w)
  \/ BranchUpdated(w) \/ BranchDeleted(w) \/ FetchByHand(w)

GitNext ==
  \/ UNCHANGED git
  \/ \E ws \in SUBSET Worktrees : MoveBranches(ws)
  \/ \E w \in Worktrees :
       \/ UserNext(w) \/ Pushed(w) \/ Discarded(w) \/ Stopped(w)
       \/ Advanced(w, track[w]) \/ Advanced(w, main[w])

-----------------------------------------------------------------------------
(* Every step is a step of GitNext.                                        *)

LEMMA StoppedOrNot ==
  ASSUME GitOK, NEW w \in Worktrees, UNCHANGED <<branches, files, edits, work>>,
         \/ \E b \in {"no", "merge", "rebase"} : busy' = [busy EXCEPT ![w] = b]
         \/ busy' = busy
  PROVE  GitNext
BY DEF GitNext, Stopped, git, trees

LEMMA OwmIsGit ==
  ASSUME TypeOK, NEW c \in Clients, Owm(c)
  PROVE  GitNext
<1> USE DEF TypeOK
<1>1. CASE Begin(c) \/ List(c) \/ FetchFails(c) \/ \E w \in Worktrees : Look(c, w) \/ GitFails(c, w)
  <2>1. UNCHANGED git
    BY <1>1 DEF Begin, List, FetchFails, Look, GitFails
  <2> QED BY <2>1 DEF GitNext
<1>2. CASE Fetch(c)
  <2>1. MoveBranches(todo[c]) /\ todo[c] \in SUBSET Worktrees
    BY <1>2 DEF Fetch, LocalOK
  <2> QED BY <2>1 DEF GitNext
<1>3. CASE Refetch(c)
  <2>1. at[c] \in Worktrees
    BY <1>3 DEF Refetch, LocalOK
  <2>2. MoveBranches({at[c]}) \/ UNCHANGED git
    BY <1>3 DEF Refetch
  <2>3. {at[c]} \in SUBSET Worktrees
    BY <2>1
  <2> QED BY <2>2, <2>3 DEF GitNext
<1>4. CASE AbortMerge(c)
  <2>1. at[c] \in Worktrees
    BY <1>4 DEF AbortMerge, LocalOK
  <2>2. /\ busy' = [busy EXCEPT ![at[c]] = IF @ = "merge" THEN "no" ELSE @]
        /\ UNCHANGED <<branches, files, edits, work>>
    BY <1>4 DEF AbortMerge
  <2>3. \E b \in {"no", "merge", "rebase"} : busy' = [busy EXCEPT ![at[c]] = b]
    BY <2>1, <2>2 DEF GitOK
  <2> QED BY <2>1, <2>2, <2>3, StoppedOrNot
<1>5. ASSUME NEW w \in Worktrees, FastForward(c, w) \/ Rebase(c, w)
      PROVE  GitNext
  <2>1. Advanced(w, track[w])
    BY <1>5 DEF FastForward, Rebase, Advanced
  <2> QED BY <2>1 DEF GitNext
<1>6. ASSUME NEW w \in Worktrees, MergeBase(c, w)
      PROVE  GitNext
  <2>1. Advanced(w, main[w])
    BY <1>6 DEF MergeBase, Advanced
  <2> QED BY <2>1 DEF GitNext
<1>7. ASSUME NEW w \in Worktrees, RebaseStops(c, w) \/ MergeFails(c, w)
      PROVE  GitNext
  <2>1. /\ UNCHANGED <<branches, files, edits, work>>
        /\ \/ \E b \in {"no", "merge", "rebase"} : busy' = [busy EXCEPT ![w] = b]
           \/ busy' = busy
    BY <1>7 DEF RebaseStops, MergeFails
  <2> QED BY <2>1, StoppedOrNot
<1>8. ASSUME NEW w \in Worktrees, Push(c, w)
      PROVE  GitNext
  <2>1. Pushed(w)
    BY <1>8 DEF Push, Pushed
  <2> QED BY <2>1 DEF GitNext
<1>9. ASSUME NEW w \in Worktrees, Reset(c, w)
      PROVE  GitNext
  <2>1. flag[c] \in BOOLEAN
    BY DEF LocalOK
  <2>2. Discarded(w)
    BY <1>9, <2>1 DEF Reset, Discarded
  <2> QED BY <2>2 DEF GitNext
<1> QED
  BY <1>1, <1>2, <1>3, <1>4, <1>5, <1>6, <1>7, <1>8, <1>9 DEF Owm

LEMMA NextIsGit == TypeOK /\ [Next]_vars => GitNext
<1> SUFFICES ASSUME TypeOK, [Next]_vars PROVE GitNext
  OBVIOUS
<1>1. CASE User
  BY <1>1 DEF User, UserNext, GitNext
<1>2. CASE \E c \in Clients : Owm(c)
  BY <1>2, OwmIsGit
<1>3. CASE UNCHANGED vars
  BY <1>3 DEF vars, GitNext
<1> QED BY <1>1, <1>2, <1>3 DEF Next

-----------------------------------------------------------------------------
(* Types.                                                                  *)

LEMMA GitTyped == GitOK /\ GitNext => GitOK'
<1> SUFFICES ASSUME GitOK, GitNext PROVE GitOK'
  OBVIOUS
<1> USE TrackedAssumption DEF GitOK, branches, trees, work, git
<1>1. CASE UNCHANGED git
  BY <1>1
<1>2. ASSUME NEW ws \in SUBSET Worktrees, MoveBranches(ws)
      PROVE  GitOK'
  BY <1>2 DEF MoveBranches
<1>3. ASSUME NEW w \in Worktrees, NEW x \in Changes, Edit(w, x) \/ Colleague(w, x) \/ BaseMoves(w, x)
      PROVE  GitOK'
  <2>1. CASE Edit(w, x)
    BY <2>1 DEF Edit
  <2>2. CASE Colleague(w, x)
    BY <2>2 DEF Colleague
  <2>3. CASE BaseMoves(w, x)
    BY <2>3 DEF BaseMoves
  <2> QED BY <1>3, <2>1, <2>2, <2>3
<1>4. ASSUME NEW w \in Worktrees,
             \/ Commit(w) \/ CatchUp(w) \/ GiveUpRebase(w)
             \/ BranchUpdated(w) \/ BranchDeleted(w) \/ FetchByHand(w)
      PROVE  GitOK'
  <2>1. CASE Commit(w)
    BY <2>1 DEF Commit
  <2>2. CASE CatchUp(w) \/ GiveUpRebase(w)
    BY <2>2 DEF CatchUp, GiveUpRebase
  <2>3. CASE BranchDeleted(w)
    BY <2>3 DEF BranchDeleted
  <2>4. CASE FetchByHand(w)
    BY <2>4 DEF FetchByHand
  <2>5. CASE BranchUpdated(w)
    BY <2>5 DEF BranchUpdated
  <2> QED BY <1>4, <2>1, <2>2, <2>3, <2>4, <2>5
<1>5. ASSUME NEW w \in Worktrees, Pushed(w) \/ Discarded(w) \/ Stopped(w)
      PROVE  GitOK'
  <2>1. CASE Pushed(w)
    BY <2>1 DEF Pushed
  <2>2. CASE Discarded(w)
    BY <2>2 DEF Discarded, ResetTarget
  <2>3. CASE Stopped(w)
    BY <2>3 DEF Stopped
  <2> QED BY <1>5, <2>1, <2>2, <2>3
<1>6. ASSUME NEW w \in Worktrees, Advanced(w, track[w]) \/ Advanced(w, main[w])
      PROVE  GitOK'
  BY <1>6 DEF Advanced, Advance
<1> QED BY <1>1, <1>2, <1>3, <1>4, <1>5, <1>6 DEF GitNext, UserNext

LEMMA ReturnTyped ==
  ASSUME LocalOK, NEW c \in Clients, Return(c)
  PROVE  LocalOK'
BY DEF LocalOK, Return, Statuses

LEMMA ActTyped ==
  ASSUME LocalOK, NEW c \in Clients, NEW ws \in SUBSET Worktrees, Act(c, ws),
         ws # {} => \E s \in [Worktrees -> Statuses] : seen' = [seen EXCEPT ![c] = s]
  PROVE  LocalOK'
<1>1. CASE ws = {}
  BY <1>1, ReturnTyped DEF Act
<1>2. CASE ws # {}
  <2>1. PICK s \in [Worktrees -> Statuses] : seen' = [seen EXCEPT ![c] = s]
    BY <1>2
  <2>2. /\ pc' = [pc EXCEPT ![c] = "act"] /\ todo' = [todo EXCEPT ![c] = ws]
        /\ at' = [at EXCEPT ![c] = None] /\ UNCHANGED <<cmd, flag>>
    BY <1>2 DEF Act
  <2>3. seen' \in [Clients -> [Worktrees -> Statuses]]
    BY <2>1 DEF LocalOK
  <2>4. todo' \in [Clients -> SUBSET Worktrees] /\ at' \in [Clients -> Worktrees \cup {None}]
    BY <2>2 DEF LocalOK
  <2> QED BY <2>2, <2>3, <2>4 DEF LocalOK
<1> QED BY <1>1, <1>2

LEMMA DoneTyped ==
  ASSUME LocalOK, NEW c \in Clients, NEW w \in Worktrees, Done(c, w)
  PROVE  LocalOK'
<1>1. todo[c] \ {w} \in SUBSET Worktrees /\ Act(c, todo[c] \ {w})
  BY DEF LocalOK, Done
<1>2. seen[c] \in [Worktrees -> Statuses] /\ seen = [seen EXCEPT ![c] = seen[c]]
  BY DEF LocalOK
<1>3. todo[c] \ {w} # {} => \E s \in [Worktrees -> Statuses] : seen' = [seen EXCEPT ![c] = s]
  BY <1>2 DEF Done
<1> QED BY <1>1, <1>3, ActTyped

LEMMA FailsTyped ==
  ASSUME LocalOK, NEW c \in Clients, NEW w \in Worktrees, Fails(c, w)
  PROVE  LocalOK'
BY ReturnTyped, DoneTyped DEF Fails

LEMMA StatusTyped == \A w \in Worktrees : Status(w) \in Statuses
BY DEF Status, Statuses

LEMMA LookTyped ==
  ASSUME LocalOK, NEW c \in Clients, NEW w \in Worktrees, Look(c, w)
  PROVE  LocalOK'
<1> DEFINE status == [seen[c] EXCEPT ![w] = Status(w)]
<1>1. status \in [Worktrees -> Statuses]
  BY StatusTyped DEF LocalOK
<1>2. CASE Return(c)
  BY <1>2, ReturnTyped
<1>3. CASE /\ seen' = [seen EXCEPT ![c] = status]
           /\ todo' = [todo EXCEPT ![c] = @ \ {w}]
           /\ UNCHANGED <<pc, cmd, flag, at>>
  BY <1>1, <1>3 DEF LocalOK
<1>4. CASE /\ Act(c, Selected(c, status))
           /\ Selected(c, status) # {} => seen' = [seen EXCEPT ![c] = Remembered(c, status)]
  <2>1. Selected(c, status) \in SUBSET Worktrees
    BY DEF Selected
  <2>2. Remembered(c, status) \in [Worktrees -> Statuses]
    BY <1>1 DEF Remembered, Statuses
  <2> QED BY <1>4, <2>1, <2>2, ActTyped
<1> QED BY <1>2, <1>3, <1>4 DEF Look

LEMMA BeginTyped ==
  ASSUME LocalOK, NEW c \in Clients, Begin(c)
  PROVE  LocalOK'
<1>1. PICK command \in Commands, f \in BOOLEAN : \E ws \in Scope(command) \ {{}} :
        /\ cmd' = [cmd EXCEPT ![c] = command]
        /\ flag' = [flag EXCEPT ![c] = f]
        /\ todo' = [todo EXCEPT ![c] = ws]
        /\ pc' = [pc EXCEPT ![c] = IF command = "fetch" THEN "list" ELSE "look"]
  BY DEF Begin
<1>2. command \in AllCommands
  BY CommandsAssumption
<1>3. Scope(command) \subseteq SUBSET Worktrees
  BY DEF Scope
<1>4. UNCHANGED <<seen, at>>
  BY DEF Begin
<1> QED BY <1>1, <1>2, <1>3, <1>4 DEF LocalOK

LEMMA LocalTyped ==
  ASSUME TypeOK, [Next]_vars
  PROVE  LocalOK'
<1> USE DEF TypeOK
<1>1. CASE UNCHANGED local
  BY <1>1 DEF local, LocalOK
<1>2. CASE User
  BY <1>2, <1>1 DEF User, Edit, Colleague, BaseMoves, Commit, CatchUp, GiveUpRebase,
                    BranchUpdated, BranchDeleted, FetchByHand
<1>3. ASSUME NEW c \in Clients, Owm(c)
      PROVE  LocalOK'
  <2>1. CASE Begin(c)
    BY <2>1, BeginTyped
  <2>2. CASE List(c)
    <3>1. CASE Return(c)
      BY <3>1, ReturnTyped
    <3>2. CASE ~ Return(c)
      <4>1. /\ pc' = [pc EXCEPT ![c] = "fetch"]
            /\ todo' = [todo EXCEPT ![c] = @ \cap published]
            /\ UNCHANGED <<cmd, flag, seen, at>>
        BY <2>2, <3>2 DEF List
      <4> QED BY <4>1 DEF LocalOK
    <3> QED BY <3>1, <3>2
  <2>3. CASE Fetch(c) \/ FetchFails(c)
    BY <2>3, ReturnTyped DEF Fetch, FetchFails
  <2>4. CASE Refetch(c) \/ AbortMerge(c)
    <3>1. at[c] \in Worktrees /\ Done(c, at[c])
      BY <2>4 DEF Refetch, AbortMerge, LocalOK
    <3> QED BY <3>1, DoneTyped
  <2>5. ASSUME NEW w \in Worktrees, Look(c, w)
        PROVE  LocalOK'
    BY <2>5, LookTyped
  <2>6. ASSUME NEW w \in Worktrees,
               \/ FastForward(c, w) \/ Rebase(c, w) \/ Reset(c, w) \/ MergeBase(c, w)
        PROVE  LocalOK'
    BY <2>6, DoneTyped DEF FastForward, Rebase, Reset, MergeBase
  <2>7. ASSUME NEW w \in Worktrees, GitFails(c, w) \/ RebaseStops(c, w)
        PROVE  LocalOK'
    BY <2>7, FailsTyped DEF GitFails, RebaseStops
  <2>8. ASSUME NEW w \in Worktrees, Push(c, w)
        PROVE  LocalOK'
    <3>1. CASE cmd[c] = "pushAll"
      <4>1. /\ pc' = [pc EXCEPT ![c] = "refetch"] /\ at' = [at EXCEPT ![c] = w]
            /\ UNCHANGED <<cmd, flag, todo, seen>>
        BY <2>8, <3>1 DEF Push
      <4> QED BY <4>1, NoneAssumption DEF LocalOK
    <3>2. CASE cmd[c] # "pushAll"
      <4>1. Done(c, w)
        BY <2>8, <3>2 DEF Push
      <4> QED BY <4>1, DoneTyped
    <3> QED BY <3>1, <3>2
  <2>9. ASSUME NEW w \in Worktrees, MergeFails(c, w)
        PROVE  LocalOK'
    <3>1. /\ pc' = [pc EXCEPT ![c] = "abort"] /\ at' = [at EXCEPT ![c] = w]
          /\ UNCHANGED <<cmd, flag, todo, seen>>
      BY <2>9 DEF MergeFails
    <3> QED BY <3>1, NoneAssumption DEF LocalOK
  <2> QED BY <1>3, <2>1, <2>2, <2>3, <2>4, <2>5, <2>6, <2>7, <2>8, <2>9 DEF Owm
<1>4. CASE UNCHANGED vars
  BY <1>4, <1>1 DEF vars
<1> QED BY <1>2, <1>3, <1>4 DEF Next

\* The repositories and the commands are always what their types say, and a
\* command that is to abort a merge or to fetch what it pushed knows where.
THEOREM TypeCorrect == Spec => []TypeOK
<1>1. Init => TypeOK
  BY NoneAssumption DEF Init, TypeOK, GitOK, LocalOK, Statuses
<1>2. TypeOK /\ [Next]_vars => TypeOK'
  BY NextIsGit, GitTyped, LocalTyped DEF TypeOK
<1> QED BY <1>1, <1>2, PTL DEF Spec

-----------------------------------------------------------------------------
(* No change is lost.                                                      *)

Keeps(w) == origin[w] \cup main[w] \cup head[w] \cup edits[w]

LEMMA KeptIs == \A x : x \in Kept <=> \E w \in Worktrees : x \in Keeps(w)
BY DEF Kept, Keeps

LEMMA KeptIsPrimed == \A x : x \in Kept' <=> \E w \in Worktrees : x \in Keeps(w)'
BY DEF Kept, Keeps

\* What holds a change holds it after the step, or the change is settled or swept.
LEMMA KeptOn ==
  ASSUME made' = made, NoChangeLost, settled \subseteq settled', swept \subseteq swept',
         \A w \in Worktrees : Keeps(w) \subseteq Keeps(w)' \cup settled' \cup swept'
  PROVE  NoChangeLost'
BY KeptIs, KeptIsPrimed DEF NoChangeLost

\* A change is new, and somewhere.
LEMMA KeptNew ==
  ASSUME NEW x, NEW v \in Worktrees, made' = made \cup {x}, x \in Keeps(v)',
         NoChangeLost, settled \subseteq settled', swept \subseteq swept',
         \A w \in Worktrees : Keeps(w) \subseteq Keeps(w)'
  PROVE  NoChangeLost'
BY KeptIs, KeptIsPrimed DEF NoChangeLost

LEMMA KeptByGit ==
  ASSUME GitOK, NoChangeLost, GitNext
  PROVE  NoChangeLost'
<1> USE DEF GitOK, branches, trees, work, git, Keeps
<1>1. CASE UNCHANGED git
  BY <1>1 DEF NoChangeLost, Kept
<1>2. ASSUME NEW ws \in SUBSET Worktrees, MoveBranches(ws)
      PROVE  NoChangeLost'
  <2>1. \A w \in Worktrees : Keeps(w) \subseteq Keeps(w)' \cup swept'
    BY <1>2 DEF MoveBranches
  <2> QED BY <1>2, <2>1, KeptOn DEF MoveBranches
<1>3. ASSUME NEW v \in Worktrees, NEW x \in Changes, Edit(v, x)
      PROVE  NoChangeLost'
  <2>1. x \in Keeps(v)' /\ \A w \in Worktrees : Keeps(w) \subseteq Keeps(w)'
    BY <1>3 DEF Edit
  <2> QED BY <1>3, <2>1, KeptNew DEF Edit
<1>4. ASSUME NEW v \in Worktrees, NEW x \in Changes, Colleague(v, x)
      PROVE  NoChangeLost'
  <2>1. x \in Keeps(v)' /\ \A w \in Worktrees : Keeps(w) \subseteq Keeps(w)'
    BY <1>4 DEF Colleague
  <2> QED BY <1>4, <2>1, KeptNew DEF Colleague
<1>5. ASSUME NEW v \in Worktrees, NEW x \in Changes, BaseMoves(v, x)
      PROVE  NoChangeLost'
  <2>1. x \in Keeps(v)' /\ \A w \in Worktrees : Keeps(w) \subseteq Keeps(w)'
    BY <1>5 DEF BaseMoves
  <2> QED BY <1>5, <2>1, KeptNew DEF BaseMoves
<1>6. ASSUME NEW v \in Worktrees,
             \/ Commit(v) \/ CatchUp(v) \/ GiveUpRebase(v)
             \/ BranchUpdated(v) \/ FetchByHand(v) \/ Stopped(v)
      PROVE  NoChangeLost'
  <2>1. \A w \in Worktrees : Keeps(w) \subseteq Keeps(w)'
    BY <1>6 DEF Commit, CatchUp, GiveUpRebase, BranchUpdated, FetchByHand, Stopped
  <2>2. UNCHANGED work
    BY <1>6 DEF Commit, CatchUp, GiveUpRebase, BranchUpdated, FetchByHand, Stopped
  <2> QED BY <2>1, <2>2, KeptOn
<1>7. ASSUME NEW v \in Worktrees, BranchDeleted(v)
      PROVE  NoChangeLost'
  <2>1. \A w \in Worktrees : Keeps(w) \subseteq Keeps(w)' \cup settled'
    BY <1>7 DEF BranchDeleted
  <2> QED BY <1>7, <2>1, KeptOn DEF BranchDeleted
<1>8. ASSUME NEW v \in Worktrees, Pushed(v)
      PROVE  NoChangeLost'
  <2>1. \A w \in Worktrees : Keeps(w) \subseteq Keeps(w)'
    BY <1>8 DEF Pushed
  <2> QED BY <1>8, <2>1, KeptOn DEF Pushed
<1>9. ASSUME NEW v \in Worktrees, Discarded(v)
      PROVE  NoChangeLost'
  <2>1. \A w \in Worktrees : Keeps(w) \subseteq Keeps(w)' \cup settled' \cup swept'
    BY <1>9 DEF Discarded, ResetTarget
  <2> QED BY <1>9, <2>1, KeptOn DEF Discarded, ResetTarget
<1>10. ASSUME NEW v \in Worktrees, Advanced(v, track[v]) \/ Advanced(v, main[v])
       PROVE  NoChangeLost'
  <2>1. \A w \in Worktrees : Keeps(w) \subseteq Keeps(w)'
    BY <1>10 DEF Advanced, Advance
  <2> QED BY <1>10, <2>1, KeptOn DEF Advanced
<1> QED
  BY <1>1, <1>2, <1>3, <1>4, <1>5, <1>6, <1>7, <1>8, <1>9, <1>10 DEF GitNext, UserNext

\* Whatever order commands, users and colleagues act in, and however stale what
\* a command saw is when it acts, no change is lost but those reset away or
\* merged by a colleague, and those that owm itself sweeps: commits that a fetch
\* meets before they are pushed, and edits that an unforced reset meets.
THEOREM LossFree == Spec => []NoChangeLost
<1>1. Init => NoChangeLost
  BY DEF Init, NoChangeLost
<1>2. TypeOK /\ NoChangeLost /\ [Next]_vars => NoChangeLost'
  BY NextIsGit, KeptByGit DEF TypeOK
<1> QED BY <1>1, <1>2, TypeCorrect, PTL DEF Spec

-----------------------------------------------------------------------------
(* The origin.                                                             *)

LEMMA GrowsByGit ==
  ASSUME GitOK, GitNext, NEW w \in Worktrees
  PROVE  origin[w] \subseteq origin'[w] \/ w \notin published'
<1> USE DEF GitOK, branches, git
<1>1. CASE UNCHANGED git
  BY <1>1
<1>2. ASSUME NEW ws \in SUBSET Worktrees, MoveBranches(ws)
      PROVE  origin[w] \subseteq origin'[w]
  BY <1>2 DEF MoveBranches
<1>3. ASSUME NEW v \in Worktrees, Pushed(v)
      PROVE  origin[w] \subseteq origin'[w]
  BY <1>3 DEF Pushed
<1>4. ASSUME NEW v \in Worktrees, BranchDeleted(v)
      PROVE  origin[w] \subseteq origin'[w] \/ w \notin published'
  BY <1>4 DEF BranchDeleted
<1>5. ASSUME NEW v \in Worktrees, (\E x \in Changes : Colleague(v, x)) \/ BranchUpdated(v)
      PROVE  origin[w] \subseteq origin'[w]
  BY <1>5 DEF Colleague, BranchUpdated
<1>6. ASSUME NEW v \in Worktrees,
             \/ \E x \in Changes : Edit(v, x) \/ BaseMoves(v, x)
             \/ Commit(v) \/ CatchUp(v) \/ GiveUpRebase(v) \/ FetchByHand(v)
             \/ Discarded(v) \/ Stopped(v) \/ Advanced(v, track[v]) \/ Advanced(v, main[v])
      PROVE  origin' = origin
  BY <1>6 DEF Edit, BaseMoves, Commit, CatchUp, GiveUpRebase, FetchByHand, Discarded, Stopped,
              Advanced
<1> QED BY <1>1, <1>2, <1>3, <1>4, <1>5, <1>6 DEF GitNext, UserNext

\* No command, however late it acts, takes from a branch at the origin what
\* somebody pushed there.
THEOREM OriginSafe == Spec => OriginOnlyGrows
<1>1. TypeOK /\ [Next]_vars =>
        [\A w \in Worktrees : origin[w] \subseteq origin'[w] \/ w \notin published']_vars
  BY NextIsGit, GrowsByGit DEF TypeOK
<1> QED BY <1>1, TypeCorrect, PTL DEF Spec, OriginOnlyGrows

-----------------------------------------------------------------------------
(* What origin/<branch> says.                                              *)

LEMMA TrackByGit ==
  ASSUME GitOK, TrackWasPushed, GitNext
  PROVE  TrackWasPushed'
<1> USE TrackedAssumption DEF GitOK, TrackWasPushed, branches, trees, work, git
<1>1. CASE UNCHANGED git
  BY <1>1
<1>2. ASSUME NEW ws \in SUBSET Worktrees, MoveBranches(ws)
      PROVE  TrackWasPushed'
  BY <1>2 DEF MoveBranches
<1>3. ASSUME NEW v \in Worktrees, Pushed(v)
      PROVE  TrackWasPushed'
  BY <1>3 DEF Pushed
<1>4. ASSUME NEW v \in Worktrees, BranchDeleted(v)
      PROVE  TrackWasPushed'
  BY <1>4 DEF BranchDeleted
<1>5. ASSUME NEW v \in Worktrees, FetchByHand(v)
      PROVE  TrackWasPushed'
  BY <1>5 DEF FetchByHand
<1>6. ASSUME NEW v \in Worktrees,
             \/ \E x \in Changes : Edit(v, x) \/ Colleague(v, x) \/ BaseMoves(v, x)
             \/ Commit(v) \/ CatchUp(v) \/ GiveUpRebase(v) \/ BranchUpdated(v)
             \/ Discarded(v) \/ Stopped(v) \/ Advanced(v, track[v]) \/ Advanced(v, main[v])
      PROVE  TrackWasPushed'
  <2>1. /\ track' = track /\ known' = known /\ settled \subseteq settled'
        /\ \A w \in Worktrees : origin[w] \subseteq origin'[w]
    BY <1>6 DEF Edit, Colleague, BaseMoves, Commit, CatchUp, GiveUpRebase, BranchUpdated,
                Discarded, Stopped, Advanced
  <2> QED BY <2>1
<1> QED BY <1>1, <1>2, <1>3, <1>4, <1>5, <1>6 DEF GitNext, UserNext

\* What read_repo_state takes for pushed has been pushed.
THEOREM PushedCorrect == Spec => []TrackWasPushed
<1>1. Init => TrackWasPushed
  BY TrackedAssumption DEF Init, TrackWasPushed
<1>2. TypeOK /\ TrackWasPushed /\ [Next]_vars => TrackWasPushed'
  BY NextIsGit, TrackByGit DEF TypeOK
<1> QED BY <1>1, <1>2, TypeCorrect, PTL DEF Spec

-----------------------------------------------------------------------------
(* A rebase rewrites nothing that was pushed, but for the base.  The       *)
(* invariant also looks at what may still get into the branch, the         *)
(* uncommitted edits, and at the changes made, since a new one must be new *)
(* to the origin.                                                          *)

Within(w) == head[w] \cup edits[w]

MadeSomewhere ==
  \A w \in Worktrees : Within(w) \cup main[w] \cup origin[w] \cup track[w] \subseteq made

PushedIsTracked ==
  \A w \in known : Within(w) \cap origin[w] \subseteq track[w] \cup main[w]

LEMMA MadeByGit ==
  ASSUME GitOK, MadeSomewhere, GitNext
  PROVE  MadeSomewhere'
<1> USE TrackedAssumption DEF GitOK, MadeSomewhere, Within, branches, trees, work, git
<1>1. CASE UNCHANGED git
  BY <1>1
<1>2. ASSUME NEW ws \in SUBSET Worktrees, MoveBranches(ws)
      PROVE  MadeSomewhere'
  BY <1>2 DEF MoveBranches
<1>3. ASSUME NEW v \in Worktrees, NEW x \in Changes, Edit(v, x) \/ Colleague(v, x)
      PROVE  MadeSomewhere'
  BY <1>3 DEF Edit, Colleague
<1>4. ASSUME NEW v \in Worktrees, NEW x \in Changes, BaseMoves(v, x)
      PROVE  MadeSomewhere'
  BY <1>4 DEF BaseMoves
<1>5. ASSUME NEW v \in Worktrees,
             Commit(v) \/ CatchUp(v) \/ GiveUpRebase(v) \/ BranchUpdated(v) \/ Stopped(v)
      PROVE  MadeSomewhere'
  BY <1>5 DEF Commit, CatchUp, GiveUpRebase, BranchUpdated, Stopped
<1>6. ASSUME NEW v \in Worktrees, BranchDeleted(v) \/ FetchByHand(v) \/ Pushed(v)
      PROVE  MadeSomewhere'
  BY <1>6 DEF BranchDeleted, FetchByHand, Pushed
<1>7. ASSUME NEW v \in Worktrees, Discarded(v)
      PROVE  MadeSomewhere'
  BY <1>7 DEF Discarded, ResetTarget
<1>8. ASSUME NEW v \in Worktrees, Advanced(v, track[v]) \/ Advanced(v, main[v])
      PROVE  MadeSomewhere'
  BY <1>8 DEF Advanced, Advance
<1> QED BY <1>1, <1>2, <1>3, <1>4, <1>5, <1>6, <1>7, <1>8 DEF GitNext, UserNext

LEMMA TrackedByGit ==
  ASSUME GitOK, MadeSomewhere, PushedIsTracked, GitNext
  PROVE  PushedIsTracked'
<1> USE TrackedAssumption DEF GitOK, MadeSomewhere, PushedIsTracked, Within, branches, trees, work, git
<1>1. CASE UNCHANGED git
  BY <1>1
<1>2. ASSUME NEW ws \in SUBSET Worktrees, MoveBranches(ws)
      PROVE  PushedIsTracked'
  BY <1>2 DEF MoveBranches
<1>3. ASSUME NEW v \in Worktrees, NEW x \in Changes, Edit(v, x) \/ Colleague(v, x)
      PROVE  PushedIsTracked'
  BY <1>3 DEF Edit, Colleague
<1>4. ASSUME NEW v \in Worktrees, NEW x \in Changes, BaseMoves(v, x)
      PROVE  PushedIsTracked'
  BY <1>4 DEF BaseMoves
<1>5. ASSUME NEW v \in Worktrees,
             Commit(v) \/ CatchUp(v) \/ GiveUpRebase(v) \/ BranchUpdated(v) \/ Stopped(v)
      PROVE  PushedIsTracked'
  BY <1>5 DEF Commit, CatchUp, GiveUpRebase, BranchUpdated, Stopped
<1>6. ASSUME NEW v \in Worktrees, BranchDeleted(v) \/ FetchByHand(v)
      PROVE  PushedIsTracked'
  BY <1>6 DEF BranchDeleted, FetchByHand
<1>7. ASSUME NEW v \in Worktrees, Pushed(v)
      PROVE  PushedIsTracked'
  BY <1>7 DEF Pushed
<1>8. ASSUME NEW v \in Worktrees, Discarded(v)
      PROVE  PushedIsTracked'
  BY <1>8 DEF Discarded, ResetTarget
<1>9. ASSUME NEW v \in Worktrees, Advanced(v, track[v]) \/ Advanced(v, main[v])
      PROVE  PushedIsTracked'
  BY <1>9 DEF Advanced, Advance
<1> QED BY <1>1, <1>2, <1>3, <1>4, <1>5, <1>6, <1>7, <1>8, <1>9 DEF GitNext, UserNext

\* A rebase, which rewrites the commits that origin/<branch> has not, rewrites
\* none that the origin's branch has, but those of the base.
THEOREM RebaseCorrect == Spec => []RebaseIsLocal
<1>1. Init => MadeSomewhere /\ PushedIsTracked
  BY DEF Init, MadeSomewhere, PushedIsTracked, Within
<1>2. TypeOK /\ (MadeSomewhere /\ PushedIsTracked) /\ [Next]_vars
        => (MadeSomewhere /\ PushedIsTracked)'
  BY NextIsGit, MadeByGit, TrackedByGit DEF TypeOK
<1>3. PushedIsTracked => RebaseIsLocal
  BY DEF PushedIsTracked, RebaseIsLocal, Within
<1> QED BY <1>1, <1>2, <1>3, TypeCorrect, PTL DEF Spec

-----------------------------------------------------------------------------
(* Merges that pull-base began.                                            *)

\* A step of one command leaves the others where they are.
OthersStay(c) == \A d \in Clients \ {c} : pc'[d] = pc[d] /\ at'[d] = at[d]

LEMMA ReturnStays ==
  ASSUME LocalOK, NEW c \in Clients, Return(c)
  PROVE  OthersStay(c)
BY DEF LocalOK, Return, OthersStay

LEMMA ActStays ==
  ASSUME LocalOK, NEW c \in Clients, NEW ws, Act(c, ws)
  PROVE  OthersStay(c)
<1>1. CASE ws = {}
  BY <1>1, ReturnStays DEF Act
<1>2. CASE ws # {}
  BY <1>2 DEF Act, LocalOK, OthersStay
<1> QED BY <1>1, <1>2

LEMMA DoneStays ==
  ASSUME LocalOK, NEW c \in Clients, NEW w, Done(c, w)
  PROVE  OthersStay(c)
BY ActStays DEF Done

LEMMA FailsStays ==
  ASSUME LocalOK, NEW c \in Clients, NEW w, Fails(c, w)
  PROVE  OthersStay(c)
BY ReturnStays, DoneStays DEF Fails

\* No merge stops in a step of a command that was not about to abort one.
LEMMA NoMerge ==
  ASSUME MergesEnd, NEW c \in Clients, pc[c] # "abort", OthersStay(c),
         \A w \in Worktrees : busy'[w] = "merge" => busy[w] = "merge"
  PROVE  MergesEnd'
BY DEF MergesEnd, OthersStay

LEMMA MergesByUser ==
  ASSUME TypeOK, MergesEnd, User
  PROVE  MergesEnd'
<1> USE DEF TypeOK, GitOK, MergesEnd, local, branches, trees, work
<1>1. UNCHANGED local
  BY DEF User, Edit, Colleague, BaseMoves, Commit, CatchUp, GiveUpRebase, BranchUpdated,
         BranchDeleted, FetchByHand
<1>2. \A w \in Worktrees : busy'[w] = "merge" => busy[w] = "merge"
  BY DEF User, Edit, Colleague, BaseMoves, Commit, CatchUp, GiveUpRebase, BranchUpdated,
         BranchDeleted, FetchByHand
<1> QED BY <1>1, <1>2

LEMMA MergesByOwm ==
  ASSUME TypeOK, MergesEnd, NEW c \in Clients, Owm(c)
  PROVE  MergesEnd'
<1> USE DEF TypeOK
<1> DEFINE NoneStops == \A w \in Worktrees : busy'[w] = "merge" => busy[w] = "merge"
<1>1. CASE Begin(c)
  <2>1. pc[c] # "abort" /\ OthersStay(c) /\ NoneStops
    BY <1>1 DEF Begin, LocalOK, OthersStay, git, trees
  <2> QED BY <2>1, NoMerge
<1>2. CASE List(c)
  <2>1. pc[c] # "abort" /\ NoneStops
    BY <1>2 DEF List, git, trees
  <2>2. OthersStay(c)
    <3>1. CASE Return(c)
      BY <3>1, ReturnStays
    <3>2. CASE ~ Return(c)
      BY <1>2, <3>2 DEF List, LocalOK, OthersStay
    <3> QED BY <3>1, <3>2
  <2> QED BY <2>1, <2>2, NoMerge
<1>3. CASE Fetch(c) \/ FetchFails(c)
  <2>1. pc[c] # "abort" /\ NoneStops /\ OthersStay(c)
    BY <1>3, ReturnStays DEF Fetch, FetchFails, MoveBranches, git, trees
  <2> QED BY <2>1, NoMerge
<1>4. CASE Refetch(c)
  <2>1. pc[c] # "abort" /\ NoneStops /\ OthersStay(c)
    BY <1>4, DoneStays DEF Refetch, MoveBranches, git, trees
  <2> QED BY <2>1, NoMerge
<1>5. ASSUME NEW w \in Worktrees, Look(c, w)
      PROVE  MergesEnd'
  <2> DEFINE status == [seen[c] EXCEPT ![w] = Status(w)]
  <2>1. pc[c] # "abort" /\ NoneStops
    BY <1>5 DEF Look, git, trees
  <2>2. OthersStay(c)
    <3>1. CASE Return(c) \/ Act(c, Selected(c, status))
      BY <3>1, ReturnStays, ActStays
    <3>2. CASE UNCHANGED <<pc, at>>
      BY <3>2 DEF OthersStay
    <3> QED BY <1>5, <3>1, <3>2 DEF Look
  <2> QED BY <2>1, <2>2, NoMerge
<1>6. ASSUME NEW w \in Worktrees,
             FastForward(c, w) \/ Rebase(c, w) \/ MergeBase(c, w) \/ Reset(c, w)
      PROVE  MergesEnd'
  <2>1. pc[c] # "abort" /\ Done(c, w)
    BY <1>6 DEF FastForward, Rebase, MergeBase, Reset, Acting, Rebasing
  <2>2. NoneStops
    BY <1>6 DEF FastForward, Rebase, MergeBase, Reset, GitOK
  <2> QED BY <2>1, <2>2, DoneStays, NoMerge
<1>7. ASSUME NEW w \in Worktrees, GitFails(c, w) \/ RebaseStops(c, w)
      PROVE  MergesEnd'
  <2>1. pc[c] # "abort" /\ Fails(c, w)
    BY <1>7 DEF GitFails, RebaseStops, Acting, Rebasing
  <2>2. NoneStops
    BY <1>7 DEF GitFails, RebaseStops, GitOK, git, trees
  <2> QED BY <2>1, <2>2, FailsStays, NoMerge
<1>8. ASSUME NEW w \in Worktrees, Push(c, w)
      PROVE  MergesEnd'
  <2>1. pc[c] # "abort" /\ NoneStops
    BY <1>8 DEF Push, Acting, trees
  <2>2. OthersStay(c)
    <3>1. CASE cmd[c] = "pushAll"
      BY <1>8, <3>1 DEF Push, LocalOK, OthersStay
    <3>2. CASE cmd[c] # "pushAll"
      BY <1>8, <3>2, DoneStays DEF Push
    <3> QED BY <3>1, <3>2
  <2> QED BY <2>1, <2>2, NoMerge
<1>9. ASSUME NEW w \in Worktrees, MergeFails(c, w)
      PROVE  MergesEnd'
  <2>1. pc[c] # "abort" /\ pc'[c] = "abort" /\ at'[c] = w /\ OthersStay(c)
    BY <1>9 DEF MergeFails, Acting, LocalOK, OthersStay
  <2>2. \A v \in Worktrees \ {w} : busy'[v] = busy[v]
    BY <1>9 DEF MergeFails, GitOK
  <2> QED BY <2>1, <2>2 DEF MergesEnd, OthersStay
<1>10. CASE AbortMerge(c)
  <2>1. at[c] \in Worktrees /\ OthersStay(c)
    BY <1>10, DoneStays DEF AbortMerge, LocalOK
  <2>2. busy'[at[c]] # "merge" /\ \A v \in Worktrees \ {at[c]} : busy'[v] = busy[v]
    BY <1>10, <2>1 DEF AbortMerge, GitOK
  <2> QED BY <2>1, <2>2 DEF MergesEnd, OthersStay
<1> QED BY <1>1, <1>2, <1>3, <1>4, <1>5, <1>6, <1>7, <1>8, <1>9, <1>10 DEF Owm

\* A worktree is in the middle of a merge only while a pull-base is about to
\* abort it there, however many of them run.
THEOREM MergesCorrect == Spec => []MergesEnd
<1>1. Init => MergesEnd
  BY DEF Init, MergesEnd
<1>2. TypeOK /\ MergesEnd /\ [Next]_vars => MergesEnd'
  <2> SUFFICES ASSUME TypeOK, MergesEnd, [Next]_vars PROVE MergesEnd'
    OBVIOUS
  <2>1. CASE UNCHANGED vars
    BY <2>1 DEF vars, git, trees, local, MergesEnd
  <2> QED BY <2>1, MergesByUser, MergesByOwm DEF Next
<1> QED BY <1>1, <1>2, TypeCorrect, PTL DEF Spec

=============================================================================
