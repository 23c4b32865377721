---------------------------- MODULE ScriptsProofs ---------------------------
(***************************************************************************)
(* Proofs about Scripts: where users start no run of a script in the       *)
(* second another one did that has not ended, no two runs at work have the *)
(* same name, so a record is one run's and is never changed.               *)
(***************************************************************************)
EXTENDS Scripts, TLAPS

Pended == {"exec", "exit", "log"}
Linking == {"look", "unlink", "link"}
AtWork == Pended \cup {"read"} \cup Linking

-----------------------------------------------------------------------------
(* Types.                                                                  *)

LEMMA StoreType ==
  ASSUME NEW A, NEW B, NEW C, NEW f \in [A -> [B -> C]],
         NEW a \in A, NEW b, NEW c \in C
  PROVE  [f EXCEPT ![a][b] = c] \in [A -> [B -> C]]
<1>1. f[a] \in [B -> C]
  OBVIOUS
<1>2. [f[a] EXCEPT ![b] = c] \in [B -> C]
  BY <1>1
<1>3. [f EXCEPT ![a] = [f[a] EXCEPT ![b] = c]] \in [A -> [B -> C]]
  BY <1>2
<1> QED BY <1>3

LEMMA ConstantTypes ==
  /\ NoRows \in Rows
  /\ \A o \in Rows : Verdict(o) \in {"ok", "fail", "abort"}
  /\ \A i \in Names, s \in Stems : TypeOK => RowsIn(i, s) \in Rows
  /\ \A s \in ScriptNames, n \in Tries : TypeOK => <<s, second, n>> \in Stems
<1>1. NoRows \in Rows
  BY DEF NoRows, Rows
<1>2. \A o \in Rows : Verdict(o) \in {"ok", "fail", "abort"}
  BY DEF Verdict
<1>3. \A i \in Names, s \in Stems : TypeOK => RowsIn(i, s) \in Rows
  BY <1>1 DEF TypeOK, RowsIn
<1>4. \A s \in ScriptNames, n \in Tries : TypeOK => <<s, second, n>> \in Stems
  BY DEF TypeOK, Stems
<1> QED BY <1>1, <1>2, <1>3, <1>4

LEMMA RunTypes ==
  ASSUME TypeOK, NEW r \in Runs, Run(r)
  PROVE  TypeOK'
<1> USE DEF TypeOK
<1>1. ASSUME NEW i \in Names, NEW s \in ScriptNames, Reserve(r, i, s) PROVE TypeOK'
  <2>1. PICK n \in Tries : stem' = [stem EXCEPT ![r] = <<s, second, n>>]
    BY <1>1 DEF Reserve
  <2>2. <<s, second, n>> \in Stems
    BY ConstantTypes
  <2> QED BY <1>1, <2>1, <2>2 DEF Reserve, Goto, store, Steps
<1>2. CASE NotFound(r) \/ ScriptFails(r) \/ Kill(r)
  BY <1>2 DEF NotFound, ScriptFails, Kill, End, Goto, store, Steps
<1>3. CASE ScriptExits(r) \/ LookForLink(r) \/ WriteLog(r)
  <2>1. CASE WriteLog(r)
    BY <2>1 DEF WriteLog, Goto, Steps
  <2> QED BY <1>3, <2>1 DEF ScriptExits, LookForLink, Goto, store, Steps
<1>4. CASE Execute(r)
  <2>1. wrote' \in [Runs -> Rows]
    BY <1>4, ScriptsAssumption DEF Execute
  <2>2. /\ inst[r] \in Names /\ r \in Runs \cup {None}
        /\ file \in [Names -> [Stems -> Runs \cup {None}]]
    BY <1>4 DEF Execute
  <2>3. [file EXCEPT ![inst[r]][stem[r]] = r]
          \in [Names -> [Stems -> Runs \cup {None}]]
    BY ONLY <2>2, StoreType
  <2>4. file' = file \/ file' = [file EXCEPT ![inst[r]][stem[r]] = r]
    BY <1>4 DEF Execute
  <2>5. file' \in [Names -> [Stems -> Runs \cup {None}]]
    BY <2>3, <2>4
  <2> QED BY <1>4, <2>1, <2>5 DEF Execute, Goto, Steps
<1>5. CASE ReadResults(r)
  <2>1. inst[r] \in Names /\ stem[r] \in Stems /\ script[r] \in ScriptNames
    BY <1>5 DEF ReadResults
  <2>2. Verdict(RowsIn(inst[r], stem[r])) \in {"ok", "fail", "abort"}
    BY <2>1, ConstantTypes
  <2>3. file' \in [Names -> [Stems -> Runs \cup {None}]]
    BY <1>5, <2>1 DEF ReadResults
  <2>4. result' \in [Runs -> {"ok", "fail", "abort", "failed", "notFound",
                              "linkGone", "linkExists", "killed", None}]
    BY <1>5, <2>2 DEF ReadResults
  <2> QED BY <1>5, <2>1, <2>3, <2>4 DEF ReadResults, Goto, Steps, Links
<1>6. CASE Unlink(r)
  <2>1. inst[r] \in Names
    BY <1>6 DEF Unlink
  <2>2. link' \in [Names -> [Links -> Stems \cup {None}]]
    <3>1. [link EXCEPT ![inst[r]][next[r]] = None]
            \in [Names -> [Links -> Stems \cup {None}]]
      BY <2>1, StoreType
    <3>2. link' = link \/ link' = [link EXCEPT ![inst[r]][next[r]] = None]
      BY <1>6 DEF Unlink
    <3> QED BY <3>1, <3>2
  <2> QED BY <1>6, <2>2 DEF Unlink, End, Goto, Steps
<1>7. CASE Symlink(r)
  <2>1. inst[r] \in Names /\ stem[r] \in Stems
    BY <1>7 DEF Symlink
  <2>2. link' \in [Names -> [Links -> Stems \cup {None}]]
    <3>1. [link EXCEPT ![inst[r]][next[r]] = stem[r]]
            \in [Names -> [Links -> Stems \cup {None}]]
      BY <2>1, StoreType
    <3>2. link' = link \/ link' = [link EXCEPT ![inst[r]][next[r]] = stem[r]]
      BY <1>7 DEF Symlink
    <3> QED BY <3>1, <3>2
  <2> QED BY <1>7, <2>2 DEF Symlink, End, Goto, Steps, Links
<1> QED BY <1>1, <1>2, <1>3, <1>4, <1>5, <1>6, <1>7 DEF Run

\* Whatever the scripts write, and however the runs interleave, fail or are
\* killed, every variable stays of its type.
THEOREM TypeCorrect == Spec => []TypeOK
<1>1. Init => TypeOK
  BY ScriptsAssumption, ConstantTypes DEF Init, TypeOK, Seconds, Steps
<1>2. TypeOK /\ [Next]_vars => TypeOK'
  <2> SUFFICES ASSUME TypeOK, [Next]_vars PROVE TypeOK'
    OBVIOUS
  <2>1. CASE Tick
    BY <2>1, ScriptsAssumption DEF Tick, TypeOK, store, Seconds
  <2>2. CASE UNCHANGED vars
    BY <2>2 DEF vars, store, TypeOK
  <2> QED BY <2>1, <2>2, RunTypes DEF Next
<1> QED BY <1>1, <1>2, PTL DEF Spec

-----------------------------------------------------------------------------
(* Names are not shared.                                                   *)

StoreOf(r) == file[inst[r]][stem[r]]
Logged(r) == stem[r] \in logs[inst[r]]

StepInv(r) ==
  /\ at[r] # "new" => stem[r][1] = script[r]
  /\ at[r] \in {"new", "exec"} \/ script[r] \notin Structured => wrote[r] = NoRows
  /\ at[r] \in Pended => ~Logged(r)
  /\ at[r] \in {"read"} \cup Linking \/ Reported(r) => Logged(r)
  /\ at[r] \in {"exit", "log", "read"} =>
       StoreOf(r) = IF script[r] \in Structured THEN r ELSE None
  /\ at[r] \in Linking => next[r] \in {script[r], AnyScript}
  /\ at[r] \in Linking \/ Reported(r) =>
       StoreOf(r) = r /\ result[r] = Verdict(wrote[r])

Shared(q, r) == inst[q] = inst[r] /\ stem[q] = stem[r]

Apart ==
  \A q, r \in Runs : q # r /\ at[q] \in AtWork /\ at[r] \in AtWork => ~Shared(q, r)

\* A script that writes no rows has no results file before owm makes it.
NoStray ==
  \A i \in Names, s \in Stems :
    s[1] \notin Structured /\ file[i][s] # None => s \in logs[i]

RunInv == TypeOK /\ Apart /\ NoStray /\ \A r \in Runs : StepInv(r)

\* What a step of a run does to the rest.
Same(q) ==
  /\ at'[q] = at[q] /\ inst'[q] = inst[q] /\ script'[q] = script[q]
  /\ stem'[q] = stem[q] /\ next'[q] = next[q] /\ result'[q] = result[q]
  /\ wrote'[q] = wrote[q]

FileStep(r) ==
  \/ file' = file
  \/ /\ ~Logged(r) \/ StoreOf(r) = None
     /\ \E x \in Runs : file' = [file EXCEPT ![inst[r]][stem[r]] = x]

LogStep(r) ==
  \/ logs' = logs
  \/ logs' = [logs EXCEPT ![inst[r]] = @ \cup {stem[r]}]

LEMMA RunIsItsOwn ==
  ASSUME RunInv, NEW r \in Runs, Run(r)
  PROVE  /\ \A q \in Runs \ {r} : Same(q)
         /\ FileStep(r) /\ LogStep(r)
         /\ at[r] \in AtWork \/ UNCHANGED <<file, logs>>
<1> USE DEF RunInv, TypeOK, AtWork, Pended, Linking
<1>1. ASSUME NEW i \in Names, NEW s \in ScriptNames, Reserve(r, i, s)
      PROVE  (\A q \in Runs \ {r} : Same(q)) /\ UNCHANGED <<file, logs>>
  BY <1>1 DEF Reserve, Goto, Same, store
<1>2. CASE NotFound(r) \/ ScriptFails(r) \/ Kill(r)
  <2>1. (\A q \in Runs \ {r} : Same(q)) /\ UNCHANGED <<file, logs>>
    BY <1>2 DEF NotFound, ScriptFails, Kill, End, Goto, Same, store
  <2> QED BY <2>1 DEF FileStep, LogStep
<1>3. CASE ScriptExits(r) \/ LookForLink(r)
  <2>1. (\A q \in Runs \ {r} : Same(q)) /\ UNCHANGED <<file, logs>>
    BY <1>3 DEF ScriptExits, LookForLink, Goto, Same, store
  <2> QED BY <2>1 DEF FileStep, LogStep
<1>4. CASE WriteLog(r)
  BY <1>4 DEF WriteLog, Goto, Same, FileStep, LogStep
<1>5. CASE Execute(r)
  <2>1. ~Logged(r)
    BY <1>5 DEF Execute, StepInv
  <2>2. \A q \in Runs \ {r} : Same(q)
    BY <1>5 DEF Execute, Goto, Same
  <2>3. file' = file \/ file' = [file EXCEPT ![inst[r]][stem[r]] = r]
    BY <1>5 DEF Execute
  <2> QED BY <1>5, <2>1, <2>2, <2>3 DEF Execute, FileStep, LogStep
<1>6. CASE ReadResults(r)
  <2>1. \A q \in Runs \ {r} : Same(q)
    BY <1>6 DEF ReadResults, Goto, Same
  <2>2. inst[r] \in Names /\ stem[r] \in Stems
    BY <1>6 DEF ReadResults
  <2>3. CASE StoreOf(r) = None
    <3>1. file' = [file EXCEPT ![inst[r]][stem[r]] = r]
      BY <1>6, <2>2, <2>3 DEF ReadResults, StoreOf
    <3> QED BY <1>6, <2>1, <2>3, <3>1 DEF ReadResults, FileStep, LogStep
  <2>4. CASE StoreOf(r) # None
    <3>1. file' = file
      BY <1>6, <2>2, <2>4 DEF ReadResults, StoreOf
    <3> QED BY <1>6, <2>1, <3>1 DEF ReadResults, FileStep, LogStep
  <2> QED BY <2>3, <2>4
<1>7. CASE Unlink(r) \/ Symlink(r)
  <2>1. (\A q \in Runs \ {r} : Same(q)) /\ UNCHANGED <<file, logs>>
    BY <1>7 DEF Unlink, Symlink, End, Goto, Same
  <2> QED BY <2>1 DEF FileStep, LogStep
<1> QED BY <1>1, <1>2, <1>3, <1>4, <1>5, <1>6, <1>7 DEF Run, FileStep, LogStep

LEMMA OthersKeep ==
  ASSUME RunInv, NEW r \in Runs, NEW q \in Runs \ {r}, Same(q),
         FileStep(r), LogStep(r),
         at[r] \in AtWork \/ UNCHANGED <<file, logs>>
  PROVE  StepInv(q)'
<1> USE DEF RunInv
<1>1. StepInv(q)
  OBVIOUS
<1>2. CASE at[q] = "new"
  BY <1>1, <1>2 DEF Same, StepInv, Pended, Linking, Reported
<1>3. CASE at[q] # "new"
  <2>1. inst[q] \in Names /\ stem[q] \in Stems
    BY <1>3 DEF TypeOK
  <2>2. Logged(q) => Logged(q)'
    BY <2>1 DEF LogStep, Logged, Same, TypeOK
  <2>3. at[q] \in AtWork \/ Reported(q) => StoreOf(q)' = StoreOf(q)
    <3>1. CASE file' = file
      BY <3>1 DEF StoreOf, Same
    <3>2. CASE file' # file
      <4>1. PICK x \in Runs : file' = [file EXCEPT ![inst[r]][stem[r]] = x]
        BY <3>2 DEF FileStep
      <4>2. ~Logged(r) \/ StoreOf(r) = None
        BY <3>2 DEF FileStep
      <4>3. at[r] \in AtWork
        BY <3>2
      <4>4. CASE ~Shared(q, r)
        BY <2>1, <4>1, <4>4 DEF Shared, StoreOf, Same, TypeOK
      <4>5. CASE Shared(q, r) /\ at[q] \in AtWork
        BY <4>3, <4>5 DEF Apart, Shared
      <4>6. CASE Shared(q, r) /\ Reported(q)
        BY <1>1, <4>2, <4>6, ScriptsAssumption DEF StepInv, Shared, StoreOf, Logged, Reported, TypeOK
      <4> QED BY <4>4, <4>5, <4>6
    <3> QED BY <3>1, <3>2
  <2>4. at[q] \in Pended => (Logged(q)' => Logged(q))
    <3>1. CASE logs' = logs
      BY <3>1 DEF Logged, Same
    <3>2. CASE logs' # logs
      <4>1. at[r] \in AtWork /\ logs' = [logs EXCEPT ![inst[r]] = @ \cup {stem[r]}]
        BY <3>2 DEF LogStep
      <4>2. at[q] \in Pended => ~Shared(q, r)
        BY <4>1 DEF Apart, AtWork
      <4> QED BY <2>1, <4>1, <4>2 DEF Logged, Same, Shared, TypeOK
    <3> QED BY <3>1, <3>2
  <2> QED
    BY <1>1, <2>2, <2>3, <2>4 DEF Same, StepInv, AtWork, Pended, Linking, Reported
<1> QED BY <1>2, <1>3

LEMMA OwnKept ==
  ASSUME RunInv, Spread, NEW r \in Runs, Run(r)
  PROVE  StepInv(r)'
<1> USE DEF RunInv, TypeOK, Pended, Linking, Reported
<1>1. ASSUME NEW i \in Names, NEW s \in ScriptNames, Reserve(r, i, s)
      PROVE  StepInv(r)'
  <2>1. PICK n \in Tries : /\ <<s, second, n>> \notin logs[i]
                           /\ stem' = [stem EXCEPT ![r] = <<s, second, n>>]
    BY <1>1 DEF Reserve
  <2>2. stem'[r] = <<s, second, n>> /\ script'[r] = s /\ inst'[r] = i /\ at'[r] = "exec"
    BY <1>1, <2>1 DEF Reserve, Goto
  <2>3. logs' = logs /\ wrote'[r] = NoRows
    BY <1>1 DEF Reserve, StepInv, store
  <2>4. ~Logged(r)'
    BY <2>1, <2>2, <2>3 DEF Logged
  <2> QED BY <2>2, <2>3, <2>4 DEF StepInv
<1>2. CASE NotFound(r) \/ ScriptFails(r) \/ Kill(r)
  <2>1. /\ at'[r] = "over" /\ result'[r] \in {"notFound", "failed", "killed"}
        /\ stem'[r] = stem[r] /\ script'[r] = script[r] /\ wrote'[r] = wrote[r]
    BY <1>2 DEF NotFound, ScriptFails, Kill, End, Goto
  <2>2. at[r] # "new"
    BY <1>2 DEF NotFound, ScriptFails, Kill
  <2> QED BY <2>1, <2>2 DEF StepInv
<1>3. CASE Execute(r)
  <2>1. inst[r] \in Names /\ stem[r] \in Stems /\ script[r] \in ScriptNames
    BY <1>3 DEF Execute
  <2>2. /\ at[r] = "exec" /\ at'[r] = "exit" /\ logs' = logs
        /\ inst' = inst /\ stem' = stem /\ script' = script
    BY <1>3 DEF Execute, Goto
  <2>3. ~Logged(r)' /\ stem[r][1] = script[r]
    BY <2>2 DEF StepInv, Logged
  <2>4. CASE script[r] \in Structured
    <3>1. StoreOf(r)' = r
      BY <1>3, <2>1, <2>2, <2>4 DEF Execute, StoreOf
    <3> QED BY <2>2, <2>3, <2>4, <3>1 DEF StepInv
  <2>5. CASE script[r] \notin Structured
    <3>1. wrote' = wrote /\ file' = file
      BY <1>3, <2>5 DEF Execute
    <3>2. wrote[r] = NoRows
      BY <2>5 DEF StepInv
    <3>3. StoreOf(r) = None
      BY <2>1, <2>2, <2>3, <2>5 DEF NoStray, StoreOf, Logged
    <3> QED BY <2>2, <2>3, <2>5, <3>1, <3>2, <3>3 DEF StepInv, StoreOf
  <2> QED BY <2>4, <2>5
<1>4. CASE ScriptExits(r)
  <2>1. /\ at[r] = "exit" /\ at'[r] = "log" /\ UNCHANGED <<file, logs, inst, stem, script, wrote>>
    BY <1>4 DEF ScriptExits, Goto, store
  <2> QED BY <2>1 DEF StepInv, StoreOf, Logged
<1>5. CASE WriteLog(r)
  <2>1. /\ at[r] = "log" /\ at'[r] = "read"
        /\ UNCHANGED <<file, inst, stem, script, wrote>>
        /\ inst[r] \in Names
        /\ logs' = [logs EXCEPT ![inst[r]] = @ \cup {stem[r]}]
    BY <1>5 DEF WriteLog, Goto
  <2>2. Logged(r)'
    BY <2>1 DEF Logged
  <2> QED BY <2>1, <2>2 DEF StepInv, StoreOf
<1>6. CASE ReadResults(r)
  <2>1. /\ inst[r] \in Names /\ stem[r] \in Stems /\ script[r] \in ScriptNames
        /\ at[r] = "read" /\ at'[r] = "look"
        /\ UNCHANGED <<logs, inst, stem, script, wrote>>
        /\ next'[r] = script[r]
    BY <1>6 DEF ReadResults, Goto
  <2>2. StoreOf(r) = IF script[r] \in Structured THEN r ELSE None
    BY <2>1 DEF StepInv
  <2>3. file' = [file EXCEPT ![inst[r]][stem[r]] = IF @ = None THEN r ELSE @]
    BY <1>6 DEF ReadResults
  <2>4. StoreOf(r)' = r
    BY <2>1, <2>2, <2>3 DEF StoreOf
  <2>5. RowsIn(inst[r], stem[r]) = wrote[r]
    <3>1. r # None
      BY ScriptsAssumption
    <3>2. CASE script[r] \in Structured
      BY <2>2, <3>1, <3>2 DEF RowsIn, StoreOf
    <3>3. CASE script[r] \notin Structured
      BY <2>2, <3>3 DEF RowsIn, StoreOf, StepInv
    <3> QED BY <3>2, <3>3
  <2>6. result'[r] = Verdict(wrote'[r])
    BY <1>6, <2>1, <2>5 DEF ReadResults
  <2>7. Logged(r)'
    BY <2>1 DEF StepInv, Logged
  <2> QED BY <2>1, <2>4, <2>6, <2>7 DEF StepInv
<1>7. CASE LookForLink(r)
  <2>1. /\ at[r] = "look" /\ at'[r] \in {"link", "unlink"}
        /\ UNCHANGED <<file, logs, inst, stem, script, wrote, next, result>>
    BY <1>7 DEF LookForLink, Goto, store
  <2> QED BY <2>1 DEF StepInv, StoreOf, Logged
<1>8. CASE Unlink(r)
  <2>1. /\ at[r] = "unlink"
        /\ UNCHANGED <<file, logs, inst, stem, script, wrote, next>>
        /\ \/ at'[r] = "link" /\ result' = result
           \/ at'[r] = "over" /\ result'[r] = "linkGone"
    BY <1>8 DEF Unlink, End, Goto
  <2> QED BY <2>1 DEF StepInv, StoreOf, Logged
<1>9. CASE Symlink(r)
  <2>1. /\ at[r] = "link"
        /\ UNCHANGED <<file, logs, inst, stem, script, wrote>>
        /\ \/ at'[r] = "look" /\ result' = result /\ next'[r] = AnyScript
           \/ at'[r] = "over" /\ result'[r] \in {result[r], "linkExists"}
    BY <1>9 DEF Symlink, End, Goto
  <2> QED BY <2>1 DEF StepInv, StoreOf, Logged
<1> QED BY <1>1, <1>2, <1>3, <1>4, <1>5, <1>6, <1>7, <1>8, <1>9 DEF Run

LEMMA ApartKept ==
  ASSUME RunInv, Spread, NEW r \in Runs, Run(r)
  PROVE  Apart'
<1> USE DEF RunInv, TypeOK
<1>1. ASSUME NEW i \in Names, NEW s \in ScriptNames, Reserve(r, i, s),
             NEW q \in Runs \ {r}, at[q] \in AtWork, inst[q] = i
      PROVE  stem[q] # stem'[r]
  <2>1. PICK n \in Tries : /\ <<s, second, n>> \notin logs[i]
                           /\ stem' = [stem EXCEPT ![r] = <<s, second, n>>]
    BY <1>1 DEF Reserve
  <2>2. Pending(i, s) = {}
    BY <1>1 DEF Reserve, StartsApart
  <2>3. stem'[r] = <<s, second, n>>
    BY <2>1
  <2>4. at[q] \in Pended => script[q] # s \/ stem[q][2] # second
    BY <1>1, <2>2 DEF Pending, Pended
  <2>5. at[q] # "new" /\ stem[q][1] = script[q]
    BY <1>1 DEF StepInv, AtWork, Pended, Linking
  <2>6. CASE at[q] \in Pended
    BY <2>3, <2>4, <2>5, <2>6
  <2>7. CASE at[q] \notin Pended
    <3>1. stem[q] \in logs[i]
      BY <1>1, <2>7 DEF StepInv, Logged, AtWork
    <3> QED BY <2>1, <2>3, <3>1
  <2> QED BY <2>6, <2>7
<1>2. \A q \in Runs \ {r} : Same(q)
  BY RunIsItsOwn
<1>3. ASSUME NEW q \in Runs \ {r}, at'[q] \in AtWork, at'[r] \in AtWork
      PROVE  ~Shared(q, r)'
  <2>1. at[q] \in AtWork /\ inst'[q] = inst[q] /\ stem'[q] = stem[q]
    BY <1>2, <1>3 DEF Same
  <2>2. CASE \E i \in Names, s \in ScriptNames : Reserve(r, i, s)
    <3>1. PICK i \in Names, s \in ScriptNames : Reserve(r, i, s)
      BY <2>2
    <3>2. inst'[r] = i
      BY <3>1 DEF Reserve
    <3> QED BY <1>1, <2>1, <3>1, <3>2 DEF Shared
  <2>3. CASE ~\E i \in Names, s \in ScriptNames : Reserve(r, i, s)
    <3>1. at[r] # "new" /\ at[r] # "over" /\ UNCHANGED <<inst, stem>>
      BY <2>3 DEF Run, NotFound, Execute, ScriptFails, ScriptExits, WriteLog,
         ReadResults, LookForLink, Unlink, Symlink, Kill, End
    <3>2. at[r] \in AtWork
      BY <3>1 DEF AtWork, Pended, Linking, Steps
    <3> QED BY <2>1, <3>1, <3>2 DEF Apart, Shared
  <2> QED BY <2>2, <2>3
<1>4. ASSUME NEW p \in Runs \ {r}, NEW q \in Runs \ {r}, p # q,
             at'[p] \in AtWork, at'[q] \in AtWork
      PROVE  ~Shared(p, q)'
  <2>1. Same(p) /\ Same(q)
    BY <1>2
  <2> QED BY <1>4, <2>1 DEF Apart, Shared, Same
<1> QED BY <1>3, <1>4 DEF Apart, Shared

LEMMA NoStrayKept ==
  ASSUME RunInv, NEW r \in Runs, Run(r)
  PROVE  NoStray'
<1> USE DEF RunInv, TypeOK
<1> SUFFICES ASSUME NEW i \in Names, NEW s \in Stems,
                    s[1] \notin Structured, file'[i][s] # None
             PROVE  s \in logs'[i]
  BY DEF NoStray
<1>1. s \in logs[i] => s \in logs'[i]
  <2>1. LogStep(r)
    BY RunIsItsOwn
  <2> QED BY <2>1 DEF LogStep
<1>2. CASE file'[i][s] = file[i][s]
  BY <1>1, <1>2 DEF NoStray
<1>3. CASE file'[i][s] # file[i][s]
  <2>1. Execute(r) \/ ReadResults(r)
    BY <1>3 DEF Run, Reserve, NotFound, ScriptFails, ScriptExits, WriteLog,
       LookForLink, Unlink, Symlink, Kill, store
  <2>2. PICK x \in Runs : file' = [file EXCEPT ![inst[r]][stem[r]] = x]
    BY <1>3, RunIsItsOwn DEF FileStep
  <2>3. i = inst[r] /\ s = stem[r]
    BY <1>3, <2>2
  <2>4. script[r] = s[1]
    BY <2>1, <2>3 DEF Execute, ReadResults, StepInv
  <2>5. ReadResults(r)
    BY <1>3, <2>1, <2>4 DEF Execute
  <2>6. Logged(r)
    BY <2>5 DEF ReadResults, StepInv
  <2> QED BY <1>1, <2>3, <2>6 DEF Logged
<1> QED BY <1>2, <1>3

LEMMA RunsApart == Spread => (Spec => []RunInv)
<1> SUFFICES ASSUME Spread PROVE Spec => []RunInv
  OBVIOUS
<1>1. Init => Apart /\ NoStray /\ \A r \in Runs : StepInv(r)
  BY DEF Init, Apart, NoStray, StepInv, AtWork, Pended, Linking, Reported
<1>2. RunInv /\ TypeOK' /\ [Next]_vars => RunInv'
  <2> SUFFICES ASSUME RunInv, TypeOK', [Next]_vars PROVE RunInv'
    OBVIOUS
  <2>1. CASE Tick \/ UNCHANGED vars
    <3>1. UNCHANGED <<file, logs, at, inst, script, stem, next, result, wrote>>
      BY <2>1 DEF Tick, vars, store
    <3>2. Apart' /\ NoStray'
      BY <3>1 DEF RunInv, Apart, Shared, NoStray
    <3>3. \A r \in Runs : StepInv(r)'
      BY <3>1 DEF RunInv, StepInv, Logged, StoreOf, Reported
    <3> QED BY <3>2, <3>3 DEF RunInv
  <2>2. ASSUME NEW r \in Runs, Run(r) PROVE RunInv'
    <3>1. ASSUME NEW q \in Runs \ {r} PROVE StepInv(q)'
      BY <2>2, RunIsItsOwn, OthersKeep
    <3>2. StepInv(r)' /\ Apart' /\ NoStray'
      BY <2>2, OwnKept, ApartKept, NoStrayKept
    <3> QED BY <3>1, <3>2 DEF RunInv
  <2> QED BY <2>1, <2>2 DEF Next
<1> QED BY <1>1, <1>2, TypeCorrect, PTL DEF Spec, RunInv

-----------------------------------------------------------------------------
(* What readers see.                                                       *)

\* Where users start no run of a script in the second another one did that has
\* not ended, a run that has a log has a results file of its own, and reports
\* the verdict on its own rows (run_instance_script).
THEOREM RecordsKept == Spread => (Spec => []RecordKept)
<1>1. RunInv => RecordKept
  BY DEF RunInv, RecordKept, StepInv, StoreOf, Linking, Reported
<1> QED BY <1>1, RunsApart, PTL

LEMMA RecordStep ==
  ASSUME TypeOK, NEW i \in Names, NEW s \in Stems, link' = link,
         Record[i][s] = None,
         Record'[i][s] \in Runs \cup {None},
         \A j \in Names, t \in Stems :
           j # i \/ t # s => Record'[j][t] = Record[j][t]
  PROVE  [Published!Next]_(Published!vars)
<1>1. /\ Record \in [Names -> [Stems -> Runs \cup {None}]]
      /\ \A j \in Names : Record'[j] = [t \in Stems |-> Record'[j][t]]
      /\ \A j \in Names : Record[j] = [t \in Stems |-> Record[j][t]]
  BY DEF Record, TypeOK
<1>2. Record' = [j \in Names |-> [t \in Stems |-> Record'[j][t]]]
  BY DEF Record
<1>3. Record' = [Record EXCEPT ![i][s] = Record'[i][s]]
  <2>1. ASSUME NEW j \in Names, j # i PROVE Record'[j] = Record[j]
    <3>1. \A t \in Stems : Record'[j][t] = Record[j][t]
      BY <2>1
    <3> QED BY <1>1, <3>1
  <2>2. Record'[i] = [Record[i] EXCEPT ![s] = Record'[i][s]]
    BY <1>1
  <2> QED BY <1>1, <1>2, <2>1, <2>2
<1>4. CASE Record'[i][s] = None
  <2>1. Record' = Record
    BY <1>1, <1>3, <1>4
  <2> QED BY <2>1 DEF Published!vars
<1>5. CASE Record'[i][s] \in Runs
  <2>1. Published!Publish(i, s, Record'[i][s])
    BY <1>3 DEF Published!Publish
  <2> QED BY <1>5, <2>1 DEF Published!Next
<1> QED BY <1>4, <1>5

LEMMA RunPublishes ==
  ASSUME RunInv, NEW r \in Runs, Run(r)
  PROVE  [Published!Next]_(Published!vars)
<1> USE DEF RunInv
<1>1. CASE UNCHANGED <<file, logs, link>>
  BY <1>1 DEF Published!vars, Record
<1>2. CASE Execute(r)
  <2>1. /\ inst[r] \in Names /\ stem[r] \in Stems
        /\ logs' = logs /\ link' = link
        /\ file' = file \/ file' = [file EXCEPT ![inst[r]][stem[r]] = r]
    BY <1>2 DEF Execute, TypeOK
  <2>2. stem[r] \notin logs[inst[r]]
    BY <1>2 DEF Execute, StepInv, Pended, Logged
  <2>3. ASSUME NEW i \in Names, NEW s \in Stems, s \in logs[i]
        PROVE  file'[i][s] = file[i][s]
    <3>1. i # inst[r] \/ s # stem[r]
      BY <2>2, <2>3
    <3> QED BY <2>1, <3>1 DEF TypeOK
  <2>4. Record' = Record
    BY <2>1, <2>3 DEF Record
  <2> QED BY <2>1, <2>4 DEF Published!vars
<1>3. CASE WriteLog(r) \/ (ReadResults(r) /\ script[r] \notin Structured)
  <2>1. inst[r] \in Names /\ stem[r] \in Stems /\ link' = link
    BY <1>3 DEF WriteLog, ReadResults, TypeOK
  <2>2. FileStep(r) /\ LogStep(r)
    BY RunIsItsOwn
  <2>3. ASSUME NEW i \in Names, NEW s \in Stems, i # inst[r] \/ s # stem[r]
        PROVE  Record'[i][s] = Record[i][s]
    <3>1. file'[i][s] = file[i][s]
      BY <2>2, <2>3 DEF FileStep, TypeOK
    <3>2. s \in logs'[i] <=> s \in logs[i]
      BY <2>2, <2>3 DEF LogStep, TypeOK
    <3> QED BY <3>1, <3>2 DEF Record
  <2>4. Record[inst[r]][stem[r]] = None
    <3>1. CASE WriteLog(r)
      <4>1. stem[r] \notin logs[inst[r]]
        BY <3>1 DEF WriteLog, StepInv, Pended, Logged
      <4> QED BY <2>1, <4>1 DEF Record
    <3>2. CASE ReadResults(r) /\ script[r] \notin Structured
      <4>1. file[inst[r]][stem[r]] = None
        BY <3>2 DEF ReadResults, StepInv, StoreOf
      <4> QED BY <2>1, <4>1 DEF Record
    <3> QED BY <1>3, <3>1, <3>2
  <2>5. Record'[inst[r]][stem[r]] \in Runs \cup {None}
    <3>1. TypeOK'
      BY RunTypes
    <3> QED BY <2>1, <3>1 DEF Record, TypeOK
  <2> QED BY <2>1, <2>3, <2>4, <2>5, RecordStep
<1>4. CASE ReadResults(r) /\ script[r] \in Structured
  <2>1. /\ inst[r] \in Names /\ stem[r] \in Stems
        /\ logs' = logs /\ link' = link
        /\ file' = [file EXCEPT ![inst[r]][stem[r]] = IF @ = None THEN r ELSE @]
    BY <1>4 DEF ReadResults, TypeOK
  <2>2. file[inst[r]][stem[r]] = r /\ r # None
    BY <1>4, ScriptsAssumption DEF ReadResults, StepInv, StoreOf
  <2>3. file' = file
    BY <2>1, <2>2 DEF TypeOK
  <2> QED BY <2>1, <2>3, <1>1
<1>5. CASE Unlink(r)
  <2>1. inst[r] \in Names /\ next[r] \in Links /\ Record' = Record
    BY <1>5 DEF Unlink, TypeOK, StepInv, Linking, Links, Record
  <2>2. CASE link[inst[r]][next[r]] = None
    BY <1>1, <1>5, <2>2 DEF Unlink
  <2>3. CASE link[inst[r]][next[r]] # None
    <3>1. Published!Withdraw(inst[r], next[r])
      BY <1>5, <2>1, <2>3 DEF Unlink, Published!Withdraw
    <3> QED BY <2>1, <3>1 DEF Published!Next
  <2> QED BY <2>2, <2>3
<1>6. CASE Symlink(r)
  <2>1. /\ inst[r] \in Names /\ stem[r] \in Stems /\ Record' = Record
        /\ script[r] \in ScriptNames
    BY <1>6 DEF Symlink, TypeOK, Record
  <2>2. next[r] \in Links /\ next[r] \in {stem[r][1], AnyScript}
    BY <1>6, <2>1 DEF Symlink, StepInv, Linking, Links
  <2>3. CASE link[inst[r]][next[r]] # None
    BY <1>1, <1>6, <2>3 DEF Symlink
  <2>4. CASE link[inst[r]][next[r]] = None
    <3>1. Record[inst[r]][stem[r]] # None
      <4>1. stem[r] \in logs[inst[r]] /\ file[inst[r]][stem[r]] = r /\ r # None
        BY <1>6, ScriptsAssumption DEF Symlink, StepInv, Linking, Logged, StoreOf
      <4> QED BY <2>1, <4>1 DEF Record
    <3>2. link' = [link EXCEPT ![inst[r]][next[r]] = stem[r]]
      BY <1>6, <2>4 DEF Symlink
    <3>3. Published!Point(inst[r], next[r], stem[r])
      BY <2>1, <2>2, <2>4, <3>1, <3>2 DEF Published!Point
    <3> QED BY <2>1, <2>2, <3>3 DEF Published!Next
  <2> QED BY <2>3, <2>4
<1>7. ASSUME NEW i \in Names, NEW s \in ScriptNames, Reserve(r, i, s)
      PROVE  UNCHANGED <<file, logs, link>>
  BY <1>7 DEF Reserve, store
<1>8. CASE \/ NotFound(r) \/ ScriptFails(r) \/ ScriptExits(r)
           \/ LookForLink(r) \/ Kill(r)
  BY <1>1, <1>8 DEF NotFound, ScriptFails, ScriptExits, LookForLink, Kill, store
<1>9. CASE ReadResults(r)
  BY <1>3, <1>4, <1>9
<1>10. CASE WriteLog(r)
  BY <1>3, <1>10
<1> QED
  BY <1>1, <1>2, <1>5, <1>6, <1>7, <1>8, <1>9, <1>10 DEF Run

\* Under the same care of its users, run_instance_script implements Records:
\* for any runs, instances and scripts, records are published once and never
\* changed, and a link that can be followed leads to a record it may lead to.
THEOREM RecordsImplemented == Spread => (Spec => ImplementsRecords)
<1> SUFFICES ASSUME Spread PROVE Spec => ImplementsRecords
  OBVIOUS
<1>1. Init => Published!Init
  BY DEF Init, Published!Init, Record
<1>2. RunInv /\ [Next]_vars => [Published!Next]_(Published!vars)
  <2>1. ASSUME Tick \/ UNCHANGED vars PROVE UNCHANGED Published!vars
    BY <2>1 DEF Tick, vars, store, Published!vars, Record
  <2> QED BY <2>1, RunPublishes DEF Next
<1> QED BY <1>1, <1>2, RunsApart, PTL DEF Spec, ImplementsRecords, Published!Spec

-----------------------------------------------------------------------------
(* The links heal.  Nothing is assumed of the users here: a link that is    *)
(* not there is owed by some run that will make it.                         *)

Undisturbed(i) == \A r \in Runs : inst[r] = i => result[r] # "killed"

\* Run r will come to the link l, or to the instance's link after its own.
\* One that finds its own link gone, or there again, ends and owes nothing.
Owes(r, i, l) ==
  /\ inst[r] = i
  /\ \/ at[r] = "read" /\ l \in {script[r], AnyScript}
     \/ at[r] \in {"look", "link"} /\ next[r] = l
     \/ /\ l = AnyScript /\ next[r] = script[r]
        /\ \/ at[r] = "look"
           \/ at[r] = "unlink" /\ link[i][script[r]] # None
           \/ at[r] = "link" /\ link[i][script[r]] = None

Linked(i, l) == link[i][l] # None \/ \E r \in Runs : Owes(r, i, l)

CourseInv ==
  \A r \in Runs :
    /\ at[r] # "new" => stem[r][1] = script[r]
    /\ at[r] \in Linking => next[r] \in {script[r], AnyScript}
    /\ result[r] = "killed" => at[r] = "over"

LinkInv ==
  \A i \in Names : Undisturbed(i) =>
    \A s \in logs[i] : Linked(i, s[1]) /\ Linked(i, AnyScript)

LEMMA OthersSame ==
  ASSUME TypeOK, NEW r \in Runs, Run(r)
  PROVE  \A q \in Runs \ {r} : Same(q)
<1> USE DEF TypeOK
<1>1. ASSUME NEW i \in Names, NEW s \in ScriptNames, Reserve(r, i, s)
      PROVE  \A q \in Runs \ {r} : Same(q)
  BY <1>1 DEF Reserve, Goto, Same
<1>2. CASE NotFound(r) \/ ScriptFails(r) \/ Kill(r) \/ ScriptExits(r)
  BY <1>2 DEF NotFound, ScriptFails, Kill, ScriptExits, End, Goto, Same
<1>3. CASE Execute(r) \/ WriteLog(r) \/ ReadResults(r)
  BY <1>3 DEF Execute, WriteLog, ReadResults, Goto, Same
<1>4. CASE LookForLink(r) \/ Unlink(r) \/ Symlink(r)
  BY <1>4 DEF LookForLink, Unlink, Symlink, End, Goto, Same
<1> QED BY <1>1, <1>2, <1>3, <1>4 DEF Run

LEMMA CourseStep ==
  ASSUME TypeOK, CourseInv, NEW r \in Runs, Run(r)
  PROVE  CourseInv'
<1> DEFINE Good(q) == /\ at[q] # "new" => stem[q][1] = script[q]
                      /\ at[q] \in Linking => next[q] \in {script[q], AnyScript}
                      /\ result[q] = "killed" => at[q] = "over"
<1>1. \A q \in Runs : Good(q)
  BY DEF CourseInv
<1>2. ASSUME NEW q \in Runs \ {r} PROVE Good(q)'
  BY <1>1, OthersSame DEF Same
<1>3. Good(r)'
  <2> USE <1>1 DEF TypeOK, Linking
  <2>1. ASSUME NEW i \in Names, NEW s \in ScriptNames, Reserve(r, i, s)
        PROVE  Good(r)'
    BY <2>1 DEF Reserve, Goto
  <2>2. CASE NotFound(r) \/ ScriptFails(r) \/ Kill(r)
    BY <2>2 DEF NotFound, ScriptFails, Kill, End, Goto
  <2>3. CASE ScriptExits(r) \/ Execute(r) \/ WriteLog(r)
    BY <2>3 DEF ScriptExits, Execute, WriteLog, Goto
  <2>4. CASE ReadResults(r)
    <3>1. result'[r] = Verdict(RowsIn(inst[r], stem[r]))
      BY <2>4 DEF ReadResults
    <3>2. result'[r] # "killed"
      BY <3>1 DEF Verdict
    <3> QED BY <2>4, <3>2 DEF ReadResults, Goto
  <2>5. CASE LookForLink(r)
    BY <2>5 DEF LookForLink, Goto
  <2>6. CASE Unlink(r) \/ Symlink(r)
    BY <2>6 DEF Unlink, Symlink, End, Goto
  <2> QED BY <2>1, <2>2, <2>3, <2>4, <2>5, <2>6 DEF Run
<1> QED BY <1>2, <1>3 DEF CourseInv

\* A step keeps a link there, or owed.
LEMMA LinkedStep ==
  ASSUME TypeOK, CourseInv, NEW r \in Runs, Run(r),
         NEW i \in Names, NEW l \in Links, Undisturbed(i)', Linked(i, l)
  PROVE  Linked(i, l)'
<1> USE DEF TypeOK
<1>1. ASSUME NEW q \in Runs \ {r}, Owes(q, i, l),
             l # AnyScript \/ UNCHANGED link
      PROVE  Owes(q, i, l)'
  <2>1. Same(q)
    BY OthersSame
  <2> QED BY <1>1, <2>1 DEF Owes, Same
<1>2. CASE UNCHANGED link /\ ~Owes(r, i, l)
  BY <1>1, <1>2 DEF Linked
<1>3. ASSUME NEW j \in Names, NEW s \in ScriptNames, Reserve(r, j, s)
      PROVE  Linked(i, l)'
  <2>1. UNCHANGED link /\ ~Owes(r, i, l)
    BY <1>3 DEF Reserve, store, Owes
  <2> QED BY <1>2, <2>1
<1>4. CASE \/ NotFound(r) \/ Execute(r) \/ ScriptFails(r) \/ ScriptExits(r)
           \/ WriteLog(r)
  <2>1. UNCHANGED link /\ ~Owes(r, i, l)
    BY <1>4 DEF NotFound, Execute, ScriptFails, ScriptExits, WriteLog, store,
       Owes
  <2> QED BY <1>2, <2>1
<1>5. CASE Kill(r)
  <2>1. inst[r] # i
    BY <1>5 DEF Kill, End, Undisturbed
  <2>2. UNCHANGED link /\ ~Owes(r, i, l)
    BY <1>5, <2>1 DEF Kill, store, Owes
  <2> QED BY <1>2, <2>2
<1>6. CASE ReadResults(r)
  <2>1. UNCHANGED <<link, inst, script>> /\ at'[r] = "look" /\ next'[r] = script[r]
    BY <1>6 DEF ReadResults, Goto
  <2>2. Owes(r, i, l) => Owes(r, i, l)'
    BY <1>6, <2>1 DEF ReadResults, Owes
  <2> QED BY <1>1, <2>1, <2>2 DEF Linked
<1>7. CASE LookForLink(r)
  <2>1. /\ UNCHANGED <<link, inst, script, next>> /\ at[r] = "look"
        /\ at'[r] = IF link[inst[r]][next[r]] = None THEN "link" ELSE "unlink"
    BY <1>7 DEF LookForLink, store, Goto
  <2>2. Owes(r, i, l) => Owes(r, i, l)' \/ link[i][l] # None
    BY <2>1 DEF Owes
  <2> QED BY <1>1, <2>1, <2>2 DEF Linked
<1>8. CASE Unlink(r) \/ Symlink(r)
  <2>1. /\ inst[r] \in Names /\ script[r] \in ScriptNames
        /\ next[r] \in {script[r], AnyScript} /\ next[r] \in Links
        /\ stem[r] \in Stems /\ stem[r] # None
        /\ script[r] # AnyScript /\ at[r] \in {"unlink", "link"}
    BY <1>8, ScriptsAssumption DEF Unlink, Symlink, CourseInv, Linking, Links
  <2>2. CASE UNCHANGED link
    <3>1. ~Owes(r, i, l) \/ link[i][l] # None
      <4>1. CASE Unlink(r) /\ link[inst[r]][next[r]] = None
        BY <4>1 DEF Unlink, Owes
      <4>2. CASE Symlink(r) /\ link[inst[r]][next[r]] # None
        BY <4>2 DEF Symlink, Owes
      <4>3. CASE Unlink(r) /\ link[inst[r]][next[r]] # None
        BY <2>1, <2>2, <4>3 DEF Unlink
      <4>4. CASE Symlink(r) /\ link[inst[r]][next[r]] = None
        BY <2>1, <2>2, <4>4 DEF Symlink
      <4> QED BY <1>8, <4>1, <4>2, <4>3, <4>4
    <3> QED BY <1>1, <2>2, <3>1 DEF Linked
  <2>3. CASE inst[r] # i
    <3>1. link'[i] = link[i]
      BY <1>8, <2>1, <2>3 DEF Unlink, Symlink
    <3>2. ASSUME NEW q \in Runs, Owes(q, i, l) PROVE Owes(q, i, l)'
      <4>1. q # r
        BY <2>3, <3>2 DEF Owes
      <4>2. Same(q)
        BY <4>1, OthersSame
      <4> QED BY <3>1, <3>2, <4>2 DEF Owes, Same
    <3> QED BY <3>1, <3>2 DEF Linked
  <2>4. CASE inst[r] = i /\ link' # link /\ Unlink(r)
    <3>1. /\ link' = [link EXCEPT ![i][next[r]] = None]
          /\ at'[r] = "link" /\ UNCHANGED <<inst, script, next>>
      BY <2>1, <2>4 DEF Unlink, Goto
    <3>2. link'[i][next[r]] = None /\ \A k \in Links \ {next[r]} : link'[i][k] = link[i][k]
      BY <2>1, <3>1
    <3>3. Owes(r, i, next[r])' /\ Owes(r, i, AnyScript)'
      BY <2>1, <2>4, <3>1, <3>2 DEF Owes
    <3>4. CASE l \in {next[r], AnyScript}
      <4>1. Owes(r, i, l)'
        BY <3>1, <3>3, <3>4
      <4> QED BY <4>1 DEF Linked
    <3>5. CASE l \notin {next[r], AnyScript}
      <4>1. ~Owes(r, i, l)
        BY <2>1, <3>5 DEF Owes
      <4> QED BY <1>1, <3>2, <3>5, <4>1 DEF Linked
    <3> QED BY <3>4, <3>5
  <2>5. CASE inst[r] = i /\ link' # link /\ Symlink(r)
    <3>1. link' = [link EXCEPT ![i][next[r]] = stem[r]]
      BY <2>1, <2>5 DEF Symlink, End
    <3>2. link'[i][next[r]] # None /\ \A k \in Links \ {next[r]} : link'[i][k] = link[i][k]
      BY <2>1, <3>1
    <3>3. CASE l = next[r]
      BY <3>2, <3>3 DEF Linked
    <3>4. CASE l # next[r] /\ l = AnyScript
      <4>1. at'[r] = "look" /\ next'[r] = AnyScript /\ inst'[r] = i
        BY <2>1, <2>5, <3>4 DEF Symlink, Goto, End
      <4> QED BY <3>4, <4>1 DEF Linked, Owes
    <3>5. CASE l # next[r] /\ l # AnyScript
      <4>1. ~Owes(r, i, l)
        BY <2>1, <3>5 DEF Owes
      <4> QED BY <1>1, <3>2, <3>5, <4>1 DEF Linked
    <3> QED BY <3>3, <3>4, <3>5
  <2> QED BY <1>8, <2>2, <2>3, <2>4, <2>5
<1> QED BY <1>3, <1>4, <1>5, <1>6, <1>7, <1>8 DEF Run

\* A run that has been killed takes no step, and no step gives it away.
LEMMA UndisturbedBefore ==
  ASSUME TypeOK, CourseInv, NEW r \in Runs, Run(r), NEW i \in Names,
         Undisturbed(i)'
  PROVE  Undisturbed(i)
<1>1. at[r] # "over"
  BY DEF Run, Reserve, NotFound, Execute, ScriptFails, ScriptExits, WriteLog,
     ReadResults, LookForLink, Unlink, Symlink, Kill
<1>2. result[r] # "killed"
  BY <1>1 DEF CourseInv
<1>3. ASSUME NEW q \in Runs \ {r}, inst[q] = i PROVE result[q] # "killed"
  BY <1>3, OthersSame DEF Same, Undisturbed
<1> QED BY <1>2, <1>3 DEF Undisturbed

LEMMA LinkStep ==
  ASSUME TypeOK, CourseInv, LinkInv, NEW r \in Runs, Run(r)
  PROVE  LinkInv'
<1> SUFFICES ASSUME NEW i \in Names, Undisturbed(i)', NEW s \in logs'[i]
             PROVE  Linked(i, s[1])' /\ Linked(i, AnyScript)'
  BY DEF LinkInv
<1>1. CASE s \in logs[i]
  <2>1. s[1] \in Links /\ AnyScript \in Links
    BY <1>1 DEF TypeOK, Stems, Links
  <2>2. Linked(i, s[1]) /\ Linked(i, AnyScript)
    BY <1>1, UndisturbedBefore DEF LinkInv
  <2> QED BY <2>1, <2>2, LinkedStep
<1>2. CASE s \notin logs[i]
  <2>1. WriteLog(r)
    BY <1>2 DEF Run, Reserve, NotFound, Execute, ScriptFails, ScriptExits,
       ReadResults, LookForLink, Unlink, Symlink, Kill, store
  <2>2. inst[r] = i /\ s = stem[r]
    BY <1>2, <2>1 DEF WriteLog, TypeOK
  <2>3. s[1] = script[r]
    BY <2>1, <2>2 DEF WriteLog, CourseInv
  <2>4. at'[r] = "read" /\ inst'[r] = i /\ script'[r] = script[r]
    BY <2>1, <2>2 DEF WriteLog, Goto, TypeOK
  <2> QED BY <2>3, <2>4 DEF Linked, Owes
<1> QED BY <1>1, <1>2

\* Whatever the runs do to one another's links, and whoever gives up over
\* them: when all runs of an instance are over and none was killed, every
\* script of it that has a record, and the instance, has a latest link
\* (_point_latest).  No care of the users is assumed.
THEOREM LatestCorrect == Spec => []LatestResolves
<1>1. Init => CourseInv /\ LinkInv
  BY ScriptsAssumption DEF Init, CourseInv, LinkInv, Linking
<1>2. TypeOK /\ CourseInv /\ LinkInv /\ [Next]_vars => CourseInv' /\ LinkInv'
  <2>1. ASSUME Tick \/ UNCHANGED vars, CourseInv, LinkInv
        PROVE  CourseInv' /\ LinkInv'
    <3>1. UNCHANGED <<logs, link, at, inst, script, stem, next, result>>
      BY <2>1 DEF Tick, vars, store
    <3> QED
      BY <2>1, <3>1 DEF CourseInv, LinkInv, Undisturbed, Linked, Owes
  <2> QED BY <2>1, CourseStep, LinkStep DEF Next
<1>3. LinkInv => LatestResolves
  BY DEF LinkInv, LatestResolves, Undisturbed, Linked, Owes
<1> QED BY <1>1, <1>2, <1>3, TypeCorrect, PTL DEF Spec

=============================================================================
