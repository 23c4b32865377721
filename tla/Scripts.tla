------------------------------ MODULE Scripts -------------------------------
(***************************************************************************)
(* Script runs and their records in _dumps/<instance>: a run chooses a     *)
(* name by the second, its script writes rows to the results file of that  *)
(* name, and when it has ended the log is written and two links are        *)
(* pointed at the results: the script's latest and the instance's latest.  *)
(* Comparing two instances reads what the links point at.  Any number of   *)
(* runs may be under way, in as many processes; nothing is locked.         *)
(***************************************************************************)
EXTENDS Naturals

CONSTANTS
  Runs,        \* runs, each from its start to its end
  Names,       \* instances
  ScriptNames, \* script runners
  Structured,  \* those that write rows to $NDJSON_OUT
  Cases,       \* what a row reports on
  Outputs,     \* what a structured script may write
  Spread,      \* users start no run of a script in the second another one did
               \* that has not ended (see StartsApart)
  LastSecond,  \* bound: seconds the clock counts
  LastTry,     \* bound: runs of a script that end in one second
  AnyScript,   \* the link that is not of one script
  None

Statuses == {"OK", "FAIL", "WARN", "NONE"}

\* What a run writes: the status of each case it has a row for, and whether
\* a row that says abort comes last.
Rows == [status : [Cases -> Statuses \cup {None}], abort : BOOLEAN]
NoRows == [status |-> [x \in Cases |-> None], abort |-> FALSE]

Seconds == 0 .. LastSecond
Tries == 1 .. LastTry
Stems == ScriptNames \X Seconds \X Tries  \* <script>-<ts>-<n>, or <script>-<ts>
Links == ScriptNames \cup {AnyScript}

ASSUME ScriptsAssumption ==
  /\ Structured \subseteq ScriptNames
  /\ Outputs \subseteq Rows
  /\ Spread \in BOOLEAN
  /\ LastSecond \in Nat /\ LastTry \in Nat
  /\ AnyScript \notin ScriptNames
  /\ None \notin Runs \cup Names \cup ScriptNames \cup Stems
               \cup Statuses \cup {"killed"}

VARIABLES
  second,  \* the clock, as precise as a record's name
  file,    \* per instance and stem, the run whose rows the results file has
  logs,    \* per instance, the stems with a log
  link,    \* per instance and link, the stem it points at
  at,      \* per run, its next step
  inst,    \* per run, its instance
  script,  \* per run, its script
  stem,    \* per run, the name it has chosen
  next,    \* per run, the link it is pointing
  result,  \* per run, what it reports
  wrote    \* per run, what its script has written

store == <<file, logs, link>>
vars == <<second, store, at, inst, script, stem, next, result, wrote>>

Steps == {"new", "exec", "exit", "log", "read", "look", "unlink", "link", "over"}

\* The rows in a results file; one that owm made is empty.
RowsIn(i, s) == IF file[i][s] = None THEN NoRows ELSE wrote[file[i][s]]

\* run_script, row by row as run_instance_script calls it: rows after an
\* abort do not count.
Verdict(o) ==
  IF o.abort THEN "abort"
  ELSE IF \E x \in Cases : o.status[x] = "FAIL" THEN "fail" ELSE "ok"

Goto(r, step) == at' = [at EXCEPT ![r] = step]

End(r, how) ==
  /\ Goto(r, "over")
  /\ result' = [result EXCEPT ![r] = how]
  /\ UNCHANGED <<inst, script, stem, next>>

-----------------------------------------------------------------------------
(* run_instance_script.                                                    *)

\* Runs of s on i that have chosen a name in this second and are not logged.
Pending(i, s) ==
  {q \in Runs : /\ at[q] \in {"exec", "exit", "log"}
                /\ inst[q] = i /\ script[q] = s /\ stem[q][2] = second}

StartsApart(i, s) == Spread => Pending(i, s) = {}

\* Mutant of Reserve: the second alone makes the name.
ReserveSecond(r, i, s) ==
  /\ at[r] = "new" /\ StartsApart(i, s)
  /\ inst' = [inst EXCEPT ![r] = i]
  /\ script' = [script EXCEPT ![r] = s]
  /\ stem' = [stem EXCEPT ![r] = <<s, second, 1>>]
  /\ Goto(r, "exec")
  /\ UNCHANGED <<second, store, next, result, wrote>>

\* The first name of this second that has no log.
Reserve(r, i, s) ==
  /\ at[r] = "new" /\ StartsApart(i, s)
  /\ \E n \in Tries :
       /\ <<s, second, n>> \notin logs[i]
       /\ \A k \in 1 .. n - 1 : <<s, second, k>> \in logs[i]
       /\ stem' = [stem EXCEPT ![r] = <<s, second, n>>]
  /\ inst' = [inst EXCEPT ![r] = i]
  /\ script' = [script EXCEPT ![r] = s]
  /\ Goto(r, "exec")
  /\ UNCHANGED <<second, store, next, result, wrote>>

\* execute_script finds no runner or no file: nothing is written.
NotFound(r) ==
  /\ at[r] = "exec"
  /\ End(r, "notFound")
  /\ UNCHANGED <<second, store, wrote>>

\* The script at work: one that is structured writes its rows, and takes the
\* place of what the file had.
Execute(r) ==
  /\ at[r] = "exec"
  /\ IF script[r] \in Structured
     THEN /\ \E o \in Outputs : wrote' = [wrote EXCEPT ![r] = o]
          /\ file' = [file EXCEPT ![inst[r]][stem[r]] = r]
     ELSE UNCHANGED <<wrote, file>>
  /\ Goto(r, "exit")
  /\ UNCHANGED <<second, logs, link, inst, script, stem, next, result>>

\* It exits with a status other than zero: no log, and no link is moved.
ScriptFails(r) ==
  /\ at[r] = "exit"
  /\ End(r, "failed")
  /\ UNCHANGED <<second, store, wrote>>

ScriptExits(r) ==
  /\ at[r] = "exit"
  /\ Goto(r, "log")
  /\ UNCHANGED <<second, store, inst, script, stem, next, result, wrote>>

WriteLog(r) ==
  /\ at[r] = "log"
  /\ logs' = [logs EXCEPT ![inst[r]] = @ \cup {stem[r]}]
  /\ Goto(r, "read")
  /\ UNCHANGED <<second, file, link, inst, script, stem, next, result, wrote>>

\* Mutant of ReadResults: a file that is not there is not made.
ReadResultsBare(r) ==
  /\ at[r] = "read"
  /\ result' = [result EXCEPT ![r] = Verdict(RowsIn(inst[r], stem[r]))]
  /\ next' = [next EXCEPT ![r] = script[r]]
  /\ Goto(r, "look")
  /\ UNCHANGED <<second, store, inst, script, stem, wrote>>

\* The results are read back, made empty where there are none, and tallied.
ReadResults(r) ==
  /\ at[r] = "read"
  /\ file' = [file EXCEPT ![inst[r]][stem[r]] = IF @ = None THEN r ELSE @]
  /\ result' = [result EXCEPT ![r] = Verdict(RowsIn(inst[r], stem[r]))]
  /\ next' = [next EXCEPT ![r] = script[r]]
  /\ Goto(r, "look")
  /\ UNCHANGED <<second, logs, link, inst, script, stem, wrote>>

-----------------------------------------------------------------------------
(* _point_latest, for the script's link and then for the instance's.       *)

LookForLink(r) ==
  /\ at[r] = "look"
  /\ Goto(r, IF link[inst[r]][next[r]] = None THEN "link" ELSE "unlink")
  /\ UNCHANGED <<second, store, inst, script, stem, next, result, wrote>>

\* Another run may have unlinked it meanwhile: FileNotFoundError.
Unlink(r) ==
  /\ at[r] = "unlink"
  /\ IF link[inst[r]][next[r]] = None
     THEN End(r, "linkGone") /\ UNCHANGED link
     ELSE /\ link' = [link EXCEPT ![inst[r]][next[r]] = None]
          /\ Goto(r, "link")
          /\ UNCHANGED <<inst, script, stem, next, result>>
  /\ UNCHANGED <<second, file, logs, wrote>>

\* Mutant of Symlink: links are replaced in place, the second one is not.
SymlinkOnce(r) ==
  /\ at[r] = "link"
  /\ link[inst[r]][next[r]] = None
  /\ link' = [link EXCEPT ![inst[r]][next[r]] =
                IF next[r] = AnyScript THEN None ELSE stem[r]]
  /\ IF next[r] = AnyScript
     THEN End(r, result[r])
     ELSE /\ next' = [next EXCEPT ![r] = AnyScript] /\ Goto(r, "look")
          /\ UNCHANGED <<inst, script, stem, result>>
  /\ UNCHANGED <<second, file, logs, wrote>>

\* ... or have made it: FileExistsError.
Symlink(r) ==
  /\ at[r] = "link"
  /\ IF link[inst[r]][next[r]] # None
     THEN End(r, "linkExists") /\ UNCHANGED link
     ELSE /\ link' = [link EXCEPT ![inst[r]][next[r]] = stem[r]]
          /\ IF next[r] = AnyScript
             THEN End(r, result[r])
             ELSE /\ next' = [next EXCEPT ![r] = AnyScript] /\ Goto(r, "look")
                  /\ UNCHANGED <<inst, script, stem, result>>
  /\ UNCHANGED <<second, file, logs, wrote>>

\* The command is interrupted, its script with it.
Kill(r) ==
  /\ at[r] \notin {"new", "over"}
  /\ End(r, "killed")
  /\ UNCHANGED <<second, store, wrote>>

Tick ==
  /\ second < LastSecond
  /\ second' = second + 1
  /\ UNCHANGED <<store, at, inst, script, stem, next, result, wrote>>

-----------------------------------------------------------------------------
(* compare_instance.  It changes nothing; both records are taken as read at *)
(* one moment.                                                             *)

Read(i, l) == IF link[i][l] = None THEN None ELSE RowsIn(i, link[i][l])

\* A row that says abort has no case: reading it raises KeyError.  Cases are
\* those of the instance asked about, and without a record on either side
\* nothing is compared.
Compare(feat, base, l) ==
  LET f == Read(feat, l)
      b == Read(base, l)
  IN  IF f = None \/ b = None THEN "ok"
      ELSE IF f.abort \/ b.abort THEN "KeyError"
      ELSE IF \E x \in Cases : f.status[x] \notin {None, b.status[x]}
           THEN "unexpected_changes" ELSE "ok"

-----------------------------------------------------------------------------
Init ==
  /\ second = 0
  /\ file = [i \in Names |-> [s \in Stems |-> None]]
  /\ logs = [i \in Names |-> {}]
  /\ link = [i \in Names |-> [l \in Links |-> None]]
  /\ at = [r \in Runs |-> "new"]
  /\ inst = [r \in Runs |-> None]
  /\ script = [r \in Runs |-> None]
  /\ stem = [r \in Runs |-> None]
  /\ next = [r \in Runs |-> None]
  /\ result = [r \in Runs |-> None]
  /\ wrote = [r \in Runs |-> NoRows]

Run(r) ==
  \/ \E i \in Names, s \in ScriptNames : Reserve(r, i, s)
  \/ NotFound(r) \/ Execute(r) \/ ScriptFails(r) \/ ScriptExits(r)
  \/ WriteLog(r) \/ ReadResults(r)
  \/ LookForLink(r) \/ Unlink(r) \/ Symlink(r)
  \/ Kill(r)

Next == Tick \/ \E r \in Runs : Run(r)

Spec == Init /\ [][Next]_vars

-----------------------------------------------------------------------------
(* What is checked.                                                        *)

\* A run that reports a verdict.
Reported(r) == at[r] = "over" /\ result[r] \in {"ok", "fail", "abort"}

\* Every variable is of its type, and a run under way has chosen a name.
TypeOK ==
  /\ second \in Seconds
  /\ file \in [Names -> [Stems -> Runs \cup {None}]]
  /\ logs \in [Names -> SUBSET Stems]
  /\ link \in [Names -> [Links -> Stems \cup {None}]]
  /\ at \in [Runs -> Steps]
  /\ inst \in [Runs -> Names \cup {None}]
  /\ script \in [Runs -> ScriptNames \cup {None}]
  /\ stem \in [Runs -> Stems \cup {None}]
  /\ next \in [Runs -> Links \cup {None}]
  /\ result \in [Runs -> {"ok", "fail", "abort", "failed", "notFound",
                          "linkGone", "linkExists", "killed", None}]
  /\ wrote \in [Runs -> Rows]
  /\ \A r \in Runs : at[r] # "new" =>
       inst[r] \in Names /\ script[r] \in ScriptNames /\ stem[r] \in Stems

\* "Each run is written to an immutable, timestamped record" (api.py): once a
\* run has written its log its results file has the rows of that run and no
\* other's, whatever ran, failed or was killed in the same second, and what
\* it reports is the verdict on its own rows.
RecordKept ==
  \A r \in Runs :
    /\ at[r] \in {"look", "unlink", "link"} \/ Reported(r) =>
         file[inst[r]][stem[r]] = r
    /\ Reported(r) => result[r] = Verdict(wrote[r])

\* The records there are: of runs that have a log and results.
Record == [i \in Names |-> [s \in Stems |->
             IF s \in logs[i] THEN file[i][s] ELSE None]]

Published == INSTANCE Records WITH
  record <- Record, latest <- link,
  Followed <- [s \in Stems |-> {s[1], AnyScript}]

\* Readers see records that are never changed and links that lead to one: not
\* to a run that failed, was killed, or is still writing, nor, from a script's
\* link, to a run of another script.
ImplementsRecords == Published!Spec

\* The races over the links heal: when no run of an instance is under way and
\* none was killed, an instance with a run that ended well has a latest link,
\* and a script with one has its own.
LatestResolves ==
  \A i \in Names :
    (\A r \in Runs : inst[r] = i => at[r] = "over" /\ result[r] # "killed") =>
      \A s \in logs[i] : link[i][AnyScript] # None /\ link[i][s[1]] # None

\* The comparison is symmetric: asked about one instance or about the other
\* it gives the same answer (cli.py).
CompareSymmetric ==
  \A i, j \in Names, l \in Links : Compare(i, j, l) = Compare(j, i, l)

=============================================================================
