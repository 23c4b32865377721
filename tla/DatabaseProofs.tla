--------------------------- MODULE DatabaseProofs ---------------------------
(***************************************************************************)
(* What the commands on databases may never do, whatever they looked at    *)
(* before and whichever tool fails: theorems about Database, for every set *)
(* of instances, templates, clients, modules, works and faults.            *)
(***************************************************************************)
EXTENDS Database, TLAPS

-----------------------------------------------------------------------------
(* The invariants.                                                         *)

\* What a client's command has in hand.
JobInv ==
  \A c \in Clients :
    /\ pc[c] # "idle" => inst[c] \in Names
    /\ pc[c] \in {"probe", "copy"} => arg[c] \in Templates
    /\ pc[c] = "write" => arg[c] \in Minutes
    /\ pc[c] \in ResetSteps => Base[inst[c]] # None

Inv == TypeOK /\ JobInv

\* Nobody else does anything to the instance of a calm client, so what its
\* command has found is still so.
Calm(c) ==
  /\ pc[c] # "idle"
  /\ \A y \in Clients \ {c} : pc[y] = "idle"
  /\ up[inst[c]] = IF pc[c] \in {"load", "halt"} THEN "boot" ELSE "no"
  /\ pc[c] = "clone" => db[inst[c]] = None
  /\ pc[c] \in {"boot", "load"} =>
       Declared[inst[c]] \subseteq ModsOf(db[inst[c]]) \cup todo[c]
  /\ pc[c] = "halt" =>
       Declared[inst[c]] \ todo[c] \subseteq ModsOf(db[inst[c]])

CalmInv == \A c \in Clients : calm[c] => Calm(c)

\* Where the work of instance n is when a sync may drop its database at any
\* moment: in a file of n, in a template, or nowhere by a user's word or by owm.
Kept(n) ==
  {w \in Works : \/ w \in given \cup spoiled \cup WorkOf(backup[n])
                 \/ \E i \in Minutes : w \in WorkOf(dumps[n][i])
                 \/ \E t \in Templates : w \in WorkOf(db[t])}

\* What a sync is about to drop is kept elsewhere.
WipeInv ==
  \A c \in Clients :
    pc[c] = "wipe" => WorkOf(db[inst[c]]) \subseteq Kept(inst[c])

-----------------------------------------------------------------------------
(* Databases.                                                              *)

LEMMA Apart ==
  /\ Names \cap Templates = {}
  /\ None \notin Names /\ None \notin Contents /\ None # Blank
  /\ Blank \notin Contents
  /\ \A i \in Minutes : i # None
  /\ \A n \in Names : Base[n] \in Templates \cup {None}
BY DatabaseAssumption

\* What a database holds is of the constants' sets.
LEMMA Held ==
  /\ WorkOf(None) = {} /\ WorkOf(Blank) = {} /\ ModsOf(None) = {}
  /\ ModsOf(Blank) = {}
  /\ Skeleton \in Contents /\ WorkOf(Skeleton) = {} /\ ModsOf(Skeleton) = {}
  /\ \A x : WorkOf(x) \subseteq Works /\ ModsOf(x) \subseteq Modules
BY Apart DEF WorkOf, ModsOf, Contents, Skeleton

LEMMA HeldIn ==
  ASSUME NEW ms \in SUBSET Modules, NEW ws \in SUBSET Works
  PROVE  /\ [mods |-> ms, work |-> ws] \in Contents
         /\ ModsOf([mods |-> ms, work |-> ws]) = ms
         /\ WorkOf([mods |-> ms, work |-> ws]) = ws
BY DEF WorkOf, ModsOf, Contents

-----------------------------------------------------------------------------
(* What a step does to databases: it makes one that is missing, drops one  *)
(* that nobody is connected to, fills an empty one, or adds to one.        *)

Makes(d, t) == CanCreate(d, t) /\ db' = Created(d, t)
Drops(n) == up[n] = "no" /\ db' = [db EXCEPT ![n] = None]
Fills(n) ==
  db[n] = Blank /\ \E x \in Databases \ {None} : db' = [db EXCEPT ![n] = x]
Opens(n) == db' = Opened(n)
Loads(n) ==
  \E ms \in SUBSET Modules :
    db' = [db EXCEPT ![n] = [mods |-> ModsOf(@) \cup ms, work |-> WorkOf(@)]]
Writes(n) ==
  /\ db[n] \in Contents
  /\ \E w \in Works :
       db' = [db EXCEPT ![n] = [mods |-> db[n].mods, work |-> db[n].work \cup {w}]]

DbStep ==
  \/ UNCHANGED db
  \/ \E d \in Names \cup Templates, t \in Names \cup Templates \cup {None} :
       Makes(d, t)
  \/ \E n \in Names :
       Drops(n) \/ Fills(n) \/ Opens(n) \/ Loads(n) \/ Writes(n)

LEMMA ClientDbStep ==
  ASSUME Inv, NEW n \in Names, NEW c \in Clients, Client(c, n)
  PROVE  DbStep
<1> USE DEF At
<1>1. CASE BeginCreate(c, n) \/ LookForDb(c, n) \/ BeginReset(c, n)
           \/ CheckConnections(c, n) \/ BeginInstall(c, n)
           \/ QueryInstalled(c, n) \/ HaltOdoo(c, n)
  BY <1>1 DEF DbStep, BeginCreate, LookForDb, BeginReset, CheckConnections,
     BeginInstall, QueryInstalled, HaltOdoo
<1>2. CASE (\E i \in Minutes : BeginDump(c, n, i))
           \/ WriteDump(c, n) \/ BeginRestore(c, n)
           \/ ProbeSource(c, n) \/ BeginSync(c, n) \/ SaveBackup(c, n)
  BY <1>2 DEF DbStep, BeginDump, WriteDump, BeginRestore, ProbeSource,
     BeginSync, SaveBackup
<1>3. ASSUME NEW t \in Templates, BeginTemplate(c, n, t) PROVE DbStep
  BY <1>3 DEF DbStep, BeginTemplate
<1>4. CASE MakeDb(c, n) \/ CloneDb(c, n) \/ FillDb(c, n)
  <2>1. UNCHANGED db \/ Makes(n, Base[n])
    BY <1>4 DEF MakeDb, CloneDb, FillDb, Makes
  <2> QED
    BY <2>1, Apart DEF DbStep
<1>5. CASE DropDb(c, n) \/ WipeDb(c, n)
  <2>1. UNCHANGED db \/ Drops(n)
    BY <1>5 DEF DropDb, WipeDb, Drops
  <2> QED
    BY <2>1 DEF DbStep
<1>6. CASE BootOdoo(c, n)
  BY <1>6 DEF DbStep, BootOdoo, Opens
<1>7. CASE LoadModules(c, n)
  <2>1. todo[c] \in SUBSET Modules
    BY DEF Inv, TypeOK
  <2>2. ASSUME NEW done, done \in {todo[c]}
                 \cup (IF "odoo" \in Faults THEN SUBSET todo[c] ELSE {})
        PROVE  done \in SUBSET Modules
    BY <2>1, <2>2
  <2>3. UNCHANGED db \/ Loads(n)
    BY <1>7, <2>2 DEF LoadModules, Loads
  <2> QED
    BY <2>3 DEF DbStep
<1>8. ASSUME NEW i \in Minutes, ReadDump(c, n, i) PROVE DbStep
  <2>1. dumps[n][i] \in Databases /\ Skeleton \in Databases \ {None}
    BY Held, Apart DEF Inv, TypeOK, Databases
  <2>2. UNCHANGED db \/ Fills(n)
    BY <1>8, <2>1 DEF ReadDump, Fills
  <2> QED
    BY <2>2 DEF DbStep
<1>9. CASE CopyTemplate(c, n)
  <2>1. arg[c] \in Templates
    BY <1>9 DEF CopyTemplate, Inv, JobInv
  <2>2. UNCHANGED db \/ Makes(arg[c], n)
    BY <1>9 DEF CopyTemplate, Makes
  <2> QED
    BY <2>1, <2>2 DEF DbStep
<1>10. CASE EmptyDb(c, n)
  <2>1. UNCHANGED db \/ Makes(n, None)
    BY <1>10 DEF EmptyDb, Makes
  <2> QED
    BY <2>1 DEF DbStep
<1>11. CASE UndoSync(c, n)
  <2>1. backup[n] \in Databases /\ Skeleton \in Databases \ {None}
    BY Held, Apart DEF Inv, TypeOK, Databases
  <2>2. UNCHANGED db \/ Fills(n)
    BY <1>11, <2>1 DEF UndoSync, Fills
  <2> QED
    BY <2>2 DEF DbStep
<1> QED
  BY <1>1, <1>2, <1>3, <1>4, <1>5, <1>6, <1>7, <1>8, <1>9, <1>10, <1>11
     DEF Client

LEMMA NextDbStep ==
  ASSUME Inv, [Next]_vars
  PROVE  DbStep
<1>1. ASSUME NEW n \in Names, User(n) PROVE DbStep
  <2>1. ASSUME NEW w \in Works, Work(n, w) PROVE Writes(n)
    <3>1. db[n] = [mods |-> db[n].mods, work |-> db[n].work]
      BY <2>1 DEF Work, Contents
    <3>2. [db[n] EXCEPT !.work = @ \cup {w}]
          = [mods |-> db[n].mods, work |-> db[n].work \cup {w}]
      BY <3>1
    <3> QED
      BY <2>1, <3>2 DEF Work, Writes
  <2> QED
    BY <1>1, <2>1 DEF DbStep, User, StartOdoo, StopOdoo, Opens
<1>2. CASE UNCHANGED vars
  BY <1>2 DEF vars, DbStep
<1> QED
  BY <1>1, <1>2, ClientDbStep DEF Next

\* Such a step leaves nothing but databases.
LEMMA DbStepType ==
  ASSUME TypeOK, DbStep
  PROVE  db' \in [Names \cup Templates -> Databases]
<1> USE DEF Databases
<1>1. db \in [Names \cup Templates -> Databases]
  BY DEF TypeOK
<1>2. CASE UNCHANGED db
  BY <1>1, <1>2
<1>3. ASSUME NEW d \in Names \cup Templates,
             NEW t \in Names \cup Templates \cup {None}, Makes(d, t)
      PROVE  db' \in [Names \cup Templates -> Databases]
  <2>1. t # None => db[t] \in Databases
    BY <1>1
  <2> QED
    BY <1>1, <1>3, <2>1 DEF Makes, Created
<1>4. ASSUME NEW n \in Names, Drops(n) \/ Fills(n) \/ Opens(n)
      PROVE  db' \in [Names \cup Templates -> Databases]
  BY <1>1, <1>4, Held DEF Drops, Fills, Opens, Opened
<1>5. ASSUME NEW n \in Names, Loads(n)
      PROVE  db' \in [Names \cup Templates -> Databases]
  <2>1. PICK ms \in SUBSET Modules :
          db' = [db EXCEPT ![n] = [mods |-> ModsOf(@) \cup ms,
                                   work |-> WorkOf(@)]]
    BY <1>5 DEF Loads
  <2>2. [mods |-> ModsOf(db[n]) \cup ms, work |-> WorkOf(db[n])] \in Contents
    BY Held, HeldIn
  <2> QED
    BY <1>1, <2>1, <2>2
<1>6. ASSUME NEW n \in Names, Writes(n)
      PROVE  db' \in [Names \cup Templates -> Databases]
  <2>1. PICK w \in Works :
          db' = [db EXCEPT ![n] = [mods |-> db[n].mods,
                                   work |-> db[n].work \cup {w}]]
    BY <1>6 DEF Writes
  <2>2. [mods |-> db[n].mods, work |-> db[n].work \cup {w}] \in Contents
    BY <1>6 DEF Writes, Contents
  <2> QED
    BY <1>1, <2>1, <2>2
<1> QED
  BY <1>2, <1>3, <1>4, <1>5, <1>6 DEF DbStep

\* Nor does it take anything from a database, unless it drops it.
LEMMA DbStepGrows ==
  ASSUME TypeOK, DbStep, NEW n \in Names \cup Templates, db[n] # None,
         n \notin Names \/ ~Drops(n)
  PROVE  /\ db'[n] # None
         /\ ModsOf(db[n]) \subseteq ModsOf(db'[n])
         /\ WorkOf(db[n]) \subseteq WorkOf(db'[n])
<1> DEFINE Grown == /\ db'[n] # None
                    /\ ModsOf(db[n]) \subseteq ModsOf(db'[n])
                    /\ WorkOf(db[n]) \subseteq WorkOf(db'[n])
<1> SUFFICES Grown
  OBVIOUS
<1>1. db \in [Names \cup Templates -> Databases]
  BY DEF TypeOK
<1>2. CASE db'[n] = db[n]
  BY <1>2
<1>3. ASSUME NEW d \in Names \cup Templates,
             NEW t \in Names \cup Templates \cup {None}, Makes(d, t)
      PROVE  Grown
  <2>1. d # n
    BY <1>3 DEF Makes, CanCreate
  <2> QED
    BY <1>1, <1>2, <1>3, <2>1 DEF Makes, Created
<1>4. ASSUME NEW k \in Names, Drops(k) \/ Opens(k) PROVE Grown
  BY <1>1, <1>2, <1>4 DEF Drops, Opens, Opened
<1>5. ASSUME NEW k \in Names, Fills(k) PROVE Grown
  <2>1. CASE k = n
    <3>1. db[n] = Blank /\ db'[n] # None
      BY <1>1, <1>5, <2>1 DEF Fills
    <3> QED
      BY <3>1, Held
  <2> QED
    BY <1>1, <1>2, <1>5, <2>1 DEF Fills
<1>6. ASSUME NEW k \in Names, Loads(k) PROVE Grown
  <2>1. PICK ms \in SUBSET Modules :
          db' = [db EXCEPT ![k] = [mods |-> ModsOf(@) \cup ms,
                                   work |-> WorkOf(@)]]
    BY <1>6 DEF Loads
  <2>2. CASE k = n
    <3>1. db'[n] = [mods |-> ModsOf(db[n]) \cup ms, work |-> WorkOf(db[n])]
      BY <1>1, <2>1, <2>2
    <3>2. ModsOf(db'[n]) = ModsOf(db[n]) \cup ms /\ WorkOf(db'[n]) = WorkOf(db[n])
          /\ db'[n] \in Contents
      BY <3>1, Held, HeldIn
    <3> QED
      BY <3>2, Apart
  <2> QED
    BY <1>1, <1>2, <2>1, <2>2
<1>7. ASSUME NEW k \in Names, Writes(k) PROVE Grown
  <2>1. PICK w \in Works :
          db' = [db EXCEPT ![k] = [mods |-> db[k].mods,
                                   work |-> db[k].work \cup {w}]]
    BY <1>7 DEF Writes
  <2>2. CASE k = n
    <3>1. db[n] \in Contents
      BY <1>7, <2>2 DEF Writes
    <3>2. db'[n] = [mods |-> db[n].mods, work |-> db[n].work \cup {w}]
      BY <1>1, <2>1, <2>2
    <3>3. /\ db'[n] \in Contents /\ db'[n].mods = db[n].mods
          /\ db'[n].work = db[n].work \cup {w}
      BY <3>1, <3>2 DEF Contents
    <3> QED
      BY <3>1, <3>3, Apart DEF ModsOf, WorkOf
  <2> QED
    BY <1>1, <1>2, <2>1, <2>2
<1> QED
  BY <1>2, <1>3, <1>4, <1>5, <1>6, <1>7 DEF DbStep

-----------------------------------------------------------------------------
(* What a step does to commands: each begins, goes on or returns alone.    *)

Ends == {"ok", "bare", "refused", "failed", "restored"}
JobsOK ==
  /\ pc \in [Clients -> Steps]
  /\ inst \in [Clients -> Names \cup {None}]
  /\ arg \in [Clients -> Templates \cup Minutes \cup {None}]
  /\ todo \in [Clients -> SUBSET Modules]
  /\ out \in Ends \cup {None}
  /\ calm \in [Clients -> BOOLEAN]

GoesOn(c) ==
  \/ \E step \in Steps \ {"idle"} : Goto(c, step)
  \/ /\ \E step \in {"boot", "halt"} : pc' = [pc EXCEPT ![c] = step]
     /\ \E rest \in SUBSET Modules : todo' = [todo EXCEPT ![c] = rest]
     /\ out' = None
     /\ UNCHANGED <<inst, arg, calm>>

JobMove(c, n) ==
  \/ \E step \in Steps \ {"idle"}, a \in Templates \cup Minutes \cup {None} :
       Begin(c, n, step, a)
  \/ /\ pc[c] # "idle" /\ inst[c] = n
     /\ GoesOn(c) \/ \E how \in Ends : Return(c, how)

LEMMA ClientMoves ==
  ASSUME TypeOK, NEW n \in Names, NEW c \in Clients, Client(c, n)
  PROVE  JobMove(c, n)
<1> USE DEF At, Steps, ResetSteps, InstallSteps, SyncSteps, Ends
<1>1. CASE BeginCreate(c, n) \/ BeginReset(c, n) \/ BeginInstall(c, n)
           \/ (\E i \in Minutes : BeginDump(c, n, i))
           \/ BeginRestore(c, n) \/ BeginSync(c, n)
  BY <1>1 DEF JobMove, BeginCreate, BeginReset, BeginInstall, BeginDump,
     BeginRestore, BeginSync
<1>2. ASSUME NEW t \in Templates, BeginTemplate(c, n, t) PROVE JobMove(c, n)
  BY <1>2 DEF JobMove, BeginTemplate
<1>3. CASE LookForDb(c, n) \/ MakeDb(c, n) \/ CheckConnections(c, n)
           \/ DropDb(c, n) \/ CloneDb(c, n) \/ ProbeSource(c, n)
  BY <1>3 DEF JobMove, GoesOn, LookForDb, MakeDb, CheckConnections, DropDb,
     CloneDb, ProbeSource
<1>4. CASE QueryInstalled(c, n)
  <2>1. PICK already \in {ModsOf(db[n])}
                         \cup (IF "psql" \in Faults THEN {{}} ELSE {}) :
          LET rest == Declared[n] \ already
          IN  \/ Declared[n] # {} /\ IsRunning(n) /\ Return(c, "refused")
              \/ /\ Declared[n] = {} \/ ~IsRunning(n)
                 /\ rest = {}
                 /\ Return(c, "ok")
              \/ /\ Declared[n] # {} /\ ~IsRunning(n)
                 /\ rest # {}
                 /\ pc' = [pc EXCEPT ![c] = "boot"]
                 /\ todo' = [todo EXCEPT ![c] = rest]
                 /\ out' = None
                 /\ UNCHANGED <<inst, arg, calm>>
    BY <1>4 DEF QueryInstalled
  <2>2. Declared[n] \ already \in SUBSET Modules
    BY DatabaseAssumption
  <2> QED
    BY <1>4, <2>1, <2>2 DEF QueryInstalled, JobMove, GoesOn
<1>5. CASE BootOdoo(c, n) \/ HaltOdoo(c, n) \/ WriteDump(c, n)
           \/ CopyTemplate(c, n)
  BY <1>5 DEF JobMove, GoesOn, BootOdoo, HaltOdoo, WriteDump, CopyTemplate
<1>8. CASE LoadModules(c, n)
  <2>1. ASSUME NEW done PROVE todo[c] \ done \in SUBSET Modules
    BY DEF TypeOK
  <2>2. \/ Return(c, "refused") \/ Return(c, "failed")
        \/ /\ pc' = [pc EXCEPT ![c] = "halt"]
           /\ \E done : todo' = [todo EXCEPT ![c] = todo[c] \ done]
           /\ out' = None
           /\ UNCHANGED <<inst, arg, calm>>
    BY <1>8 DEF LoadModules
  <2>3. GoesOn(c) \/ \E how \in Ends : Return(c, how)
    BY <2>1, <2>2 DEF GoesOn
  <2> QED
    BY <1>8, <2>3 DEF JobMove, LoadModules
<1>6. ASSUME NEW i \in Minutes, ReadDump(c, n, i) PROVE JobMove(c, n)
  BY <1>6 DEF JobMove, ReadDump
<1>7. CASE SaveBackup(c, n) \/ WipeDb(c, n) \/ FillDb(c, n) \/ EmptyDb(c, n)
           \/ UndoSync(c, n)
  BY <1>7 DEF JobMove, GoesOn, SaveBackup, WipeDb, FillDb, EmptyDb, UndoSync
<1> QED
  BY <1>1, <1>2, <1>3, <1>4, <1>5, <1>6, <1>7, <1>8 DEF Client

LEMMA JobsType ==
  ASSUME JobsOK, NEW n \in Names, NEW c \in Clients, JobMove(c, n)
  PROVE  JobsOK'
<1> USE DEF JobsOK, Ends
<1>1. ASSUME NEW step \in Steps, NEW a \in Templates \cup Minutes \cup {None},
             Begin(c, n, step, a)
      PROVE  JobsOK'
  <2>1. calm' \in [Clients -> BOOLEAN]
    BY <1>1, Zenon DEF Begin
  <2> QED
    BY <1>1, <2>1 DEF Begin
<1>2. ASSUME NEW step \in Steps, Goto(c, step) PROVE JobsOK'
  BY <1>2 DEF Goto
<1>3. ASSUME NEW how \in Ends, Return(c, how) PROVE JobsOK'
  <2>1. "idle" \in Steps
    BY DEF Steps
  <2> QED
    BY <1>3, <2>1 DEF Return
<1>4. CASE GoesOn(c)
  <2>1. "boot" \in Steps /\ "halt" \in Steps
    BY DEF Steps, InstallSteps
  <2> QED
    BY <1>2, <1>4, <2>1 DEF GoesOn
<1> QED
  BY <1>1, <1>3, <1>4 DEF JobMove

\* Another client's command is where it was, and calm only if it was; nobody
\* is calm when a command begins beside his.
LEMMA Others ==
  ASSUME JobsOK, NEW n \in Names, NEW c \in Clients, JobMove(c, n),
         NEW y \in Clients \ {c}
  PROVE  /\ pc'[y] = pc[y] /\ inst'[y] = inst[y] /\ arg'[y] = arg[y]
         /\ todo'[y] = todo[y]
         /\ calm'[y] => calm[y] /\ pc[c] # "idle"
<1> USE DEF JobsOK
<1>1. ASSUME NEW step, NEW a, Begin(c, n, step, a)
      PROVE  /\ pc'[y] = pc[y] /\ inst'[y] = inst[y] /\ arg'[y] = arg[y]
             /\ todo'[y] = todo[y] /\ ~calm'[y]
  BY <1>1 DEF Begin
<1>2. CASE GoesOn(c) /\ pc[c] # "idle"
  BY <1>2 DEF GoesOn, Goto
<1>3. ASSUME NEW how, Return(c, how), pc[c] # "idle"
      PROVE  /\ pc'[y] = pc[y] /\ inst'[y] = inst[y] /\ arg'[y] = arg[y]
             /\ todo'[y] = todo[y]
             /\ calm'[y] => calm[y] /\ pc[c] # "idle"
  BY <1>3 DEF Return
<1> QED
  BY <1>1, <1>2, <1>3 DEF JobMove

\* A command keeps its instance, and what it has in hand, until it returns.
LEMMA Own ==
  ASSUME JobsOK, NEW n \in Names, NEW c \in Clients, JobMove(c, n),
         pc[c] # "idle", pc'[c] # "idle"
  PROVE  /\ inst[c] = n /\ inst'[c] = n /\ arg'[c] = arg[c]
         /\ calm'[c] = calm[c]
<1> USE DEF JobsOK
<1>1. CASE GoesOn(c)
  BY <1>1 DEF GoesOn, Goto, JobMove, Begin, Return
<1>2. ASSUME NEW how, Return(c, how) PROVE FALSE
  BY <1>2 DEF Return
<1> QED
  BY <1>1, <1>2 DEF JobMove, Begin

-----------------------------------------------------------------------------
(* Types, and what a command has in hand.                                  *)

FilesOK ==
  /\ up \in [Names -> {"no", "boot", "owm", "lost"}]
  /\ dumps \in [Names -> [Minutes -> Databases]]
  /\ backup \in [Names -> Databases]
  /\ made \subseteq Works /\ given \subseteq Works /\ spoiled \subseteq Works

LEMMA ClientFiles ==
  ASSUME Inv, NEW n \in Names, NEW c \in Clients, Client(c, n)
  PROVE  FilesOK'
<1> USE DEF FilesOK, At, work
<1>0. \A old, new : Overwritten(n, old, new) \subseteq Works
  BY Held DEF Overwritten
<1>1. FilesOK /\ None \in Databases /\ db[n] \in Databases
  BY DEF Inv, TypeOK, Databases
<1>2. CASE UNCHANGED <<up, dumps, backup, work>>
  BY <1>1, <1>2
<1>3. CASE DropDb(c, n) \/ FillDb(c, n)
  <2>1. WorkOf(db[n]) \subseteq Works /\ WorkOf(backup[n]) \subseteq Works
    BY Held
  <2> QED
    BY <1>1, <1>3, <2>1 DEF DropDb, FillDb
<1>4. CASE BootOdoo(c, n) \/ HaltOdoo(c, n)
  BY <1>1, <1>4 DEF BootOdoo, HaltOdoo
<1>5. CASE WriteDump(c, n)
  <2>1. arg[c] \in Minutes
    BY <1>5 DEF WriteDump, Inv, JobInv
  <2>2. spoiled' \subseteq Works
    BY <1>0, <1>1, <1>5 DEF WriteDump
  <2>3. dumps' \in [Names -> [Minutes -> Databases]]
    <3>1. PICK x \in Databases : dumps' = [dumps EXCEPT ![n][arg[c]] = x]
      BY <1>1, <1>5 DEF WriteDump
    <3> QED
      BY <1>1, <2>1, <3>1
  <2>4. UNCHANGED <<up, backup, made, given>>
    BY <1>5 DEF WriteDump
  <2> QED
    BY <1>1, <2>2, <2>3, <2>4
<1>6. CASE SaveBackup(c, n)
  <2>1. spoiled' \subseteq Works
    BY <1>0, <1>1, <1>6 DEF SaveBackup
  <2> QED
    BY <1>1, <1>6, <2>1 DEF SaveBackup
<1>7. CASE BeginCreate(c, n) \/ LookForDb(c, n) \/ BeginReset(c, n)
           \/ CheckConnections(c, n) \/ BeginInstall(c, n)
           \/ QueryInstalled(c, n) \/ MakeDb(c, n) \/ CloneDb(c, n)
           \/ LoadModules(c, n)
  BY <1>2, <1>7 DEF BeginCreate, LookForDb, BeginReset, CheckConnections,
     BeginInstall, QueryInstalled, MakeDb, CloneDb, LoadModules
<1>8. CASE (\E i \in Minutes : BeginDump(c, n, i))
           \/ BeginRestore(c, n) \/ ProbeSource(c, n)
           \/ CopyTemplate(c, n) \/ BeginSync(c, n) \/ WipeDb(c, n)
           \/ EmptyDb(c, n) \/ UndoSync(c, n)
  BY <1>2, <1>8 DEF BeginDump, BeginRestore, ProbeSource, CopyTemplate,
     BeginSync, WipeDb, EmptyDb, UndoSync
<1>9. ASSUME NEW i \in Minutes, ReadDump(c, n, i) PROVE FilesOK'
  BY <1>2, <1>9 DEF ReadDump
<1>10. ASSUME NEW t \in Templates, BeginTemplate(c, n, t) PROVE FilesOK'
  BY <1>2, <1>10 DEF BeginTemplate
<1> QED
  BY <1>3, <1>4, <1>5, <1>6, <1>7, <1>8, <1>9, <1>10 DEF Client

LEMMA TypeStep ==
  ASSUME Inv, [Next]_vars
  PROVE  TypeOK'
<1> USE DEF FilesOK, JobsOK, Ends, work
<1>1. JobsOK /\ FilesOK
  BY DEF Inv, TypeOK
<1>2. db' \in [Names \cup Templates -> Databases]
  BY NextDbStep, DbStepType DEF Inv
<1>3. SUFFICES JobsOK' /\ FilesOK'
  BY <1>2 DEF TypeOK
<1>4. ASSUME NEW n \in Names, NEW c \in Clients, Client(c, n)
      PROVE  JobsOK' /\ FilesOK'
  BY <1>1, <1>4, ClientFiles, ClientMoves, JobsType DEF Inv
<1>5. ASSUME NEW n \in Names, User(n) PROVE JobsOK' /\ FilesOK'
  <2>1. ASSUME Disturb(n) PROVE JobsOK'
    <3>1. calm' \in [Clients -> BOOLEAN]
      BY <2>1, Zenon DEF Disturb
    <3> QED
      BY <1>1, <2>1, <3>1 DEF Disturb
  <2>2. CASE StopOdoo(n) \/ \E how \in {"owm", "lost"} : StartOdoo(n, how)
    BY <1>1, <2>1, <2>2 DEF StopOdoo, StartOdoo
  <2>3. ASSUME NEW w \in Works, Work(n, w) PROVE JobsOK' /\ FilesOK'
    BY <1>1, <2>3 DEF Work
  <2> QED
    BY <1>5, <2>2, <2>3 DEF User
<1>6. CASE UNCHANGED vars
  BY <1>1, <1>6 DEF vars, jobs, work
<1> QED
  BY <1>4, <1>5, <1>6 DEF Next

\* What a command of c has in hand after a step of its own.
LEMMA OwnJob ==
  ASSUME Inv, NEW n \in Names, NEW c \in Clients, Client(c, n), pc'[c] # "idle"
  PROVE  /\ inst'[c] = n
         /\ pc'[c] \in {"probe", "copy"} => arg'[c] \in Templates
         /\ pc'[c] = "write" => arg'[c] \in Minutes
         /\ pc'[c] \in ResetSteps => Base[n] # None
<1> USE DEF At, ResetSteps
<1>0. JobsOK /\ JobMove(c, n)
  BY ClientMoves DEF Inv, TypeOK, JobsOK, Ends
<1>1. CASE BeginCreate(c, n) \/ BeginReset(c, n) \/ BeginInstall(c, n)
           \/ (\E i \in Minutes : BeginDump(c, n, i))
           \/ BeginRestore(c, n) \/ BeginSync(c, n)
  BY <1>0, <1>1 DEF JobsOK, Begin, BeginCreate, BeginReset, BeginInstall,
     BeginDump, BeginRestore, BeginSync
<1>2. ASSUME NEW t \in Templates, BeginTemplate(c, n, t)
      PROVE  inst'[c] = n /\ pc'[c] = "probe" /\ arg'[c] \in Templates
  BY <1>0, <1>2 DEF BeginTemplate, Begin, JobsOK
<1>3. ASSUME pc[c] # "idle"
      PROVE  inst[c] = n /\ inst'[c] = n /\ arg'[c] = arg[c]
  BY <1>0, <1>3, Own
<1>4. CASE LookForDb(c, n) \/ MakeDb(c, n) \/ CloneDb(c, n)
           \/ QueryInstalled(c, n) \/ BootOdoo(c, n) \/ LoadModules(c, n)
           \/ HaltOdoo(c, n)
  <2>1. pc[c] # "idle" /\ pc'[c] \in {"query", "make", "boot", "load", "halt"}
    BY <1>0, <1>4 DEF JobsOK, LookForDb, MakeDb, CloneDb, QueryInstalled,
       BootOdoo, LoadModules, HaltOdoo, Goto, Return
  <2> QED
    BY <1>3, <2>1
<1>5. CASE CheckConnections(c, n) \/ DropDb(c, n) \/ ProbeSource(c, n)
  <2>1. /\ pc[c] \in {"check", "drop", "probe"}
        /\ pc'[c] \in {"drop", "clone", "copy"}
        /\ pc'[c] = "copy" => pc[c] = "probe"
        /\ pc'[c] # "copy" => pc[c] \in {"check", "drop"}
    BY <1>0, <1>5 DEF JobsOK, CheckConnections, DropDb, ProbeSource, Goto, Return
  <2> QED
    BY <1>3, <2>1 DEF Inv, JobInv
<1>6. CASE WriteDump(c, n) \/ CopyTemplate(c, n)
           \/ \E i \in Minutes : ReadDump(c, n, i)
  BY <1>0, <1>6 DEF JobsOK, WriteDump, CopyTemplate, ReadDump, Return
<1>7. CASE SaveBackup(c, n) \/ WipeDb(c, n) \/ FillDb(c, n) \/ EmptyDb(c, n)
           \/ UndoSync(c, n)
  <2>1. pc[c] # "idle" /\ pc'[c] \in {"wipe", "fill", "empty", "undo"}
    BY <1>0, <1>7 DEF JobsOK, SaveBackup, WipeDb, FillDb, EmptyDb, UndoSync,
       Goto, Return
  <2> QED
    BY <1>3, <2>1
<1> QED
  BY <1>1, <1>2, <1>4, <1>5, <1>6, <1>7 DEF Client

LEMMA JobStep ==
  ASSUME Inv, [Next]_vars
  PROVE  JobInv'
<1>0. SUFFICES ASSUME NEW c \in Clients
               PROVE  /\ pc'[c] # "idle" => inst'[c] \in Names
                      /\ pc'[c] \in {"probe", "copy"} => arg'[c] \in Templates
                      /\ pc'[c] = "write" => arg'[c] \in Minutes
                      /\ pc'[c] \in ResetSteps => Base[inst'[c]] # None
  BY DEF JobInv
<1>1. ASSUME pc'[c] = pc[c], inst'[c] = inst[c], arg'[c] = arg[c]
      PROVE  /\ pc'[c] # "idle" => inst'[c] \in Names
             /\ pc'[c] \in {"probe", "copy"} => arg'[c] \in Templates
             /\ pc'[c] = "write" => arg'[c] \in Minutes
             /\ pc'[c] \in ResetSteps => Base[inst'[c]] # None
  BY <1>1 DEF Inv, JobInv
<1>2. ASSUME NEW n \in Names, Client(c, n)
      PROVE  /\ pc'[c] # "idle" => inst'[c] \in Names
             /\ pc'[c] \in {"probe", "copy"} => arg'[c] \in Templates
             /\ pc'[c] = "write" => arg'[c] \in Minutes
             /\ pc'[c] \in ResetSteps => Base[inst'[c]] # None
  BY <1>2, OwnJob DEF ResetSteps
<1>3. ASSUME NEW n \in Names, NEW y \in Clients \ {c}, Client(y, n)
      PROVE  pc'[c] = pc[c] /\ inst'[c] = inst[c] /\ arg'[c] = arg[c]
  <2>1. JobsOK /\ JobMove(y, n)
    BY <1>3, ClientMoves DEF Inv, TypeOK, JobsOK, Ends
  <2> QED
    BY <1>3, <2>1, Others
<1>4. ASSUME NEW n \in Names, User(n)
      PROVE  UNCHANGED <<pc, inst, arg>>
  BY <1>4 DEF User, StartOdoo, StopOdoo, Work, Disturb
<1>5. CASE UNCHANGED vars
  BY <1>1, <1>5 DEF vars, jobs, work
<1> QED
  BY <1>1, <1>2, <1>3, <1>4, <1>5 DEF Next

LEMMA InvInit ==
  ASSUME Init
  PROVE  Inv
<1>1. TypeOK
  <2>1. dumps \in [Names -> [Minutes -> Databases]]
    BY DEF Init, Databases
  <2> QED
    BY <2>1, Held DEF Init, TypeOK, Databases, Steps
<1>2. JobInv
  BY DEF Init, JobInv, ResetSteps
<1> QED
  BY <1>1, <1>2 DEF Inv

LEMMA InvCorrect == Spec => []Inv
<1>1. Inv /\ [Next]_vars => Inv'
  BY TypeStep, JobStep DEF Inv
<1> QED
  BY InvInit, <1>1, PTL DEF Spec

\* Every variable keeps its type, whatever fails and whoever works at once.
THEOREM TypeCorrect == Spec => []TypeOK
<1>1. Inv => TypeOK
  BY DEF Inv
<1> QED
  BY InvCorrect, <1>1, PTL

\* The database of an Odoo that is up is not dropped and loses nothing to a
\* clone or a restore, whatever a command had looked at before: Postgres
\* refuses, as owm never forces it.
THEOREM UnderOdooCorrect == Spec => NotUnderOdoo
<1>1. ASSUME Inv, [Next]_vars
      PROVE  \A n \in Names :
               up[n] # "no" /\ db[n] # None =>
                 /\ db'[n] # None
                 /\ ModsOf(db[n]) \subseteq ModsOf(db'[n])
                 /\ WorkOf(db[n]) \subseteq WorkOf(db'[n])
  <2>1. SUFFICES ASSUME NEW n \in Names, up[n] # "no", db[n] # None
                 PROVE  /\ db'[n] # None
                        /\ ModsOf(db[n]) \subseteq ModsOf(db'[n])
                        /\ WorkOf(db[n]) \subseteq WorkOf(db'[n])
    OBVIOUS
  <2>2. ~Drops(n)
    BY <2>1 DEF Drops
  <2> QED
    BY <1>1, <2>1, <2>2, NextDbStep, DbStepGrows DEF Inv
<1>2. Inv /\ [Next]_vars =>
        [\A n \in Names :
               up[n] # "no" /\ db[n] # None =>
                 /\ db'[n] # None
                 /\ ModsOf(db[n]) \subseteq ModsOf(db'[n])
                 /\ WorkOf(db[n]) \subseteq WorkOf(db'[n])]_vars
  BY <1>1
<1> QED
  BY InvCorrect, <1>2, PTL DEF Spec, NotUnderOdoo

-----------------------------------------------------------------------------
(* Calm clients: what a command found is still so, and so it succeeds.     *)

\* A client is calm after a step of its own only if its command began with
\* that step, or it was calm before.
LEMMA CalmBefore ==
  ASSUME Inv, CalmInv, NEW n \in Names, NEW c \in Clients, Client(c, n),
         pc[c] # "idle", calm'[c]
  PROVE  Calm(c) /\ inst[c] = n /\ pc'[c] # "idle" /\ inst'[c] = n
<1> USE DEF JobsOK
<1>1. JobsOK /\ JobMove(c, n)
  BY ClientMoves DEF Inv, TypeOK, JobsOK, Ends
<1>2. ASSUME NEW how \in Ends, Return(c, how) PROVE FALSE
  BY <1>1, <1>2 DEF Return
<1>3. CASE GoesOn(c)
  BY <1>1, <1>3 DEF GoesOn, Goto, JobMove, Begin, CalmInv, Steps
<1> QED
  BY <1>1, <1>2, <1>3 DEF JobMove, Begin

LEMMA CalmBegin ==
  ASSUME Inv, NEW n \in Names, NEW c \in Clients, NEW step \in Steps,
         NEW a, Begin(c, n, step, a), UNCHANGED <<db, up>>, calm'[c],
         step \notin {"idle", "clone", "boot", "load", "halt"}
  PROVE  Calm(c)'
<1>1. JobsOK
  BY DEF Inv, TypeOK, JobsOK, Ends
<1>2. /\ pc'[c] = step /\ inst'[c] = n /\ up[n] = "no"
      /\ \A y \in Clients \ {c} : pc[y] = "idle" /\ pc'[y] = pc[y]
  BY <1>1 DEF Begin, JobsOK
<1> QED
  BY <1>2 DEF Calm

LEMMA CalmOwn ==
  ASSUME Inv, CalmInv, NEW n \in Names, NEW c \in Clients, Client(c, n), calm'[c]
  PROVE  Calm(c)'
<1> USE DEF At
<1>1. JobsOK /\ JobMove(c, n) /\ TypeOK
  BY ClientMoves DEF Inv, TypeOK, JobsOK, Ends
<1>2. CASE BeginCreate(c, n) \/ BeginReset(c, n) \/ BeginInstall(c, n)
           \/ (\E i \in Minutes : BeginDump(c, n, i))
           \/ BeginRestore(c, n) \/ BeginSync(c, n)
           \/ \E t \in Templates : BeginTemplate(c, n, t)
  <2>1. /\ UNCHANGED <<db, up>>
        /\ \E a : \E step \in Steps :
             /\ Begin(c, n, step, a)
             /\ step \notin {"idle", "clone", "boot", "load", "halt"}
    BY <1>2 DEF BeginCreate, BeginReset, BeginInstall, BeginDump, BeginRestore,
       BeginSync, BeginTemplate, Steps, ResetSteps, InstallSteps, SyncSteps
  <2> QED
    BY <2>1, CalmBegin
<1>3. ASSUME pc[c] # "idle"
      PROVE  /\ Calm(c) /\ inst[c] = n /\ pc'[c] # "idle" /\ inst'[c] = n
             /\ \A y \in Clients \ {c} : pc'[y] = "idle"
  BY <1>1, <1>3, CalmBefore, Others DEF Calm
<1>4. ASSUME pc[c] # "idle", up'[n] = up[n],
             pc[c] \notin {"load", "halt"},
             pc'[c] \notin {"clone", "boot", "load", "halt"}
      PROVE  Calm(c)'
  BY <1>3, <1>4 DEF Calm
<1>5. CASE LookForDb(c, n) \/ MakeDb(c, n) \/ CloneDb(c, n)
           \/ CheckConnections(c, n) \/ ProbeSource(c, n)
  <2>1. /\ pc[c] \notin {"idle", "load", "halt"} /\ up' = up
        /\ pc'[c] \in {"idle", "query", "make", "drop", "copy"}
    BY <1>1, <1>5 DEF JobsOK, LookForDb, MakeDb, CloneDb, CheckConnections,
       ProbeSource, Goto, Return
  <2> QED
    BY <1>4, <2>1
<1>6. CASE DropDb(c, n)
  <2>1. pc[c] = "drop" /\ up' = up
    BY <1>6 DEF DropDb
  <2>2. pc'[c] # "idle"
    BY <1>3, <2>1
  <2>3. db' = [db EXCEPT ![n] = None] /\ pc'[c] = "clone"
    BY <1>1, <1>6, <2>2 DEF JobsOK, DropDb, Goto, Return
  <2>4. db'[n] = None
    BY <1>1, <2>3 DEF TypeOK
  <2> QED
    BY <1>3, <2>1, <2>3, <2>4 DEF Calm
<1>7. CASE QueryInstalled(c, n)
  <2>1. pc[c] = "query" /\ up' = up /\ db' = db
    BY <1>7 DEF QueryInstalled
  <2>2. pc'[c] # "idle"
    BY <1>3, <2>1
  <2>3. ASSUME NEW how, Return(c, how) PROVE FALSE
    BY <1>1, <2>2, <2>3 DEF Return, JobsOK
  <2>4. PICK already \in {ModsOf(db[n])}
                         \cup (IF "psql" \in Faults THEN {{}} ELSE {}) :
          /\ pc' = [pc EXCEPT ![c] = "boot"]
          /\ todo' = [todo EXCEPT ![c] = Declared[n] \ already]
    BY <1>7, <2>3 DEF QueryInstalled
  <2>5. pc'[c] = "boot" /\ todo'[c] = Declared[n] \ already
    BY <1>1, <2>4 DEF JobsOK
  <2>6. Declared[n] \subseteq ModsOf(db[n]) \cup todo'[c]
    BY <2>4, <2>5
  <2>7. Declared[n] \subseteq ModsOf(db'[n]) \cup todo'[c]
    BY <2>1, <2>6
  <2> QED
    BY <1>3, <2>1, <2>5, <2>7 DEF Calm
<1>8. CASE BootOdoo(c, n)
  <2>1. pc[c] = "boot"
    BY <1>8 DEF BootOdoo
  <2>2. /\ up[n] = "no" /\ db[n] \in Databases
        /\ Declared[n] \subseteq ModsOf(db[n]) \cup todo[c]
    BY <1>1, <1>3, <2>1 DEF Calm, TypeOK
  <2>3. /\ up' = [up EXCEPT ![n] = "boot"] /\ db' = Opened(n)
        /\ pc' = [pc EXCEPT ![c] = "load"] /\ todo' = todo
    BY <1>8, <2>2 DEF BootOdoo, IsRunning, Goto
  <2>4. up'[n] = "boot" /\ pc'[c] = "load" /\ todo'[c] = todo[c]
    BY <1>1, <2>3 DEF JobsOK, TypeOK
  <2>5. ModsOf(db'[n]) = ModsOf(db[n])
    BY <1>1, <2>3, Held DEF Opened, TypeOK
  <2>6. Declared[n] \subseteq ModsOf(db'[n]) \cup todo'[c]
    BY <2>2, <2>4, <2>5
  <2>7. /\ inst'[c] = n
        /\ \A y \in Clients \ {c} : pc'[y] = "idle"
    BY <1>3, <2>1
  <2> QED
    BY <2>4, <2>6, <2>7 DEF Calm
<1>9. CASE LoadModules(c, n)
  <2>1. pc[c] = "load" /\ up' = up
    BY <1>9 DEF LoadModules
  <2>2. /\ up[n] = "boot" /\ pc'[c] # "idle"
        /\ Declared[n] \subseteq ModsOf(db[n]) \cup todo[c]
    BY <1>1, <1>3, <2>1 DEF Calm, TypeOK
  <2>3. ASSUME NEW how, Return(c, how) PROVE FALSE
    BY <1>1, <2>2, <2>3 DEF Return, JobsOK
  <2>4. PICK done \in {todo[c]}
                      \cup (IF "odoo" \in Faults THEN SUBSET todo[c] ELSE {}) :
          /\ db' = [db EXCEPT ![n] = [mods |-> ModsOf(@) \cup done,
                                      work |-> WorkOf(@)]]
          /\ todo' = [todo EXCEPT ![c] = @ \ done]
          /\ pc' = [pc EXCEPT ![c] = "halt"]
    BY <1>9, <2>3 DEF LoadModules
  <2>5. /\ db'[n] = [mods |-> ModsOf(db[n]) \cup done, work |-> WorkOf(db[n])]
        /\ todo'[c] = todo[c] \ done /\ pc'[c] = "halt"
    BY <1>1, <2>4 DEF TypeOK, JobsOK
  <2>6. done \subseteq todo[c]
    BY <2>4
  <2>7. ModsOf(db[n]) \cup done \in SUBSET Modules
        /\ WorkOf(db[n]) \in SUBSET Works
    BY <1>1, <2>6, Held DEF JobsOK
  <2>8. ModsOf(db'[n]) = ModsOf(db[n]) \cup done
    BY <2>5, <2>7, HeldIn
  <2>9. Declared[n] \ todo'[c] \subseteq ModsOf(db'[n])
    BY <2>2, <2>5, <2>8
  <2> QED
    BY <1>3, <2>1, <2>2, <2>5, <2>9 DEF Calm
<1>10. CASE HaltOdoo(c, n) \/ WriteDump(c, n) \/ CopyTemplate(c, n)
            \/ \E i \in Minutes : ReadDump(c, n, i)
  <2>1. pc[c] # "idle" /\ pc'[c] = "idle"
    BY <1>1, <1>10 DEF JobsOK, HaltOdoo, WriteDump, CopyTemplate, ReadDump, Return
  <2> QED
    BY <1>3, <2>1
<1>11. CASE SaveBackup(c, n) \/ WipeDb(c, n) \/ FillDb(c, n) \/ EmptyDb(c, n)
            \/ UndoSync(c, n)
  <2>1. /\ pc[c] \notin {"idle", "load", "halt"} /\ up' = up
        /\ pc'[c] \in {"idle", "wipe", "fill", "empty", "undo"}
    BY <1>1, <1>11 DEF JobsOK, SaveBackup, WipeDb, FillDb, EmptyDb, UndoSync,
       Goto, Return
  <2> QED
    BY <1>4, <2>1
<1> QED
  BY <1>2, <1>5, <1>6, <1>7, <1>8, <1>9, <1>10, <1>11 DEF Client

LEMMA CalmStep ==
  ASSUME Inv, CalmInv, [Next]_vars
  PROVE  CalmInv'
<1>1. SUFFICES ASSUME NEW c \in Clients, calm'[c]
               PROVE  Calm(c)'
  BY DEF CalmInv
<1>2. JobsOK /\ TypeOK
  BY DEF Inv, TypeOK, JobsOK, Ends
<1>3. ASSUME NEW n \in Names, Client(c, n) PROVE Calm(c)'
  BY <1>1, <1>3, CalmOwn
<1>4. ASSUME NEW n \in Names, NEW y \in Clients \ {c}, Client(y, n)
      PROVE  FALSE
  <2>1. calm[c] /\ pc[y] # "idle"
    BY <1>1, <1>2, <1>4, ClientMoves, Others
  <2> QED
    BY <2>1 DEF CalmInv, Calm
<1>5. ASSUME calm[c], UNCHANGED <<pc, inst, todo>>, up'[inst[c]] = up[inst[c]],
             db'[inst[c]] = None <=> db[inst[c]] = None,
             ModsOf(db'[inst[c]]) = ModsOf(db[inst[c]])
      PROVE  Calm(c)'
  BY <1>5 DEF CalmInv, Calm
<1>6. ASSUME calm[c] PROVE inst[c] \in Names
  BY <1>6 DEF CalmInv, Calm, Inv, JobInv
<1>7. ASSUME NEW n \in Names, NEW how \in {"owm", "lost"},
             StartOdoo(n, how) \/ StopOdoo(n)
      PROVE  Calm(c)'
  <2>1. calm[c] /\ inst[c] # n /\ UNCHANGED <<pc, inst, todo>>
    BY <1>1, <1>2, <1>7 DEF StartOdoo, StopOdoo, Disturb, JobsOK
  <2>2. up'[inst[c]] = up[inst[c]] /\ db'[inst[c]] = db[inst[c]]
    BY <1>2, <1>6, <1>7, <2>1 DEF StartOdoo, StopOdoo, Opened, TypeOK
  <2> QED
    BY <1>5, <2>1, <2>2
<1>8. ASSUME NEW n \in Names, NEW w \in Works, Work(n, w) PROVE Calm(c)'
  <2>1. calm[c] /\ UNCHANGED <<pc, inst, todo, up>>
    BY <1>1, <1>8 DEF Work
  <2>2. db[n] \in Contents /\ db' = [db EXCEPT ![n].work = @ \cup {w}]
    BY <1>8 DEF Work
  <2>3. CASE inst[c] = n
    <3>1. /\ db'[n].mods = db[n].mods
          /\ db'[n] \in Contents
      BY <1>2, <2>2 DEF TypeOK, Contents
    <3>2. ModsOf(db'[n]) = ModsOf(db[n]) /\ db'[n] # None /\ db[n] # None
      BY <2>2, <3>1, Apart DEF ModsOf
    <3> QED
      BY <1>5, <2>1, <2>3, <3>2
  <2>4. CASE inst[c] # n
    <3>1. db'[inst[c]] = db[inst[c]]
      BY <1>2, <1>6, <2>1, <2>2, <2>4 DEF TypeOK
    <3> QED
      BY <1>5, <2>1, <3>1
  <2> QED
    BY <2>3, <2>4
<1>9. CASE UNCHANGED vars
  BY <1>1, <1>5, <1>9 DEF vars, jobs, work
<1> QED
  BY <1>3, <1>4, <1>7, <1>8, <1>9 DEF Next, User

LEMMA CalmCorrect == Spec => [](Inv /\ CalmInv)
<1>1. Init => CalmInv
  BY DEF Init, CalmInv
<1>2. Inv /\ CalmInv /\ [Next]_vars => CalmInv'
  BY CalmStep
<1> QED
  BY InvCorrect, <1>1, <1>2, PTL DEF Spec

\* Only its own client ends a command.
LEMMA EndsItself ==
  ASSUME Inv, CalmInv, [Next]_vars, NEW c \in Clients, calm[c],
         pc[c] \in ResetSteps \cup InstallSteps, pc'[c] = "idle"
  PROVE  \E n \in Names : Client(c, n) /\ inst[c] = n /\ Calm(c)
<1>0. pc[c] # "idle" /\ pc'[c] # pc[c]
  BY DEF ResetSteps, InstallSteps
<1>1. JobsOK
  BY DEF Inv, TypeOK, JobsOK, Ends
<1>2. ASSUME NEW n \in Names, NEW y \in Clients \ {c}, Client(y, n) PROVE FALSE
  BY <1>0, <1>1, <1>2, ClientMoves, Others DEF Inv
<1>3. ASSUME NEW n \in Names, User(n) PROVE FALSE
  BY <1>0, <1>3 DEF User, StartOdoo, StopOdoo, Work, Disturb
<1>4. CASE UNCHANGED vars
  BY <1>0, <1>4 DEF vars, jobs, work
<1>5. ASSUME NEW n \in Names, Client(c, n) PROVE inst[c] = n
  <2>1. JobMove(c, n)
    BY <1>5, ClientMoves DEF Inv
  <2> QED
    BY <1>0, <2>1 DEF JobMove, Begin
<1> QED
  BY <1>2, <1>3, <1>4, <1>5 DEF Next, CalmInv

\* How the steps of a reset or an install of a calm client end.
LEMMA CalmEnds ==
  ASSUME Inv, CalmInv, NEW n \in Names, NEW c \in Clients, Client(c, n),
         inst[c] = n, calm[c], Calm(c),
         pc[c] \in ResetSteps \cup InstallSteps,
         pc'[c] = "idle"
  PROVE  /\ out' = "refused" => Base[n] # None /\ db[Base[n]] = None
         /\ out' = "ok" => Declared[n] \ todo[c] \subseteq ModsOf(db'[n])
<1> DEFINE Goal == /\ out' = "refused" => Base[n] # None /\ db[Base[n]] = None
                   /\ out' = "ok" => Declared[n] \ todo[c] \subseteq ModsOf(db'[n])
<1> SUFFICES Goal
  OBVIOUS
<1> USE DEF At, ResetSteps, InstallSteps
<1>1. JobsOK /\ TypeOK
  BY DEF Inv, TypeOK, JobsOK, Ends
<1>2. ASSUME NEW step, step # "idle", Goto(c, step) PROVE FALSE
  BY <1>1, <1>2 DEF Goto, JobsOK
<1>3. CASE CheckConnections(c, n)
  <2>1. up[n] = "no"
    BY <1>3 DEF CheckConnections, Calm
  <2>2. ~Goto(c, "drop")
    BY <1>2
  <2> QED
    BY <1>3, <2>1, <2>2 DEF CheckConnections, HasActiveConnections
<1>4. CASE DropDb(c, n)
  <2>1. up[n] = "no"
    BY <1>4 DEF DropDb, Calm
  <2> QED
    BY <1>2, <1>4, <2>1 DEF DropDb, Return
<1>5. CASE CloneDb(c, n)
  <2>1. db[n] = None /\ Base[n] # None
    BY <1>5 DEF CloneDb, Calm, Inv, JobInv
  <2>2. ~Goto(c, "query")
    BY <1>2
  <2>3. Base[n] \notin Names
    BY <2>1, Apart
  <2> QED
    BY <1>5, <2>1, <2>2, <2>3 DEF CloneDb, CanCreate, Return
<1>6. CASE QueryInstalled(c, n)
  <2>1. up[n] = "no" /\ db' = db
    BY <1>6 DEF QueryInstalled, Calm
  <2>2. pc' # [pc EXCEPT ![c] = "boot"]
    BY <1>1 DEF JobsOK
  <2>3. PICK already \in {ModsOf(db[n])}
                         \cup (IF "psql" \in Faults THEN {{}} ELSE {}) :
          Declared[n] \ already = {} /\ Return(c, "ok")
    BY <1>6, <2>1, <2>2 DEF QueryInstalled, IsRunning
  <2>4. Declared[n] \subseteq ModsOf(db[n])
    BY <2>3
  <2> QED
    BY <2>1, <2>3, <2>4 DEF Return
<1>7. CASE BootOdoo(c, n)
  <2>1. up[n] = "no"
    BY <1>7 DEF BootOdoo, Calm
  <2> QED
    BY <1>2, <1>7, <2>1 DEF BootOdoo, IsRunning
<1>8. CASE LoadModules(c, n)
  <2>1. up[n] = "boot"
    BY <1>8 DEF LoadModules, Calm
  <2>2. pc' # [pc EXCEPT ![c] = "halt"]
    BY <1>1 DEF JobsOK
  <2> QED
    BY <1>8, <2>1, <2>2 DEF LoadModules, Return
<1>9. CASE HaltOdoo(c, n)
  BY <1>9 DEF HaltOdoo, Calm, Return
<1>10. CASE LookForDb(c, n) \/ MakeDb(c, n) \/ WriteDump(c, n)
            \/ ProbeSource(c, n) \/ CopyTemplate(c, n) \/ SaveBackup(c, n)
            \/ WipeDb(c, n) \/ FillDb(c, n) \/ EmptyDb(c, n) \/ UndoSync(c, n)
  BY <1>10 DEF LookForDb, MakeDb, WriteDump, ProbeSource, CopyTemplate,
     SaveBackup, WipeDb, FillDb, EmptyDb, UndoSync
<1>11. ASSUME NEW i \in Minutes, ReadDump(c, n, i) PROVE Goal
  BY <1>11 DEF ReadDump
<1>12. ASSUME pc[c] = "idle" PROVE Goal
  BY <1>12
<1>13. CASE BeginCreate(c, n) \/ BeginReset(c, n) \/ BeginInstall(c, n)
            \/ (\E i \in Minutes : BeginDump(c, n, i))
           \/ BeginRestore(c, n) \/ BeginSync(c, n)
            \/ \E t \in Templates : BeginTemplate(c, n, t)
  BY <1>12, <1>13 DEF BeginCreate, BeginReset, BeginInstall, BeginDump,
     BeginRestore, BeginSync, BeginTemplate, Begin
<1> QED
  BY <1>3, <1>4, <1>5, <1>6, <1>7, <1>8, <1>9, <1>10, <1>11, <1>13 DEF Client

\* A reset can be repeated: where its template is there, no tool fails and
\* nobody is at its instance, it is not refused, whatever is left behind.
THEOREM ResetCorrect == Spec => ResetRepeatable
<1> DEFINE Repeatable ==
      \A c \in Clients :
        /\ pc[c] \in ResetSteps \cup InstallSteps /\ calm[c]
        /\ db[Base[inst[c]]] # None
        /\ pc'[c] = "idle"
        => out' # "refused"
<1>1. Inv /\ CalmInv /\ [Next]_vars => [Repeatable]_vars
  BY EndsItself, CalmEnds
<1> QED
  BY CalmCorrect, <1>1, PTL DEF Spec, ResetRepeatable

\* When create, reset or install says ok, and nobody else was at the
\* instance, all modules its toml declares are in its database but those an
\* Odoo that answered has left out, also when the query for what is installed
\* failed.
THEOREM InstallCorrect == Spec => InstallComplete
<1> DEFINE Complete ==
      \A c \in Clients :
        /\ pc[c] \in InstallSteps /\ calm[c]
        /\ pc'[c] = "idle" /\ out' = "ok"
        => Declared[inst[c]] \ todo[c] \subseteq ModsOf(db'[inst[c]])
<1>1. Inv /\ CalmInv /\ [Next]_vars => [Complete]_vars
  BY EndsItself, CalmEnds
<1> QED
  BY CalmCorrect, <1>1, PTL DEF Spec, InstallComplete

-----------------------------------------------------------------------------
(* Work: what a sync is about to drop is kept elsewhere, and what pg_dump   *)
(* overwrites has gone by owm's own doing.                                  *)

\* A command acts on files and databases of its own instance.
LEMMA ActsHere ==
  ASSUME Inv, NEW n \in Names, NEW c \in Clients, Client(c, n)
  PROVE  /\ \A k \in Names \ {n} :
              /\ up'[k] = up[k] /\ db'[k] = db[k]
              /\ dumps'[k] = dumps[k] /\ backup'[k] = backup[k]
         /\ given \subseteq given' /\ spoiled \subseteq spoiled' /\ made' = made
<1> USE DEF At, work
<1>1. TypeOK
  BY DEF Inv
<1>2. ASSUME UNCHANGED <<db, up, dumps, backup, work>>
      PROVE  /\ \A k \in Names \ {n} :
                   /\ up'[k] = up[k] /\ db'[k] = db[k]
                   /\ dumps'[k] = dumps[k] /\ backup'[k] = backup[k]
             /\ given \subseteq given' /\ spoiled \subseteq spoiled' /\ made' = made
  BY <1>2
<1>3. CASE BeginCreate(c, n) \/ LookForDb(c, n) \/ BeginReset(c, n)
           \/ CheckConnections(c, n) \/ BeginInstall(c, n)
           \/ QueryInstalled(c, n) \/ (\E i \in Minutes : BeginDump(c, n, i))
           \/ BeginRestore(c, n)
           \/ ProbeSource(c, n) \/ BeginSync(c, n)
           \/ \E t \in Templates : BeginTemplate(c, n, t)
  BY <1>2, <1>3 DEF BeginCreate, LookForDb, BeginReset, CheckConnections,
     BeginInstall, QueryInstalled, BeginDump, BeginRestore, ProbeSource,
     BeginSync, BeginTemplate
<1>4. CASE MakeDb(c, n) \/ CloneDb(c, n) \/ FillDb(c, n) \/ EmptyDb(c, n)
  BY <1>1, <1>4 DEF MakeDb, CloneDb, FillDb, EmptyDb, Created, TypeOK
<1>5. CASE DropDb(c, n) \/ WipeDb(c, n)
  BY <1>1, <1>5 DEF DropDb, WipeDb, TypeOK
<1>6. CASE BootOdoo(c, n) \/ LoadModules(c, n) \/ HaltOdoo(c, n)
  BY <1>1, <1>6 DEF BootOdoo, LoadModules, HaltOdoo, Opened, TypeOK
<1>7. CASE WriteDump(c, n) \/ SaveBackup(c, n)
  BY <1>1, <1>7 DEF WriteDump, SaveBackup, TypeOK
<1>8. CASE UndoSync(c, n) \/ \E i \in Minutes : ReadDump(c, n, i)
  BY <1>1, <1>8 DEF UndoSync, ReadDump, TypeOK
<1>9. CASE CopyTemplate(c, n)
  <2>1. arg[c] \in Templates
    BY <1>9 DEF CopyTemplate, Inv, JobInv
  <2>2. arg[c] \notin Names
    BY <2>1, Apart
  <2> QED
    BY <1>1, <1>9, <2>2 DEF CopyTemplate, Created, TypeOK
<1> QED
  BY <1>3, <1>4, <1>5, <1>6, <1>7, <1>8, <1>9 DEF Client

\* Which action writes a dump or a backup, and leads a sync to its dropdb.
LEMMA Deeds ==
  ASSUME Inv, NEW n \in Names, NEW c \in Clients, Client(c, n)
  PROVE  /\ dumps' # dumps => WriteDump(c, n)
         /\ backup' # backup => SaveBackup(c, n)
         /\ pc'[c] = "wipe" => SaveBackup(c, n)
<1> USE DEF At, JobsOK
<1>1. JobsOK
  BY DEF Inv, TypeOK, JobsOK, Ends
<1>2. CASE BeginCreate(c, n) \/ BeginReset(c, n) \/ BeginInstall(c, n)
           \/ BeginRestore(c, n) \/ \E t \in Templates : BeginTemplate(c, n, t)
  BY <1>1, <1>2 DEF BeginCreate, BeginReset, BeginInstall, BeginRestore,
     BeginTemplate, Begin
<1>3. CASE (\E i \in Minutes : BeginDump(c, n, i))
           \/ BeginSync(c, n)
  BY <1>1, <1>3 DEF BeginDump, BeginSync, Begin
<1>4. CASE LookForDb(c, n) \/ MakeDb(c, n) \/ CheckConnections(c, n)
           \/ DropDb(c, n) \/ CloneDb(c, n) \/ QueryInstalled(c, n)
           \/ ProbeSource(c, n)
  BY <1>1, <1>4 DEF LookForDb, MakeDb, CheckConnections, DropDb, CloneDb,
     QueryInstalled, ProbeSource, Goto, Return
<1>5. CASE BootOdoo(c, n) \/ LoadModules(c, n) \/ HaltOdoo(c, n)
           \/ WriteDump(c, n) \/ CopyTemplate(c, n)
           \/ \E i \in Minutes : ReadDump(c, n, i)
  BY <1>1, <1>5 DEF BootOdoo, LoadModules, HaltOdoo, WriteDump, CopyTemplate,
     ReadDump, Goto, Return
<1>6. CASE SaveBackup(c, n) \/ WipeDb(c, n) \/ FillDb(c, n) \/ EmptyDb(c, n)
           \/ UndoSync(c, n)
  BY <1>1, <1>6 DEF SaveBackup, WipeDb, FillDb, EmptyDb, UndoSync, Goto, Return
<1> QED
  BY <1>2, <1>3, <1>4, <1>5, <1>6 DEF Client

\* Files change by a pg_dump alone, and user's words and history only grow.
LEMMA FilesStep ==
  ASSUME Inv, [Next]_vars
  PROVE  /\ given \subseteq given' /\ spoiled \subseteq spoiled'
         /\ dumps' # dumps => \E k \in Names, c \in Clients : WriteDump(c, k)
         /\ backup' # backup => \E k \in Names, c \in Clients : SaveBackup(c, k)
<1>1. ASSUME NEW n \in Names, NEW c \in Clients, Client(c, n)
      PROVE  /\ given \subseteq given' /\ spoiled \subseteq spoiled'
             /\ dumps' # dumps => WriteDump(c, n)
             /\ backup' # backup => SaveBackup(c, n)
  BY <1>1, ActsHere, Deeds
<1>2. CASE UNCHANGED vars \/ \E n \in Names : User(n)
  BY <1>2 DEF vars, work, User, StartOdoo, StopOdoo, Work
<1> QED
  BY <1>1, <1>2 DEF Next

\* What a command puts into the database of an instance comes from a template
\* or from a file of that instance.
LEMMA Refilled ==
  ASSUME Inv, NEW k \in Names, NEW c \in Clients, Client(c, k), NEW n \in Names
  PROVE  WorkOf(db'[n]) \subseteq WorkOf(db[n]) \cup Kept(n)
<1> DEFINE Sources == WorkOf(db[n]) \cup Kept(n)
<1> SUFFICES WorkOf(db'[n]) \subseteq Sources
  OBVIOUS
<1>0. /\ WorkOf(db[n]) \subseteq Sources /\ WorkOf(backup[n]) \subseteq Sources
      /\ \A i \in Minutes : WorkOf(dumps[n][i]) \subseteq Sources
      /\ \A t \in Templates : WorkOf(db[t]) \subseteq Sources
  BY Held DEF Kept
<1> HIDE DEF Sources
<1> USE DEF At
<1>1. TypeOK
  BY DEF Inv
<1>2. CASE db'[n] = db[n]
  BY <1>2, <1>0
<1>3. CASE k # n
  BY <1>2, <1>3, ActsHere
<1>4. ASSUME k = n, db'[n] \in {None, Blank, Skeleton}
      PROVE  WorkOf(db'[n]) \subseteq Sources
  BY <1>4, Held
<1>5. CASE k = n /\ (MakeDb(c, k) \/ CloneDb(c, k) \/ FillDb(c, k))
  <2>1. db'[n] = db[n] \/ db'[n] = Blank \/ (Base[n] # None /\ db'[n] = db[Base[n]])
    BY <1>1, <1>5 DEF MakeDb, CloneDb, FillDb, Created, TypeOK
  <2>2. Base[n] # None => Base[n] \in Templates
    BY Apart
  <2>3. CASE Base[n] # None /\ db'[n] = db[Base[n]]
    <3>1. WorkOf(db[Base[n]]) \subseteq Sources
      BY <1>0, <2>2, <2>3
    <3> QED
      BY <2>3, <3>1
  <2> QED
    BY <1>2, <1>4, <1>5, <2>1, <2>3
<1>6. CASE k = n /\ (EmptyDb(c, k) \/ DropDb(c, k) \/ WipeDb(c, k))
  BY <1>1, <1>2, <1>4, <1>6 DEF EmptyDb, DropDb, WipeDb, Created, TypeOK
<1>7. CASE k = n /\ UndoSync(c, k)
  <2>1. db'[n] \in {db[n], backup[n], Skeleton}
    BY <1>1, <1>7 DEF UndoSync, TypeOK
  <2> QED
    BY <1>0, <1>2, <2>1, Held
<1>8. ASSUME k = n, NEW i \in Minutes, ReadDump(c, k, i)
      PROVE  WorkOf(db'[n]) \subseteq Sources
  <2>1. db'[n] \in {db[n], dumps[n][i], Skeleton}
    BY <1>1, <1>8 DEF ReadDump, TypeOK
  <2> QED
    BY <1>0, <1>2, <2>1, Held
<1>9. CASE k = n /\ BootOdoo(c, k)
  BY <1>1, <1>2, <1>4, <1>9 DEF BootOdoo, Opened, TypeOK
<1>10. CASE k = n /\ LoadModules(c, k)
  <2>1. \/ db' = db
        \/ \E done \in SUBSET todo[c] :
             db' = [db EXCEPT ![n] = [mods |-> ModsOf(@) \cup done,
                                      work |-> WorkOf(@)]]
    BY <1>10 DEF LoadModules
  <2>2. ASSUME NEW done \in SUBSET todo[c],
               db' = [db EXCEPT ![n] = [mods |-> ModsOf(@) \cup done,
                                        work |-> WorkOf(@)]]
        PROVE  WorkOf(db'[n]) = WorkOf(db[n])
    <3>1. db'[n] = [mods |-> ModsOf(db[n]) \cup done, work |-> WorkOf(db[n])]
      BY <1>1, <2>2 DEF TypeOK
    <3>2. ModsOf(db[n]) \cup done \in SUBSET Modules /\ WorkOf(db[n]) \in SUBSET Works
      BY <1>1, Held DEF TypeOK
    <3> QED
      BY <3>1, <3>2, HeldIn
  <2> QED
    BY <1>0, <1>2, <2>1, <2>2
<1>11. CASE CopyTemplate(c, k)
  <2>1. arg[c] \in Templates /\ arg[c] # n
    BY <1>11, Apart DEF CopyTemplate, Inv, JobInv
  <2> QED
    BY <1>1, <1>2, <1>11, <2>1 DEF CopyTemplate, Created, TypeOK
<1>12. CASE BeginCreate(c, k) \/ LookForDb(c, k) \/ BeginReset(c, k)
            \/ CheckConnections(c, k) \/ BeginInstall(c, k)
            \/ QueryInstalled(c, k) \/ (\E i \in Minutes : BeginDump(c, k, i))
            \/ BeginRestore(c, k) \/ ProbeSource(c, k) \/ BeginSync(c, k)
            \/ HaltOdoo(c, k) \/ WriteDump(c, k) \/ SaveBackup(c, k)
            \/ \E t \in Templates : BeginTemplate(c, k, t)
  BY <1>2, <1>12 DEF BeginCreate, LookForDb, BeginReset, CheckConnections,
     BeginInstall, QueryInstalled, BeginDump, BeginRestore, ProbeSource,
     BeginSync, HaltOdoo, WriteDump, SaveBackup, BeginTemplate
<1> QED
  BY <1>3, <1>5, <1>6, <1>7, <1>8, <1>9, <1>10, <1>11, <1>12 DEF Client

\* While a sync may drop the database of an instance, nothing leaves the
\* places where its work is kept.
LEMMA KeptGrows ==
  ASSUME Inv, [Next]_vars, NEW n \in Names, Wiping(n)
  PROVE  Kept(n) \subseteq Kept(n)'
<1>0. /\ given' \subseteq Works /\ spoiled' \subseteq Works
      /\ \A x : WorkOf(x) \subseteq Works
  BY TypeStep, Held DEF TypeOK
<1>1. TypeOK
  BY DEF Inv
<1>2. given \subseteq given' /\ spoiled \subseteq spoiled'
  BY FilesStep
<1>3. ASSUME NEW old, NEW new, NEW w \in WorkOf(old), w \notin WorkOf(new)
      PROVE  w \in Overwritten(n, old, new)
  BY <1>3 DEF Overwritten
<1>4. ASSUME NEW w \in WorkOf(backup[n]) PROVE w \in Kept(n)'
  <2>1. CASE backup'[n] = backup[n]
    BY <1>4, <2>1, Held DEF Kept
  <2>2. ASSUME NEW k \in Names, NEW c \in Clients, SaveBackup(c, k)
        PROVE  w \in Kept(n)'
    <3>1. CASE k = n
      <4>1. spoiled' = spoiled \cup Overwritten(n, backup[n], backup'[n])
        BY <2>2, <3>1 DEF SaveBackup
      <4>2. w \in WorkOf(backup'[n]) \/ w \in spoiled'
        BY <1>3, <1>4, <4>1
      <4> QED
        BY <4>2, <1>0 DEF Kept
    <3>2. CASE k # n
      <4>1. backup'[n] = backup[n]
        BY <1>1, <2>2, <3>2 DEF SaveBackup, TypeOK
      <4> QED
        BY <2>1, <4>1
    <3> QED
      BY <3>1, <3>2
  <2> QED
    BY <2>1, <2>2, FilesStep
<1>5. ASSUME NEW i \in Minutes, NEW w \in WorkOf(dumps[n][i])
      PROVE  w \in Kept(n)'
  <2>1. CASE dumps'[n][i] = dumps[n][i]
    BY <1>5, <2>1, Held DEF Kept
  <2>2. ASSUME NEW k \in Names, NEW c \in Clients, WriteDump(c, k)
        PROVE  w \in Kept(n)'
    <3>1. arg[c] \in Minutes
      BY <2>2 DEF WriteDump, At, Inv, JobInv
    <3>2. CASE k = n /\ i = arg[c]
      <4>1. spoiled' = spoiled \cup Overwritten(n, dumps[n][i], dumps'[n][i])
        BY <2>2, <3>2 DEF WriteDump
      <4>2. w \in WorkOf(dumps'[n][i]) \/ w \in spoiled'
        BY <1>3, <1>5, <4>1
      <4> QED
        BY <4>2, <1>0 DEF Kept
    <3>3. CASE k # n \/ i # arg[c]
      <4>1. dumps'[n][i] = dumps[n][i]
        BY <1>1, <2>2, <3>1, <3>3 DEF WriteDump, TypeOK
      <4> QED
        BY <2>1, <4>1
    <3> QED
      BY <3>2, <3>3
  <2> QED
    BY <2>1, <2>2, FilesStep
<1>6. ASSUME NEW t \in Templates, NEW w \in WorkOf(db[t])
      PROVE  w \in Kept(n)'
  <2>1. db[t] # None /\ t \notin Names
    BY <1>6, Held, Apart
  <2>2. w \in WorkOf(db'[t])
    BY <1>1, <1>6, <2>1, NextDbStep, DbStepGrows
  <2> QED
    BY <2>2, Held DEF Kept
<1>7. ASSUME NEW w \in given \cup spoiled PROVE w \in Kept(n)'
  BY <1>2, <1>7, <1>0 DEF Kept
<1>8. SUFFICES ASSUME NEW w \in Kept(n)
               PROVE  w \in Kept(n)'
  OBVIOUS
<1>9. \/ w \in given \cup spoiled \/ w \in WorkOf(backup[n])
      \/ \E i \in Minutes : w \in WorkOf(dumps[n][i])
      \/ \E t \in Templates : w \in WorkOf(db[t])
  BY <1>8 DEF Kept
<1> QED
  BY <1>4, <1>5, <1>6, <1>7, <1>9

LEMMA WipeStep ==
  ASSUME Inv, WipeInv, [Next]_vars
  PROVE  WipeInv'
<1>1. SUFFICES ASSUME NEW c \in Clients, pc'[c] = "wipe",
                      NEW n \in Names, inst'[c] = n
               PROVE  WorkOf(db'[n]) \subseteq Kept(n)'
  BY JobStep DEF JobInv, WipeInv
<1>2. JobsOK /\ TypeOK
  BY DEF Inv, TypeOK, JobsOK, Ends
<1>3. ASSUME NEW k \in Names, Client(c, k)
      PROVE  WorkOf(db'[n]) \subseteq Kept(n)'
  <2>1. SaveBackup(c, k)
    BY <1>1, <1>3, Deeds
  <2>2. backup'[n] = db[n] /\ db' = db
    BY <1>1, <1>2, <2>1 DEF SaveBackup, At, Goto, Return, JobsOK, TypeOK
  <2> QED
    BY <2>2, Held DEF Kept
<1>4. ASSUME pc[c] = "wipe", inst[c] = n,
             WorkOf(db'[n]) \subseteq WorkOf(db[n]) \cup Kept(n) \cup Kept(n)'
      PROVE  WorkOf(db'[n]) \subseteq Kept(n)'
  <2>1. Wiping(n)
    BY <1>4 DEF Wiping, At
  <2>2. WorkOf(db[n]) \subseteq Kept(n)
    BY <1>4 DEF WipeInv
  <2>3. Kept(n) \subseteq Kept(n)'
    BY <2>1, KeptGrows
  <2> QED
    BY <1>4, <2>2, <2>3
<1>5. ASSUME NEW k \in Names, NEW y \in Clients \ {c}, Client(y, k)
      PROVE  /\ pc[c] = "wipe" /\ inst[c] = n
             /\ WorkOf(db'[n]) \subseteq WorkOf(db[n]) \cup Kept(n)
  <2>1. JobMove(y, k)
    BY <1>5, ClientMoves DEF Inv
  <2>2. pc[c] = "wipe" /\ inst[c] = n
    BY <1>1, <1>2, <2>1, Others
  <2> QED
    BY <1>5, <2>2, Refilled
<1>6. ASSUME NEW k \in Names, User(k)
      PROVE  /\ pc[c] = "wipe" /\ inst[c] = n
             /\ WorkOf(db'[n]) \subseteq WorkOf(db[n]) \cup Kept(n)'
  <2>1. UNCHANGED <<pc, inst>>
    BY <1>6 DEF User, StartOdoo, StopOdoo, Work, Disturb
  <2>2. pc[c] = "wipe" /\ inst[c] = n /\ Wiping(n)
    BY <1>1, <2>1 DEF Wiping, At
  <2>3. ASSUME NEW how, StartOdoo(k, how)
        PROVE  WorkOf(db'[n]) \subseteq WorkOf(db[n])
    BY <1>2, <2>3, Held DEF StartOdoo, Opened, TypeOK
  <2>4. ASSUME NEW w \in Works, Work(k, w)
        PROVE  WorkOf(db'[n]) \subseteq WorkOf(db[n]) \cup Kept(n)'
    <3>1. CASE k # n
      BY <1>2, <2>4, <3>1 DEF Work, TypeOK
    <3>2. CASE k = n
      <4>1. /\ db[n] \in Contents /\ db' = [db EXCEPT ![n].work = @ \cup {w}]
            /\ w \in spoiled'
        BY <2>2, <2>4, <3>2 DEF Work
      <4>2. db'[n].work = db[n].work \cup {w} /\ db'[n] \in Contents
        BY <1>2, <4>1 DEF TypeOK, Contents
      <4>3. WorkOf(db'[n]) = WorkOf(db[n]) \cup {w}
        BY <4>1, <4>2 DEF WorkOf
      <4>4. w \in Kept(n)'
        BY <4>1 DEF Kept
      <4> QED
        BY <4>3, <4>4
    <3> QED
      BY <3>1, <3>2
  <2>5. ASSUME StopOdoo(k) PROVE db' = db
    BY <2>5 DEF StopOdoo
  <2> QED
    BY <1>6, <2>2, <2>3, <2>4, <2>5 DEF User
<1>7. CASE UNCHANGED vars
  <2>1. pc' = pc /\ inst' = inst /\ db' = db
    BY <1>7 DEF vars, jobs
  <2> QED
    BY <1>1, <1>4, <2>1
<1> QED
  BY <1>3, <1>4, <1>5, <1>6, <1>7 DEF Next

\* Only a reset and a sync drop a database.
LEMMA Dropped ==
  ASSUME Inv, NEW n \in Names, NEW c \in Clients, Client(c, n),
         NEW d \in Names, db[d] # None, db'[d] = None
  PROVE  n = d /\ (DropDb(c, n) \/ WipeDb(c, n))
<1> USE DEF At
<1>1. TypeOK
  BY DEF Inv
<1>2. CASE UNCHANGED db
  BY <1>2
<1>3. n = d
  BY ActsHere
<1>4. CASE BeginCreate(c, n) \/ LookForDb(c, n) \/ BeginReset(c, n)
           \/ CheckConnections(c, n) \/ BeginInstall(c, n)
           \/ QueryInstalled(c, n) \/ (\E i \in Minutes : BeginDump(c, n, i))
           \/ BeginRestore(c, n)
           \/ ProbeSource(c, n) \/ BeginSync(c, n) \/ HaltOdoo(c, n)
           \/ WriteDump(c, n) \/ SaveBackup(c, n)
           \/ \E t \in Templates : BeginTemplate(c, n, t)
  BY <1>2, <1>4 DEF BeginCreate, LookForDb, BeginReset, CheckConnections,
     BeginInstall, QueryInstalled, BeginDump, BeginRestore, ProbeSource,
     BeginSync, HaltOdoo, WriteDump, SaveBackup, BeginTemplate
<1>5. CASE MakeDb(c, n) \/ CloneDb(c, n) \/ FillDb(c, n) \/ EmptyDb(c, n)
  BY <1>2, <1>3, <1>5 DEF MakeDb, CloneDb, FillDb, EmptyDb, CanCreate
<1>6. CASE BootOdoo(c, n)
  BY <1>1, <1>3, <1>6, Held, Apart DEF BootOdoo, Opened, TypeOK
<1>9. CASE LoadModules(c, n)
  <2>1. PICK done \in SUBSET todo[c] :
          db' = [db EXCEPT ![n] = [mods |-> ModsOf(@) \cup done,
                                   work |-> WorkOf(@)]]
    BY <1>2, <1>9 DEF LoadModules
  <2>2. db'[n] = [mods |-> ModsOf(db[n]) \cup done, work |-> WorkOf(db[n])]
    BY <1>1, <2>1 DEF TypeOK
  <2>3. db'[n] \in Contents
    <3>1. done \subseteq Modules
      BY <1>1 DEF TypeOK
    <3> QED
      BY <2>2, <3>1, Held, HeldIn
  <2> QED
    BY <1>3, <2>3, Apart
<1>7. CASE UndoSync(c, n) \/ \E i \in Minutes : ReadDump(c, n, i)
  BY <1>1, <1>3, <1>7, Held, Apart DEF UndoSync, ReadDump, TypeOK
<1>8. CASE CopyTemplate(c, n)
  <2>1. arg[c] \in Templates
    BY <1>8 DEF CopyTemplate, Inv, JobInv
  <2> QED
    BY <1>1, <1>2, <1>8, <2>1, Apart DEF CopyTemplate, Created, TypeOK
<1> QED
  BY <1>3, <1>4, <1>5, <1>6, <1>7, <1>8, <1>9 DEF Client

InDb(w) == \E d \in Names \cup Templates : w \in WorkOf(db[d])
InDump(w) == \E n \in Names, i \in Minutes : w \in WorkOf(dumps[n][i])
InBackup(w) == \E n \in Names : w \in WorkOf(backup[n])

\* What pg_dump writes over is in the new file or in a database, or counts as
\* owm's own doing.
LEMMA Rewritten ==
  ASSUME NEW n \in Names, NEW old, NEW new, NEW w \in WorkOf(old),
         w \notin Overwritten(n, old, new)
  PROVE  w \in WorkOf(new) \/ InDb(w)
BY DEF Overwritten, InDb

LEMMA WorkStep ==
  ASSUME Inv, WipeInv, WorkIsSomewhere, [Next]_vars
  PROVE  WorkIsSomewhere'
<1>1. SUFFICES ASSUME NEW w \in made', w \notin given', w \notin spoiled'
               PROVE  InDb(w)' \/ InDump(w)' \/ InBackup(w)'
  BY DEF WorkIsSomewhere, InDb, InDump, InBackup
<1>2. JobsOK /\ TypeOK
  BY DEF Inv, TypeOK, JobsOK, Ends
<1>3. DbStep
  BY NextDbStep
<1>4. ASSUME NEW n \in Names, w \notin made, User(n) PROVE InDb(w)'
  <2>1. Work(n, w)
    BY <1>1, <1>4 DEF User, StartOdoo, StopOdoo, Work, work
  <2>2. db[n] \in Contents /\ w \in Works
    BY <1>4, <2>1, TypeStep, <1>1 DEF Work, TypeOK
  <2>3. db' = [db EXCEPT ![n].work = @ \cup {w}]
    BY <2>1 DEF Work
  <2>4. db'[n].work = db[n].work \cup {w} /\ db'[n] \in Contents
    BY <1>2, <2>2, <2>3 DEF TypeOK, Contents
  <2> QED
    BY <2>4 DEF InDb, WorkOf
<1>5. ASSUME w \notin made PROVE \E n \in Names : User(n)
  <2>1. made' # made
    BY <1>1, <1>5
  <2>2. ~UNCHANGED vars
    BY <2>1 DEF vars, work
  <2> QED
    BY <2>1, <2>2, ActsHere DEF Next
<1>6. ASSUME w \in made PROVE InDb(w) \/ InDump(w) \/ InBackup(w)
  <2>1. w \notin given /\ w \notin spoiled
    BY <1>1, FilesStep
  <2> QED
    BY <1>6, <2>1 DEF WorkIsSomewhere, InDb, InDump, InBackup
<1>7. ASSUME NEW d \in Names \cup Templates, w \in WorkOf(db[d])
      PROVE  InDb(w)' \/ InDump(w)' \/ InBackup(w)'
  <2>1. db[d] # None
    BY <1>7, Held
  <2>2. CASE d \notin Names \/ ~Drops(d)
    <3>1. w \in WorkOf(db'[d])
      BY <1>2, <1>3, <1>7, <2>1, <2>2, DbStepGrows
    <3> QED
      BY <3>1 DEF InDb
  <2>3. CASE d \in Names /\ Drops(d)
    <3>1. db'[d] = None
      BY <1>2, <2>3 DEF Drops, TypeOK
    <3>2. ASSUME NEW n \in Names, NEW c \in Clients, Client(c, n)
          PROVE  InDb(w)' \/ InDump(w)' \/ InBackup(w)'
      <4>1. n = d /\ (DropDb(c, n) \/ WipeDb(c, n))
        BY <2>1, <2>3, <3>1, <3>2, Dropped
      <4>2. CASE DropDb(c, n)
        <5>1. /\ dumps' = dumps
              /\ given' = given \cup
                   (WorkOf(db[n]) \ UNION {WorkOf(dumps[n][i]) : i \in Minutes})
          BY <2>1, <3>1, <4>1, <4>2 DEF DropDb
        <5>2. \E i \in Minutes : w \in WorkOf(dumps[n][i])
          BY <1>1, <1>7, <4>1, <5>1
        <5> QED
          BY <5>1, <5>2 DEF InDump
      <4>3. CASE WipeDb(c, n)
        <5>1. pc[c] = "wipe" /\ inst[c] = n
          BY <4>3 DEF WipeDb, At
        <5>2. w \in Kept(n) /\ w \notin given /\ w \notin spoiled
          BY <1>1, <1>7, <4>1, <5>1, FilesStep DEF WipeInv
        <5>3. \/ w \in WorkOf(backup[n])
              \/ \E i \in Minutes : w \in WorkOf(dumps[n][i])
              \/ \E t \in Templates : w \in WorkOf(db[t])
          BY <5>2 DEF Kept
        <5>4. UNCHANGED <<dumps, backup>> /\ \A t \in Templates : db'[t] = db[t]
          BY <1>2, <4>3, Apart DEF WipeDb, TypeOK
        <5> QED
          BY <5>3, <5>4 DEF InDb, InDump, InBackup
      <4> QED
        BY <4>1, <4>2, <4>3
    <3>3. ASSUME NEW n \in Names, User(n) PROVE FALSE
      <4>1. ASSUME NEW how, StartOdoo(n, how) PROVE FALSE
        BY <1>2, <2>1, <2>3, <3>1, <4>1, Held, Apart DEF StartOdoo, Opened, TypeOK
      <4>2. CASE StopOdoo(n)
        BY <2>1, <3>1, <4>2 DEF StopOdoo
      <4>3. ASSUME NEW v \in Works, Work(n, v) PROVE FALSE
        <5>1. db[n] \in Contents /\ db' = [db EXCEPT ![n].work = @ \cup {v}]
          BY <4>3 DEF Work
        <5>2. db'[n] \in Contents
          BY <1>2, <4>3, <5>1 DEF TypeOK, Contents
        <5>3. n # d
          BY <3>1, <5>2, Apart
        <5> QED
          BY <1>2, <2>1, <2>3, <3>1, <5>1, <5>3 DEF TypeOK
      <4> QED
        BY <3>3, <4>1, <4>2, <4>3 DEF User
    <3>4. CASE UNCHANGED vars
      BY <2>1, <3>1, <3>4 DEF vars
    <3> QED
      BY <3>2, <3>3, <3>4 DEF Next
  <2> QED
    BY <2>2, <2>3
<1>8. ASSUME NEW n \in Names, NEW i \in Minutes, w \in WorkOf(dumps[n][i])
      PROVE  InDump(w)' \/ InDb(w)
  <2>1. CASE dumps'[n][i] = dumps[n][i]
    BY <1>8, <2>1 DEF InDump
  <2>2. ASSUME NEW k \in Names, NEW c \in Clients, WriteDump(c, k),
               dumps'[n][i] # dumps[n][i]
        PROVE  InDump(w)' \/ InDb(w)
    <3>1. arg[c] \in Minutes
      BY <2>2 DEF WriteDump, At, Inv, JobInv
    <3>2. n = k /\ i = arg[c]
      BY <1>2, <2>2, <3>1 DEF WriteDump, TypeOK
    <3>3. spoiled' = spoiled \cup Overwritten(n, dumps[n][i], dumps'[n][i])
      BY <2>2, <3>2 DEF WriteDump
    <3>4. w \in WorkOf(dumps'[n][i]) \/ InDb(w)
      BY <1>1, <1>8, <3>3, Rewritten
    <3> QED
      BY <3>4 DEF InDump
  <2> QED
    BY <2>1, <2>2, FilesStep
<1>9. ASSUME NEW n \in Names, w \in WorkOf(backup[n])
      PROVE  InBackup(w)' \/ InDb(w)
  <2>1. CASE backup'[n] = backup[n]
    BY <1>9, <2>1 DEF InBackup
  <2>2. ASSUME NEW k \in Names, NEW c \in Clients, SaveBackup(c, k),
               backup'[n] # backup[n]
        PROVE  InBackup(w)' \/ InDb(w)
    <3>1. n = k
      BY <1>2, <2>2 DEF SaveBackup, TypeOK
    <3>2. spoiled' = spoiled \cup Overwritten(n, backup[n], backup'[n])
      BY <2>2, <3>1 DEF SaveBackup
    <3>3. w \in WorkOf(backup'[n]) \/ InDb(w)
      BY <1>1, <1>9, <3>2, Rewritten
    <3> QED
      BY <3>3 DEF InBackup
  <2> QED
    BY <2>1, <2>2, FilesStep
<1> QED
  BY <1>4, <1>5, <1>6, <1>7, <1>8, <1>9 DEF InDb, InDump, InBackup

\* What users have put into a database is in a database, in a dump or in the
\* backup of a sync, or its loss was agreed to, whichever tools fail at
\* whatever step, but for what a pg_dump wrote over and what was put in while
\* a sync went from its backup to its dropdb.
THEOREM WorkCorrect == Spec => []WorkIsSomewhere
<1>1. Init => WipeInv /\ WorkIsSomewhere
  BY DEF Init, WipeInv, WorkIsSomewhere
<1>2. Inv /\ WipeInv /\ WorkIsSomewhere /\ [Next]_vars
        => (WipeInv /\ WorkIsSomewhere)'
  BY WipeStep, WorkStep
<1> QED
  BY InvCorrect, <1>1, <1>2, PTL DEF Spec

=============================================================================
