-------------------------- MODULE ProvisionProofs ---------------------------
(***************************************************************************)
(* What create, archive, unarchive, delete and rename may never do to an   *)
(* instance, its database and the work in it: theorems about Provision,    *)
(* for every set of instances, works and faults, with templates or without, *)
(* Odoo started, used and stopped at any time.                             *)
(***************************************************************************)
EXTENDS Provision, TLAPS

USE FaultsAssumption, TemplatedAssumption, CommandsAssumption, NoneAssumption,
    WorksAssumption

-----------------------------------------------------------------------------
(* The invariant, in parts that build on each other.                       *)

Archiving == pc \in {"dump", "drop", "detach", "unproxy", "move"}
Deleting == pc \in {"dDetach", "dDrop", "dUnproxy", "dRemove"}
Unarchiving == ~Renaming /\ to # None

\* Every toml, archive and dump is where its name says.
NamesInv ==
  /\ \A n \in Names : toml[n] # None =>
       /\ toml[n] = IF pc = "rMove" /\ n = name THEN to ELSE n
       /\ n \in dirs
  /\ \A n \in Names : arch[n] # None => arch[n].db = n
  /\ \A n \in Names : dump[n] # None => toml[n] # None

\* What the command under way has found and has in hand.
CommandInv ==
  /\ pc # "idle" => name \in Names
  /\ Renaming => to \in Names /\ to # name
  /\ pc \in {"rDb", "rToml", "rMove"} => to \notin dirs
  /\ pc = "rProxy" => name \notin dirs /\ to \in dirs
  /\ pc = "unpack" => toml[name] = None /\ name \in dirs
  /\ Unarchiving => to = name /\ arch[name] # None
  /\ pc \in {"unpack", "restore", "discard"} => to # None
  /\ Archiving => arch[name] = None /\ mode # "discard"
  /\ Archiving \/ Deleting \/ pc = "idle" => to = None
  /\ pc = "restore" => arch[name].dump # None

ProxyInv ==
  /\ proxy \subseteq dirs \cup {name}
  /\ pc # "rProxy" => proxy \subseteq dirs
  /\ pc \in {"move", "dRemove"} => name \notin proxy

\* What the other parts rest on.
Inv == TypeOK /\ NamesInv /\ CommandInv

\* Every database has its instance, or is being renamed with it, or was made
\* by Odoo behind the back of a command.
DbInv ==
  /\ \A d \in Names : db[d] # None =>
       \/ d \in remade
       \/ IF pc \in {"rToml", "rMove"} THEN (toml[d] # None /\ d # name) \/ d = to
          ELSE toml[d] # None
  /\ pc \in {"detach", "unproxy", "move", "dUnproxy", "dRemove"} =>
       db[name] = None \/ name \in remade

\* What a command is about to destroy is kept elsewhere, was given up, or was
\* put there too late for the command to see it.
WorkInv ==
  /\ pc = "drop" => db[name] \notin Works \/ db[name] \in {dump[name]} \cup given \cup exposed
  /\ pc \in {"dDetach", "dDrop"} => db[name] \notin Works \/ db[name] \in given \cup exposed
  /\ (Archiving /\ mode = "all") \/ Deleting =>
       dump[name] \in given \/ dump[name] \notin Works
  /\ pc = "dump" => mode = "keep"
  /\ pc = "discard" => arch[name].dump \notin Works \/ db[name] = arch[name].dump

WorkSafe == Inv /\ WorkInv /\ NoSilentLoss

LEMMA CondemnedAreWorks ==
  ASSUME NEW n, NEW what
  PROVE  Condemned(n, what) \subseteq Works
BY DEF Condemned

-----------------------------------------------------------------------------
(* Names and commands.                                                     *)

LEMMA TypeStep ==
  ASSUME Inv, [Next]_vars
  PROVE  TypeOK'
<1> USE DEF Inv, TypeOK, NamesInv, CommandInv, Steps, ToolSteps, Renaming, Unarchiving,
   Archiving, Deleting, files, git, job, ghosts, Contents, Dumps, Blank, Tables, Broken
<1>1. ASSUME NEW n \in Names, NEW t \in Templated, New(n, t) PROVE TypeOK'
  BY <1>1 DEF New, Idle
<1>2. ASSUME NEW n \in Names, BeginCreate(n) PROVE TypeOK'
  BY <1>2 DEF BeginCreate, Begin, Idle
<1>3. ASSUME NEW n \in Names, NEW what \in {"keep", "discard"}, BeginUnarchive(n, what)
      PROVE  TypeOK'
  BY <1>3 DEF BeginUnarchive, Begin, Idle
<1>4. ASSUME NEW mcp \in BOOLEAN, NEW n \in Names, NEW what \in {"keep", "db", "all"},
             BeginArchive(n, what, mcp)
      PROVE  TypeOK'
  BY <1>4, CondemnedAreWorks DEF BeginArchive, Begin, Idle
<1>5. ASSUME NEW mcp \in BOOLEAN, NEW n \in Names, BeginDelete(n, mcp) PROVE TypeOK'
  BY <1>5, CondemnedAreWorks DEF BeginDelete, Begin, Idle
<1>6. ASSUME NEW mcp \in BOOLEAN, NEW n \in Names, NEW m \in Names, BeginRename(n, m, mcp)
      PROVE  TypeOK'
  BY <1>6 DEF BeginRename, Begin, Idle
<1>7. CASE AddWorktrees
  BY <1>7 DEF AddWorktrees, Continue
<1>8. CASE ProvisionVenv
  BY <1>8 DEF ProvisionVenv, Continue
<1>9. CASE CreateDb
  BY <1>9 DEF CreateDb, Continue
<1>10. CASE Configure
  BY <1>10 DEF Configure, Continue
<1>11. CASE WriteConf
  BY <1>11 DEF WriteConf, Continue, Finish
<1>12. CASE Unpack
  BY <1>12 DEF Unpack, Continue, Archives
<1>13. CASE Restore
  BY <1>13 DEF Restore, Restorable, Continue, Archives
<1>14. CASE Discard
  BY <1>14 DEF Discard, Finish
<1>15. CASE Dump
  BY <1>15 DEF Dump, Overwritten, Continue
<1>16. CASE DropArchived
  BY <1>16 DEF DropArchived, Continue
<1>17. CASE DetachArchived
  BY <1>17 DEF DetachArchived, Detach, Continue
<1>18. CASE UnproxyArchived
  BY <1>18 DEF UnproxyArchived, Continue
<1>19. CASE MoveToArchive
  BY <1>19 DEF MoveToArchive, DropDirectory, Finish, Archives
<1>20. CASE DetachDeleted
  BY <1>20 DEF DetachDeleted, Detach, Continue
<1>21. CASE DropDeleted
  BY <1>21 DEF DropDeleted, Continue
<1>22. CASE UnproxyDeleted
  BY <1>22 DEF UnproxyDeleted, Continue
<1>23. CASE RemoveDirectory
  BY <1>23 DEF RemoveDirectory, DropDirectory, Finish
<1>24. CASE RenameDb
  BY <1>24 DEF RenameDb, Continue
<1>25. CASE PatchToml
  BY <1>25 DEF PatchToml, Continue
<1>26. CASE MoveDirectory
  BY <1>26 DEF MoveDirectory, Moved, Continue
<1>27. CASE MoveProxy
  BY <1>27 DEF MoveProxy, Finish
<1>28. CASE Fail
  BY <1>28 DEF Fail, Finish, Refused, PastDump, Idle
<1>29. CASE DumpBreaks
  BY <1>29 DEF DumpBreaks, Overwritten, Finish
<1>30. CASE RestoreBreaks
  BY <1>30 DEF RestoreBreaks, Finish
<1>31. ASSUME NEW n \in Names, Start(n) PROVE TypeOK'
  BY <1>31 DEF Start, Dropped
<1>32. ASSUME NEW n \in Names, Stop(n) PROVE TypeOK'
  BY <1>32 DEF Stop
<1>33. ASSUME NEW n \in Names, NEW w \in Works, Work(n, w) PROVE TypeOK'
  BY <1>33 DEF Work, PastDump
<1>34. CASE UNCHANGED vars
  BY <1>34 DEF vars, InUse, Kept
<1>35. ASSUME CommandStep PROVE TypeOK'
  BY <1>35, <1>7, <1>8, <1>9, <1>10, <1>11, <1>12, <1>13, <1>14, <1>15, <1>16, <1>17,
     <1>18, <1>19, <1>20, <1>21, <1>22, <1>23, <1>24, <1>25, <1>26, <1>27, <1>28, <1>29,
     <1>30 DEF CommandStep
<1>36. QED
  BY <1>1, <1>2, <1>3, <1>4, <1>5, <1>6, <1>31, <1>32, <1>33, <1>34, <1>35 DEF Next

LEMMA NamesStep ==
  ASSUME Inv, [Next]_vars
  PROVE  NamesInv'
<1> USE DEF Inv, TypeOK, NamesInv, CommandInv, Steps, ToolSteps, Renaming, Unarchiving,
   Archiving, Deleting, files, git, job, ghosts, Contents, Dumps, Blank, Tables, Broken
<1>1. ASSUME NEW n \in Names, NEW t \in Templated, New(n, t) PROVE NamesInv'
  BY <1>1 DEF New, Idle
<1>2. ASSUME NEW n \in Names, BeginCreate(n) PROVE NamesInv'
  BY <1>2 DEF BeginCreate, Begin, Idle
<1>3. ASSUME NEW n \in Names, NEW what \in {"keep", "discard"}, BeginUnarchive(n, what)
      PROVE  NamesInv'
  BY <1>3 DEF BeginUnarchive, Begin, Idle
<1>4. ASSUME NEW mcp \in BOOLEAN, NEW n \in Names, NEW what \in {"keep", "db", "all"},
             BeginArchive(n, what, mcp)
      PROVE  NamesInv'
  BY <1>4, CondemnedAreWorks DEF BeginArchive, Begin, Idle
<1>5. ASSUME NEW mcp \in BOOLEAN, NEW n \in Names, BeginDelete(n, mcp) PROVE NamesInv'
  BY <1>5, CondemnedAreWorks DEF BeginDelete, Begin, Idle
<1>6. ASSUME NEW mcp \in BOOLEAN, NEW n \in Names, NEW m \in Names, BeginRename(n, m, mcp)
      PROVE  NamesInv'
  BY <1>6 DEF BeginRename, Begin, Idle
<1>7. CASE AddWorktrees
  BY <1>7 DEF AddWorktrees, Continue
<1>8. CASE ProvisionVenv
  BY <1>8 DEF ProvisionVenv, Continue
<1>9. CASE CreateDb
  BY <1>9 DEF CreateDb, Continue
<1>10. CASE Configure
  BY <1>10 DEF Configure, Continue
<1>11. CASE WriteConf
  BY <1>11 DEF WriteConf, Continue, Finish
<1>12. CASE Unpack
  BY <1>12 DEF Unpack, Continue, Archives
<1>13. CASE Restore
  BY <1>13 DEF Restore, Restorable, Continue, Archives
<1>14. CASE Discard
  BY <1>14 DEF Discard, Finish
<1>15. CASE Dump
  BY <1>15 DEF Dump, Overwritten, Continue
<1>16. CASE DropArchived
  BY <1>16 DEF DropArchived, Continue
<1>17. CASE DetachArchived
  BY <1>17 DEF DetachArchived, Detach, Continue
<1>18. CASE UnproxyArchived
  BY <1>18 DEF UnproxyArchived, Continue
<1>19. CASE MoveToArchive
  BY <1>19 DEF MoveToArchive, DropDirectory, Finish, Archives
<1>20. CASE DetachDeleted
  BY <1>20 DEF DetachDeleted, Detach, Continue
<1>21. CASE DropDeleted
  BY <1>21 DEF DropDeleted, Continue
<1>22. CASE UnproxyDeleted
  BY <1>22 DEF UnproxyDeleted, Continue
<1>23. CASE RemoveDirectory
  BY <1>23 DEF RemoveDirectory, DropDirectory, Finish
<1>24. CASE RenameDb
  BY <1>24 DEF RenameDb, Continue
<1>25. CASE PatchToml
  BY <1>25 DEF PatchToml, Continue
<1>26. CASE MoveDirectory
  BY <1>26 DEF MoveDirectory, Moved, Continue
<1>27. CASE MoveProxy
  BY <1>27 DEF MoveProxy, Finish
<1>28. CASE Fail
  BY <1>28 DEF Fail, Finish, Refused, PastDump, Idle
<1>29. CASE DumpBreaks
  BY <1>29 DEF DumpBreaks, Overwritten, Finish
<1>30. CASE RestoreBreaks
  BY <1>30 DEF RestoreBreaks, Finish
<1>31. ASSUME NEW n \in Names, Start(n) PROVE NamesInv'
  BY <1>31 DEF Start, Dropped
<1>32. ASSUME NEW n \in Names, Stop(n) PROVE NamesInv'
  BY <1>32 DEF Stop
<1>33. ASSUME NEW n \in Names, NEW w \in Works, Work(n, w) PROVE NamesInv'
  BY <1>33 DEF Work, PastDump
<1>34. CASE UNCHANGED vars
  BY <1>34 DEF vars, InUse, Kept
<1>35. ASSUME CommandStep PROVE NamesInv'
  BY <1>35, <1>7, <1>8, <1>9, <1>10, <1>11, <1>12, <1>13, <1>14, <1>15, <1>16, <1>17,
     <1>18, <1>19, <1>20, <1>21, <1>22, <1>23, <1>24, <1>25, <1>26, <1>27, <1>28, <1>29,
     <1>30 DEF CommandStep
<1>36. QED
  BY <1>1, <1>2, <1>3, <1>4, <1>5, <1>6, <1>31, <1>32, <1>33, <1>34, <1>35 DEF Next

LEMMA CommandInvStep ==
  ASSUME Inv, [Next]_vars
  PROVE  CommandInv'
<1> USE DEF Inv, TypeOK, NamesInv, CommandInv, Steps, ToolSteps, Renaming, Unarchiving,
   Archiving, Deleting, files, git, job, ghosts, Contents, Dumps, Blank, Tables, Broken
<1>1. ASSUME NEW n \in Names, NEW t \in Templated, New(n, t) PROVE CommandInv'
  BY <1>1 DEF New, Idle
<1>2. ASSUME NEW n \in Names, BeginCreate(n) PROVE CommandInv'
  BY <1>2 DEF BeginCreate, Begin, Idle
<1>3. ASSUME NEW n \in Names, NEW what \in {"keep", "discard"}, BeginUnarchive(n, what)
      PROVE  CommandInv'
  BY <1>3 DEF BeginUnarchive, Begin, Idle
<1>4. ASSUME NEW mcp \in BOOLEAN, NEW n \in Names, NEW what \in {"keep", "db", "all"},
             BeginArchive(n, what, mcp)
      PROVE  CommandInv'
  BY <1>4, CondemnedAreWorks DEF BeginArchive, Begin, Idle
<1>5. ASSUME NEW mcp \in BOOLEAN, NEW n \in Names, BeginDelete(n, mcp) PROVE CommandInv'
  BY <1>5, CondemnedAreWorks DEF BeginDelete, Begin, Idle
<1>6. ASSUME NEW mcp \in BOOLEAN, NEW n \in Names, NEW m \in Names, BeginRename(n, m, mcp)
      PROVE  CommandInv'
  BY <1>6 DEF BeginRename, Begin, Idle
<1>7. CASE AddWorktrees
  BY <1>7 DEF AddWorktrees, Continue
<1>8. CASE ProvisionVenv
  BY <1>8 DEF ProvisionVenv, Continue
<1>9. CASE CreateDb
  BY <1>9 DEF CreateDb, Continue
<1>10. CASE Configure
  BY <1>10 DEF Configure, Continue
<1>11. CASE WriteConf
  BY <1>11 DEF WriteConf, Continue, Finish
<1>12. CASE Unpack
  BY <1>12 DEF Unpack, Continue, Archives
<1>13. CASE Restore
  BY <1>13 DEF Restore, Restorable, Continue, Archives
<1>14. CASE Discard
  BY <1>14 DEF Discard, Finish
<1>15. CASE Dump
  BY <1>15 DEF Dump, Overwritten, Continue
<1>16. CASE DropArchived
  BY <1>16 DEF DropArchived, Continue
<1>17. CASE DetachArchived
  BY <1>17 DEF DetachArchived, Detach, Continue
<1>18. CASE UnproxyArchived
  BY <1>18 DEF UnproxyArchived, Continue
<1>19. CASE MoveToArchive
  BY <1>19 DEF MoveToArchive, DropDirectory, Finish, Archives
<1>20. CASE DetachDeleted
  BY <1>20 DEF DetachDeleted, Detach, Continue
<1>21. CASE DropDeleted
  BY <1>21 DEF DropDeleted, Continue
<1>22. CASE UnproxyDeleted
  BY <1>22 DEF UnproxyDeleted, Continue
<1>23. CASE RemoveDirectory
  BY <1>23 DEF RemoveDirectory, DropDirectory, Finish
<1>24. CASE RenameDb
  BY <1>24 DEF RenameDb, Continue
<1>25. CASE PatchToml
  BY <1>25 DEF PatchToml, Continue
<1>26. CASE MoveDirectory
  BY <1>26 DEF MoveDirectory, Moved, Continue
<1>27. CASE MoveProxy
  BY <1>27 DEF MoveProxy, Finish
<1>28. CASE Fail
  BY <1>28 DEF Fail, Finish, Refused, PastDump, Idle
<1>29. CASE DumpBreaks
  BY <1>29 DEF DumpBreaks, Overwritten, Finish
<1>30. CASE RestoreBreaks
  BY <1>30 DEF RestoreBreaks, Finish
<1>31. ASSUME NEW n \in Names, Start(n) PROVE CommandInv'
  BY <1>31 DEF Start, Dropped
<1>32. ASSUME NEW n \in Names, Stop(n) PROVE CommandInv'
  BY <1>32 DEF Stop
<1>33. ASSUME NEW n \in Names, NEW w \in Works, Work(n, w) PROVE CommandInv'
  BY <1>33 DEF Work, PastDump
<1>34. CASE UNCHANGED vars
  BY <1>34 DEF vars, InUse, Kept
<1>35. ASSUME CommandStep PROVE CommandInv'
  BY <1>35, <1>7, <1>8, <1>9, <1>10, <1>11, <1>12, <1>13, <1>14, <1>15, <1>16, <1>17,
     <1>18, <1>19, <1>20, <1>21, <1>22, <1>23, <1>24, <1>25, <1>26, <1>27, <1>28, <1>29,
     <1>30 DEF CommandStep
<1>36. QED
  BY <1>1, <1>2, <1>3, <1>4, <1>5, <1>6, <1>31, <1>32, <1>33, <1>34, <1>35 DEF Next

LEMMA InvInit == Init => Inv
BY DEF Init, Inv, TypeOK, NamesInv, CommandInv, Steps, ToolSteps, Renaming,
   Unarchiving, Archiving, Deleting

LEMMA InvHolds == Spec => []Inv
<1>1. Inv /\ [Next]_vars => Inv'
  BY TypeStep, NamesStep, CommandInvStep DEF Inv
<1>2. QED
  BY <1>1, InvInit, PTL DEF Spec

\* Provision keeps its types, and every step over an instance.toml finds one.
THEOREM TypeCorrect == Spec => []TypeOK
<1>1. Inv => TypeOK
  BY DEF Inv
<1>2. QED
  BY <1>1, InvHolds, PTL

\* No two instances ever have the same database: outside a rename, an
\* instance's database bears its own name.
THEOREM DatabasesApart == Spec => []OneInstancePerDatabase
<1>1. Inv => OneInstancePerDatabase
  BY DEF Inv, TypeOK, NamesInv, OneInstancePerDatabase, Renaming
<1>2. QED
  BY <1>1, InvHolds, PTL

-----------------------------------------------------------------------------
(* Proxy blocks and databases.                                             *)

LEMMA ProxyStep ==
  ASSUME Inv, ProxyInv, [Next]_vars
  PROVE  ProxyInv'
<1> USE DEF Inv, TypeOK, NamesInv, CommandInv, Steps, ToolSteps, Renaming, Unarchiving,
   Archiving, Deleting, files, git, job, ghosts, Contents, Dumps, Blank, Tables, Broken, ProxyInv
<1>1. ASSUME NEW n \in Names, NEW t \in Templated, New(n, t) PROVE ProxyInv'
  BY <1>1 DEF New, Idle
<1>2. ASSUME NEW n \in Names, BeginCreate(n) PROVE ProxyInv'
  BY <1>2 DEF BeginCreate, Begin, Idle
<1>3. ASSUME NEW n \in Names, NEW what \in {"keep", "discard"}, BeginUnarchive(n, what)
      PROVE  ProxyInv'
  BY <1>3 DEF BeginUnarchive, Begin, Idle
<1>4. ASSUME NEW mcp \in BOOLEAN, NEW n \in Names, NEW what \in {"keep", "db", "all"},
             BeginArchive(n, what, mcp)
      PROVE  ProxyInv'
  BY <1>4, CondemnedAreWorks DEF BeginArchive, Begin, Idle
<1>5. ASSUME NEW mcp \in BOOLEAN, NEW n \in Names, BeginDelete(n, mcp) PROVE ProxyInv'
  BY <1>5, CondemnedAreWorks DEF BeginDelete, Begin, Idle
<1>6. ASSUME NEW mcp \in BOOLEAN, NEW n \in Names, NEW m \in Names, BeginRename(n, m, mcp)
      PROVE  ProxyInv'
  BY <1>6 DEF BeginRename, Begin, Idle
<1>7. CASE AddWorktrees
  BY <1>7 DEF AddWorktrees, Continue
<1>8. CASE ProvisionVenv
  BY <1>8 DEF ProvisionVenv, Continue
<1>9. CASE CreateDb
  BY <1>9 DEF CreateDb, Continue
<1>10. CASE Configure
  BY <1>10 DEF Configure, Continue
<1>11. CASE WriteConf
  BY <1>11 DEF WriteConf, Continue, Finish
<1>12. CASE Unpack
  BY <1>12 DEF Unpack, Continue, Archives
<1>13. CASE Restore
  BY <1>13 DEF Restore, Restorable, Continue, Archives
<1>14. CASE Discard
  BY <1>14 DEF Discard, Finish
<1>15. CASE Dump
  BY <1>15 DEF Dump, Overwritten, Continue
<1>16. CASE DropArchived
  BY <1>16 DEF DropArchived, Continue
<1>17. CASE DetachArchived
  BY <1>17 DEF DetachArchived, Detach, Continue
<1>18. CASE UnproxyArchived
  BY <1>18 DEF UnproxyArchived, Continue
<1>19. CASE MoveToArchive
  BY <1>19 DEF MoveToArchive, DropDirectory, Finish, Archives
<1>20. CASE DetachDeleted
  BY <1>20 DEF DetachDeleted, Detach, Continue
<1>21. CASE DropDeleted
  BY <1>21 DEF DropDeleted, Continue
<1>22. CASE UnproxyDeleted
  BY <1>22 DEF UnproxyDeleted, Continue
<1>23. CASE RemoveDirectory
  BY <1>23 DEF RemoveDirectory, DropDirectory, Finish
<1>24. CASE RenameDb
  BY <1>24 DEF RenameDb, Continue
<1>25. CASE PatchToml
  BY <1>25 DEF PatchToml, Continue
<1>26. CASE MoveDirectory
  BY <1>26 DEF MoveDirectory, Moved, Continue
<1>27. CASE MoveProxy
  BY <1>27 DEF MoveProxy, Finish
<1>28. CASE Fail
  BY <1>28 DEF Fail, Finish, Refused, PastDump, Idle
<1>29. CASE DumpBreaks
  BY <1>29 DEF DumpBreaks, Overwritten, Finish
<1>30. CASE RestoreBreaks
  BY <1>30 DEF RestoreBreaks, Finish
<1>31. ASSUME NEW n \in Names, Start(n) PROVE ProxyInv'
  BY <1>31 DEF Start, Dropped
<1>32. ASSUME NEW n \in Names, Stop(n) PROVE ProxyInv'
  BY <1>32 DEF Stop
<1>33. ASSUME NEW n \in Names, NEW w \in Works, Work(n, w) PROVE ProxyInv'
  BY <1>33 DEF Work, PastDump
<1>34. CASE UNCHANGED vars
  BY <1>34 DEF vars, InUse, Kept
<1>35. ASSUME CommandStep PROVE ProxyInv'
  BY <1>35, <1>7, <1>8, <1>9, <1>10, <1>11, <1>12, <1>13, <1>14, <1>15, <1>16, <1>17,
     <1>18, <1>19, <1>20, <1>21, <1>22, <1>23, <1>24, <1>25, <1>26, <1>27, <1>28, <1>29,
     <1>30 DEF CommandStep
<1>36. QED
  BY <1>1, <1>2, <1>3, <1>4, <1>5, <1>6, <1>31, <1>32, <1>33, <1>34, <1>35 DEF Next

\* Whatever fails, no proxy block outlives the directory of its instance.
THEOREM ProxiesFollow == Spec => []NoGhostProxy
<1>1. Init => ProxyInv
  BY DEF Init, ProxyInv
<1>2. Inv /\ ProxyInv /\ [Next]_vars => ProxyInv'
  BY ProxyStep
<1>3. ProxyInv => NoGhostProxy
  BY DEF ProxyInv, NoGhostProxy
<1>4. QED
  BY <1>1, <1>2, <1>3, InvHolds, PTL DEF Spec

LEMMA DbStep ==
  ASSUME Inv, DbInv, [Next]_vars
  PROVE  DbInv'
<1> USE DEF Inv, TypeOK, NamesInv, CommandInv, Steps, ToolSteps, Renaming, Unarchiving,
   Archiving, Deleting, files, git, job, ghosts, Contents, Dumps, Blank, Tables, Broken, DbInv
<1>1. ASSUME NEW n \in Names, NEW t \in Templated, New(n, t) PROVE DbInv'
  BY <1>1 DEF New, Idle
<1>2. ASSUME NEW n \in Names, BeginCreate(n) PROVE DbInv'
  BY <1>2 DEF BeginCreate, Begin, Idle
<1>3. ASSUME NEW n \in Names, NEW what \in {"keep", "discard"}, BeginUnarchive(n, what)
      PROVE  DbInv'
  BY <1>3 DEF BeginUnarchive, Begin, Idle
<1>4. ASSUME NEW mcp \in BOOLEAN, NEW n \in Names, NEW what \in {"keep", "db", "all"},
             BeginArchive(n, what, mcp)
      PROVE  DbInv'
  BY <1>4, CondemnedAreWorks DEF BeginArchive, Begin, Idle
<1>5. ASSUME NEW mcp \in BOOLEAN, NEW n \in Names, BeginDelete(n, mcp) PROVE DbInv'
  BY <1>5, CondemnedAreWorks DEF BeginDelete, Begin, Idle
<1>6. ASSUME NEW mcp \in BOOLEAN, NEW n \in Names, NEW m \in Names, BeginRename(n, m, mcp)
      PROVE  DbInv'
  BY <1>6 DEF BeginRename, Begin, Idle
<1>7. CASE AddWorktrees
  BY <1>7 DEF AddWorktrees, Continue
<1>8. CASE ProvisionVenv
  BY <1>8 DEF ProvisionVenv, Continue
<1>9. CASE CreateDb
  BY <1>9 DEF CreateDb, Continue
<1>10. CASE Configure
  BY <1>10 DEF Configure, Continue
<1>11. CASE WriteConf
  BY <1>11 DEF WriteConf, Continue, Finish
<1>12. CASE Unpack
  BY <1>12 DEF Unpack, Continue, Archives
<1>13. CASE Restore
  BY <1>13 DEF Restore, Restorable, Continue, Archives
<1>14. CASE Discard
  BY <1>14 DEF Discard, Finish
<1>15. CASE Dump
  BY <1>15 DEF Dump, Overwritten, Continue
<1>16. CASE DropArchived
  BY <1>16 DEF DropArchived, Continue
<1>17. CASE DetachArchived
  BY <1>17 DEF DetachArchived, Detach, Continue
<1>18. CASE UnproxyArchived
  BY <1>18 DEF UnproxyArchived, Continue
<1>19. CASE MoveToArchive
  BY <1>19 DEF MoveToArchive, DropDirectory, Finish, Archives
<1>20. CASE DetachDeleted
  BY <1>20 DEF DetachDeleted, Detach, Continue
<1>21. CASE DropDeleted
  BY <1>21 DEF DropDeleted, Continue
<1>22. CASE UnproxyDeleted
  BY <1>22 DEF UnproxyDeleted, Continue
<1>23. CASE RemoveDirectory
  BY <1>23 DEF RemoveDirectory, DropDirectory, Finish
<1>24. CASE RenameDb
  BY <1>24 DEF RenameDb, Continue
<1>25. CASE PatchToml
  BY <1>25 DEF PatchToml, Continue
<1>26. CASE MoveDirectory
  BY <1>26 DEF MoveDirectory, Moved, Continue
<1>27. CASE MoveProxy
  BY <1>27 DEF MoveProxy, Finish
<1>28. CASE Fail
  BY <1>28 DEF Fail, Finish, Refused, PastDump, Idle
<1>29. CASE DumpBreaks
  BY <1>29 DEF DumpBreaks, Overwritten, Finish
<1>30. CASE RestoreBreaks
  BY <1>30 DEF RestoreBreaks, Finish
<1>31. ASSUME NEW n \in Names, Start(n) PROVE DbInv'
  BY <1>31 DEF Start, Dropped
<1>32. ASSUME NEW n \in Names, Stop(n) PROVE DbInv'
  BY <1>32 DEF Stop
<1>33. ASSUME NEW n \in Names, NEW w \in Works, Work(n, w) PROVE DbInv'
  BY <1>33 DEF Work, PastDump
<1>34. CASE UNCHANGED vars
  BY <1>34 DEF vars, InUse, Kept
<1>35. ASSUME CommandStep PROVE DbInv'
  BY <1>35, <1>7, <1>8, <1>9, <1>10, <1>11, <1>12, <1>13, <1>14, <1>15, <1>16, <1>17,
     <1>18, <1>19, <1>20, <1>21, <1>22, <1>23, <1>24, <1>25, <1>26, <1>27, <1>28, <1>29,
     <1>30 DEF CommandStep
<1>36. QED
  BY <1>1, <1>2, <1>3, <1>4, <1>5, <1>6, <1>31, <1>32, <1>33, <1>34, <1>35 DEF Next

LEMMA DbInit == Init => DbInv
BY DEF Init, DbInv

\* Whatever fails, the only database that outlives the toml that names it is
\* one that Odoo made, started on the instance of a command that had dropped or
\* renamed its database and not come to its toml.
THEOREM DatabasesOwned == Spec => []NoOrphanDatabase
<1>1. Inv /\ DbInv /\ [Next]_vars => DbInv'
  BY DbStep
<1>2. Inv /\ DbInv => NoOrphanDatabase
  BY DEF Inv, TypeOK, NamesInv, DbInv, NoOrphanDatabase, Renaming
<1>3. QED
  BY <1>1, <1>2, DbInit, InvHolds, PTL DEF Spec

-----------------------------------------------------------------------------
(* Work.                                                                   *)

LEMMA WorkStep ==
  ASSUME WorkSafe, [Next]_vars
  PROVE  WorkInv'
<1> USE DEF Inv, TypeOK, NamesInv, CommandInv, Steps, ToolSteps, Renaming, Unarchiving,
   Archiving, Deleting, files, git, job, ghosts, Contents, Dumps, Blank, Tables, Broken,
   WorkSafe, WorkInv, Condemned
<1>1. ASSUME NEW n \in Names, NEW t \in Templated, New(n, t) PROVE WorkInv'
  BY <1>1 DEF New, Idle
<1>2. ASSUME NEW n \in Names, BeginCreate(n) PROVE WorkInv'
  BY <1>2 DEF BeginCreate, Begin, Idle
<1>3. ASSUME NEW n \in Names, NEW what \in {"keep", "discard"}, BeginUnarchive(n, what)
      PROVE  WorkInv'
  BY <1>3 DEF BeginUnarchive, Begin, Idle
<1>4. ASSUME NEW mcp \in BOOLEAN, NEW n \in Names, NEW what \in {"keep", "db", "all"},
             BeginArchive(n, what, mcp)
      PROVE  WorkInv'
  BY <1>4, CondemnedAreWorks DEF BeginArchive, Begin, Idle
<1>5. ASSUME NEW mcp \in BOOLEAN, NEW n \in Names, BeginDelete(n, mcp) PROVE WorkInv'
  BY <1>5, CondemnedAreWorks DEF BeginDelete, Begin, Idle
<1>6. ASSUME NEW mcp \in BOOLEAN, NEW n \in Names, NEW m \in Names, BeginRename(n, m, mcp)
      PROVE  WorkInv'
  BY <1>6 DEF BeginRename, Begin, Idle
<1>7. CASE AddWorktrees
  BY <1>7 DEF AddWorktrees, Continue
<1>8. CASE ProvisionVenv
  BY <1>8 DEF ProvisionVenv, Continue
<1>9. CASE CreateDb
  BY <1>9 DEF CreateDb, Continue
<1>10. CASE Configure
  BY <1>10 DEF Configure, Continue
<1>11. CASE WriteConf
  BY <1>11 DEF WriteConf, Continue, Finish
<1>12. CASE Unpack
  BY <1>12 DEF Unpack, Continue, Archives
<1>13. CASE Restore
  BY <1>13 DEF Restore, Restorable, Continue, Archives
<1>14. CASE Discard
  BY <1>14 DEF Discard, Finish
<1>15. CASE Dump
  BY <1>15 DEF Dump, Overwritten, Continue
<1>16. CASE DropArchived
  BY <1>16 DEF DropArchived, Continue
<1>17. CASE DetachArchived
  BY <1>17 DEF DetachArchived, Detach, Continue
<1>18. CASE UnproxyArchived
  BY <1>18 DEF UnproxyArchived, Continue
<1>19. CASE MoveToArchive
  BY <1>19 DEF MoveToArchive, DropDirectory, Finish, Archives
<1>20. CASE DetachDeleted
  BY <1>20 DEF DetachDeleted, Detach, Continue
<1>21. CASE DropDeleted
  BY <1>21 DEF DropDeleted, Continue
<1>22. CASE UnproxyDeleted
  BY <1>22 DEF UnproxyDeleted, Continue
<1>23. CASE RemoveDirectory
  BY <1>23 DEF RemoveDirectory, DropDirectory, Finish
<1>24. CASE RenameDb
  BY <1>24 DEF RenameDb, Continue
<1>25. CASE PatchToml
  BY <1>25 DEF PatchToml, Continue
<1>26. CASE MoveDirectory
  BY <1>26 DEF MoveDirectory, Moved, Continue
<1>27. CASE MoveProxy
  BY <1>27 DEF MoveProxy, Finish
<1>28. CASE Fail
  BY <1>28 DEF Fail, Finish, Refused, PastDump, Idle
<1>29. CASE DumpBreaks
  BY <1>29 DEF DumpBreaks, Overwritten, Finish
<1>30. CASE RestoreBreaks
  BY <1>30 DEF RestoreBreaks, Finish
<1>31. ASSUME NEW n \in Names, Start(n) PROVE WorkInv'
  BY <1>31 DEF Start, Dropped
<1>32. ASSUME NEW n \in Names, Stop(n) PROVE WorkInv'
  BY <1>32 DEF Stop
<1>33. ASSUME NEW n \in Names, NEW w \in Works, Work(n, w) PROVE WorkInv'
  BY <1>33 DEF Work, PastDump
<1>34. CASE UNCHANGED vars
  BY <1>34 DEF vars, InUse, Kept
<1>35. ASSUME CommandStep PROVE WorkInv'
  BY <1>35, <1>7, <1>8, <1>9, <1>10, <1>11, <1>12, <1>13, <1>14, <1>15, <1>16, <1>17,
     <1>18, <1>19, <1>20, <1>21, <1>22, <1>23, <1>24, <1>25, <1>26, <1>27, <1>28, <1>29,
     <1>30 DEF CommandStep
<1>36. QED
  BY <1>1, <1>2, <1>3, <1>4, <1>5, <1>6, <1>31, <1>32, <1>33, <1>34, <1>35 DEF Next

LEMMA LossStep ==
  ASSUME WorkSafe, [Next]_vars
  PROVE  NoSilentLoss'
<1> USE DEF Inv, TypeOK, NamesInv, CommandInv, Steps, ToolSteps, Renaming, Unarchiving,
   Archiving, Deleting, files, git, job, ghosts, Contents, Dumps, Blank, Tables, Broken,
   WorkSafe, WorkInv, NoSilentLoss, Kept, Condemned
<1>1. ASSUME NEW n \in Names, NEW t \in Templated, New(n, t) PROVE NoSilentLoss'
  BY <1>1 DEF New, Idle
<1>2. ASSUME NEW n \in Names, BeginCreate(n) PROVE NoSilentLoss'
  BY <1>2 DEF BeginCreate, Begin, Idle
<1>3. ASSUME NEW n \in Names, NEW what \in {"keep", "discard"}, BeginUnarchive(n, what)
      PROVE  NoSilentLoss'
  BY <1>3 DEF BeginUnarchive, Begin, Idle
<1>4. ASSUME NEW mcp \in BOOLEAN, NEW n \in Names, NEW what \in {"keep", "db", "all"},
             BeginArchive(n, what, mcp)
      PROVE  NoSilentLoss'
  BY <1>4, CondemnedAreWorks DEF BeginArchive, Begin, Idle
<1>5. ASSUME NEW mcp \in BOOLEAN, NEW n \in Names, BeginDelete(n, mcp) PROVE NoSilentLoss'
  BY <1>5, CondemnedAreWorks DEF BeginDelete, Begin, Idle
<1>6. ASSUME NEW mcp \in BOOLEAN, NEW n \in Names, NEW m \in Names, BeginRename(n, m, mcp)
      PROVE  NoSilentLoss'
  BY <1>6 DEF BeginRename, Begin, Idle
<1>7. CASE AddWorktrees
  BY <1>7 DEF AddWorktrees, Continue
<1>8. CASE ProvisionVenv
  BY <1>8 DEF ProvisionVenv, Continue
<1>9. CASE CreateDb
  BY <1>9 DEF CreateDb, Continue
<1>10. CASE Configure
  BY <1>10 DEF Configure, Continue
<1>11. CASE WriteConf
  BY <1>11 DEF WriteConf, Continue, Finish
<1>12. CASE Unpack
  BY <1>12 DEF Unpack, Continue, Archives
<1>13. CASE Restore
  BY <1>13 DEF Restore, Restorable, Continue, Archives
<1>14. CASE Discard
  BY <1>14 DEF Discard, Finish
<1>15. CASE Dump
  BY <1>15 DEF Dump, Overwritten, Continue
<1>16. CASE DropArchived
  BY <1>16 DEF DropArchived, Continue
<1>17. CASE DetachArchived
  BY <1>17 DEF DetachArchived, Detach, Continue
<1>18. CASE UnproxyArchived
  BY <1>18 DEF UnproxyArchived, Continue
<1>19. CASE MoveToArchive
  <2> SUFFICES ASSUME NEW w \in made' \ (given' \cup exposed') PROVE Kept(w)'
    BY DEF NoSilentLoss
  <2> USE <1>19 DEF MoveToArchive, DropDirectory, Finish
  <2>1. w \in Works /\ w # None /\ w \notin given \cup exposed
    OBVIOUS
  <2>2. Kept(w)
    BY <2>1 DEF NoSilentLoss
  <2>3. PICK n \in Names : w \in {db[n], dump[n]} \/ (arch[n] # None /\ arch[n].dump = w)
    BY <2>2 DEF Kept
  <2>4. CASE n = name /\ w = dump[n]
    <3>1. mode # "all"
      BY <2>1, <2>4 DEF WorkInv
    <3>2. arch'[name] = [db |-> toml[name], tmpl |-> name \in tmpl, dump |-> w]
      BY <2>4, <3>1
    <3>3. arch'[name] \in Archives
      BY <2>1, <2>4, <3>2 DEF Archives
    <3>4. arch'[name] # None
      BY <3>3
    <3>5. arch'[name].dump = w
      BY <3>2
    <3>6. QED
      BY <2>4, <3>4, <3>5 DEF Kept
  <2>5. CASE n # name \/ w # dump[n]
    <3>1. w \in {db'[n], dump'[n]} \/ (arch'[n] # None /\ arch'[n].dump = w)
      BY <2>3, <2>5
    <3>2. QED
      BY <3>1 DEF Kept
  <2>6. QED
    BY <2>4, <2>5
<1>20. CASE DetachDeleted
  BY <1>20 DEF DetachDeleted, Detach, Continue
<1>21. CASE DropDeleted
  BY <1>21 DEF DropDeleted, Continue
<1>22. CASE UnproxyDeleted
  BY <1>22 DEF UnproxyDeleted, Continue
<1>23. CASE RemoveDirectory
  BY <1>23 DEF RemoveDirectory, DropDirectory, Finish
<1>24. CASE RenameDb
  BY <1>24 DEF RenameDb, Continue
<1>25. CASE PatchToml
  BY <1>25 DEF PatchToml, Continue
<1>26. CASE MoveDirectory
  BY <1>26 DEF MoveDirectory, Moved, Continue
<1>27. CASE MoveProxy
  BY <1>27 DEF MoveProxy, Finish
<1>28. CASE Fail
  BY <1>28 DEF Fail, Finish, Refused, PastDump, Idle
<1>29. CASE DumpBreaks
  BY <1>29 DEF DumpBreaks, Overwritten, Finish
<1>30. CASE RestoreBreaks
  BY <1>30 DEF RestoreBreaks, Finish
<1>31. ASSUME NEW n \in Names, Start(n) PROVE NoSilentLoss'
  BY <1>31 DEF Start, Dropped
<1>32. ASSUME NEW n \in Names, Stop(n) PROVE NoSilentLoss'
  BY <1>32 DEF Stop
<1>33. ASSUME NEW n \in Names, NEW w \in Works, Work(n, w) PROVE NoSilentLoss'
  BY <1>33 DEF Work, PastDump
<1>34. CASE UNCHANGED vars
  BY <1>34 DEF vars, InUse, Kept
<1>35. ASSUME CommandStep PROVE NoSilentLoss'
  BY <1>35, <1>7, <1>8, <1>9, <1>10, <1>11, <1>12, <1>13, <1>14, <1>15, <1>16, <1>17,
     <1>18, <1>19, <1>20, <1>21, <1>22, <1>23, <1>24, <1>25, <1>26, <1>27, <1>28, <1>29,
     <1>30 DEF CommandStep
<1>36. QED
  BY <1>1, <1>2, <1>3, <1>4, <1>5, <1>6, <1>31, <1>32, <1>33, <1>34, <1>35 DEF Next

\* No work is ever lost that users have not agreed to lose, whichever tool fails
\* and wherever a command is killed: but for work that Odoo took after the
\* command had dumped the database or had asked, and for a dump that a failed
\* archive left and the next one writes over.
THEOREM NothingLost == Spec => []NoSilentLoss
<1>1. Init => WorkSafe
  <2>1. Init => WorkInv /\ NoSilentLoss
    BY DEF Init, WorkInv, NoSilentLoss, Archiving, Deleting
  <2>2. QED
    BY <2>1, InvInit DEF WorkSafe
<1>2. WorkSafe /\ [Next]_vars => WorkSafe'
  <2> SUFFICES ASSUME WorkSafe, [Next]_vars PROVE WorkSafe'
    OBVIOUS
  <2>1. Inv'
    BY TypeStep, NamesStep, CommandInvStep DEF WorkSafe, Inv
  <2>2. WorkInv' /\ NoSilentLoss'
    BY WorkStep, LossStep
  <2>3. QED
    BY <2>1, <2>2 DEF WorkSafe
<1>3. WorkSafe => NoSilentLoss
  BY DEF WorkSafe
<1>4. QED
  BY <1>1, <1>2, <1>3, PTL DEF Spec

=============================================================================
