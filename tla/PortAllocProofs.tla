--------------------------- MODULE PortAllocProofs ---------------------------
(***************************************************************************)
(* Who holds which ports: theorems about PortAlloc, for every range, every *)
(* set of instances, of clients and of ports users may pin, whatever runs  *)
(* at the same time.                                                       *)
(***************************************************************************)
EXTENDS PortAlloc, PortsProofs

USE RangeAssumption, DefaultAssumption, PinsAssumption, ForceAssumption,
    NoNameAssumption

LEMMA TomlPortsAreInt ==
  /\ TomlPorts \subseteq Int
  /\ \A t \in TomlPorts \ {Absent} : t \in Nat /\ Pair(t) \subseteq Nat
  /\ NoPort \in TomlPorts \ {Absent} /\ DefaultPort \in TomlPorts \ {Absent}
  /\ Pins \subseteq TomlPorts \ {Absent} /\ HttpPorts \subseteq TomlPorts \ {Absent}
  /\ Absent \in TomlPorts
BY DEF TomlPorts, HttpPorts, Absent, NoPort, Pair

LEMMA MissedType ==
  ASSUME TypeOK, NEW ns \in SUBSET Names
  PROVE  Missed(ns) \in [Clients -> SUBSET Names]
BY DEF TypeOK, Missed

\* PortAlloc keeps its types; every port create assigns lies in the range.
THEOREM TypeCorrect == Spec => []TypeOK
<1>1. Init => TypeOK
  BY TomlPortsAreInt DEF Init, TypeOK, Checks
<1>2. TypeOK /\ [Next]_vars => TypeOK'
  <2> SUFFICES ASSUME TypeOK, [Next]_vars PROVE TypeOK'
    OBVIOUS
  <2> USE TomlPortsAreInt
  <2> USE DEF TypeOK, creates, files
  <2>0. \A ns \in SUBSET Names : Missed(ns) \in [Clients -> SUBSET Names]
    BY MissedType
  <2>1. ASSUME NEW c \in Clients, CreateStep(c) PROVE TypeOK'
    <3>1. ASSUME NEW n \in Names, CreateBegin(c, n) PROVE TypeOK'
      BY <3>1 DEF CreateBegin
    <3>2. CASE ListTomls(c)
      BY <3>2 DEF ListTomls
    <3>3. CASE ScanToml(c)
      <4>1. PICK m \in todo[c] :
              /\ todo' = [todo EXCEPT ![c] = @ \ {m}]
              /\ seen' = [seen EXCEPT ![c] = IF toml[m] = Absent THEN @ ELSE @ \cup Pair(toml[m])]
        BY <3>3 DEF ScanToml
      <4>2. m \in Names /\ (toml[m] # Absent => Pair(toml[m]) \in SUBSET Nat)
        OBVIOUS
      <4>3. seen' \in [Clients -> SUBSET Nat] /\ todo' \in [Clients -> SUBSET Names]
        BY <4>1, <4>2
      <4>4. QED
        BY <3>3, <4>3 DEF ScanToml
    <3>4. CASE AssignPin(c)
      <4>1. checked' \in [Names -> Checks]
        BY <3>4 DEF AssignPin, Checks
      <4>2. missed' \in [Clients -> SUBSET Names]
        BY <3>4 DEF AssignPin
      <4>3. pc' \in [Clients -> {"idle", "list", "scan", "provision", "conf"}]
            /\ seen' \in [Clients -> SUBSET Nat] /\ pc[c] # "idle"
        BY <3>4 DEF AssignPin, Decide, Scanned
      <4>4. QED
        BY <3>4, <4>1, <4>2, <4>3 DEF AssignPin, Decide
    <3>5. CASE AssignFresh(c)
      <4>1. AssignPort(seen[c]) \in HttpPorts
        BY <3>5, AssignPortIsLowest DEF AssignFresh
      <4>2. who[c] \in Names /\ pc[c] # "idle"
        BY <3>5 DEF AssignFresh, Scanned
      <4>3. missed' \in [Clients -> SUBSET Names]
        BY <3>5, <4>2, <2>0 DEF AssignFresh, Rewritten
      <4>4. checked' \in [Names -> Checks]
        BY <3>5 DEF AssignFresh, Checks
      <4>5. pc' \in [Clients -> {"idle", "list", "scan", "provision", "conf"}]
            /\ seen' \in [Clients -> SUBSET Nat]
        BY <3>5 DEF AssignFresh, Decide
      <4>6. QED
        BY <3>5, <4>1, <4>2, <4>3, <4>4, <4>5 DEF AssignFresh, Decide
    <3>6. CASE AssignFails(c)
      BY <3>6 DEF AssignFails, Finish
    <3>7. CASE WriteProxy(c)
      BY <3>7 DEF WriteProxy
    <3>8. CASE WriteConf(c)
      BY <3>8 DEF WriteConf, Finish
    <3>9. CASE LeaveConf(c)
      BY <3>9 DEF LeaveConf, Finish
    <3>10. CASE ProvisionFails(c)
      BY <3>10 DEF ProvisionFails, Finish
    <3>11. QED
      BY <2>1, <3>1, <3>2, <3>3, <3>4, <3>5, <3>6, <3>7, <3>8, <3>9, <3>10 DEF CreateStep
  <2>2. ASSUME NEW n \in Names, NEW f \in ForceFlags, New(n, f) PROVE TypeOK'
    BY <2>0, <2>2 DEF New, Writes, Checks
  <2>3. ASSUME NEW n \in Names, NEW p \in Pins, PinPort(n, p) PROVE TypeOK'
    BY <2>0, <2>3 DEF PinPort, Writes, Checks
  <2>4. ASSUME NEW n \in Names, RegenConf(n) PROVE TypeOK'
    BY <2>4 DEF RegenConf
  <2>5. ASSUME NEW n \in Names, Remove(n) PROVE TypeOK'
    BY <2>0, <2>5 DEF Remove, Writes, Checks
  <2>6. ASSUME NEW n \in Names, Unarchive(n) PROVE TypeOK'
    BY <2>0, <2>6 DEF Unarchive, Writes, Checks
  <2>7. ASSUME NEW n \in Names, NEW m \in Names, Rename(n, m) PROVE TypeOK'
    BY <2>0, <2>7 DEF Rename, Writes, Checks
  <2>8. CASE UNCHANGED vars
    BY <2>8 DEF vars
  <2>9. QED
    BY <2>1, <2>2, <2>3, <2>4, <2>5, <2>6, <2>7, <2>8 DEF Next
<1>3. QED
  BY <1>1, <1>2, PTL DEF Spec

-----------------------------------------------------------------------------
(* What a create under way knows.                                          *)

Others(c) == Names \ {who[c]}

\* Unless its own toml was written behind its back it has that toml's port at
\* hand; and unless any toml was that it had read or listed, what it has
\* collected is what the tomls it has read, or not met, claim now.
Knows(c) ==
  /\ pc[c] \in {"idle", "list"} => seen[c] = {}
  /\ pc[c] # "idle" /\ who[c] \notin missed[c] =>
       toml[who[c]] = pin[c] /\ toml[who[c]] # Absent
  /\ pc[c] = "scan" /\ missed[c] = {} =>
       todo[c] \subseteq Others(c) /\ seen[c] = Claimed(Others(c) \ todo[c])

CreateInv == \A c \in Clients : Knows(c)

\* Whoever writes the tomls of the names ns, a client that does not move knows
\* what it knew, or has missed one of them.
LEMMA WritesKeepKnows ==
  ASSUME TypeOK, NEW c \in Clients, Knows(c), NEW ns \in SUBSET Names,
         pc'[c] = pc[c], who'[c] = who[c], pin'[c] = pin[c],
         todo'[c] = todo[c], seen'[c] = seen[c],
         missed'[c] = missed[c] \cup {n \in ns : HasRead(c, n)},
         \A n \in Names \ ns : toml'[n] = toml[n]
  PROVE  Knows(c)'
<1> USE DEF TypeOK
<1>1. ASSUME pc[c] # "idle", who[c] \notin missed'[c]
      PROVE  toml'[who[c]] = pin[c] /\ toml'[who[c]] # Absent
  <2>1. who[c] \notin ns /\ who[c] \in Names
    BY <1>1 DEF HasRead
  <2>2. QED
    BY <1>1, <2>1 DEF Knows
<1>2. ASSUME pc[c] = "scan", missed'[c] = {}
      PROVE  todo[c] \subseteq Others(c) /\ seen[c] = Claimed(Others(c) \ todo[c])'
  <2>1. \A n \in ns : n \in todo[c]
    BY <1>2 DEF HasRead
  <2>2. \A n \in Others(c) \ todo[c] : toml'[n] = toml[n]
    BY <2>1 DEF Others
  <2>3. (Others(c) \ todo[c])' = Others(c) \ todo[c]
    BY DEF Others
  <2>4. todo[c] \subseteq Others(c) /\ seen[c] = Claimed(Others(c) \ todo[c])
    BY <1>2 DEF Knows
  <2>5. QED
    BY <2>2, <2>3, <2>4 DEF Claimed
<1>3. QED
  BY <1>1, <1>2 DEF Knows, Others

\* Nothing it has to do with has changed.
LEMMA StillKnows ==
  ASSUME TypeOK, NEW c \in Clients, Knows(c), toml' = toml,
         pc'[c] = pc[c], who'[c] = who[c], pin'[c] = pin[c],
         todo'[c] = todo[c], seen'[c] = seen[c], missed'[c] = missed[c]
  PROVE  Knows(c)'
<1>1. missed'[c] = missed[c] \cup {n \in {} : HasRead(c, n)}
  OBVIOUS
<1>2. QED
  BY <1>1, WritesKeepKnows

LEMMA InitCreateInv == Init => CreateInv
BY DEF Init, CreateInv, Knows

LEMMA CreateInvStep ==
  ASSUME TypeOK, CreateInv, [Next]_vars
  PROVE  CreateInv'
<1> USE DEF TypeOK
<1>0. \A c \in Clients : Knows(c)
  BY DEF CreateInv
<1>1. ASSUME NEW c \in Clients, CreateStep(c) PROVE CreateInv'
  <2>1. ASSUME NEW d \in Clients, d # c PROVE Knows(d)'
    <3>1. CASE AssignFresh(c)
      <4>1. /\ missed'[d] = missed[d] \cup {n \in {who[c]} : HasRead(d, n)}
            /\ \A n \in Names \ {who[c]} : toml'[n] = toml[n]
            /\ {who[c]} \in SUBSET Names
        BY <2>1, <3>1 DEF AssignFresh, Rewritten, Missed, Scanned
      <4>2. /\ pc'[d] = pc[d] /\ who'[d] = who[d] /\ pin'[d] = pin[d]
            /\ todo'[d] = todo[d] /\ seen'[d] = seen[d]
        BY <2>1, <3>1 DEF AssignFresh, Decide
      <4>3. QED
        BY <1>0, <4>1, <4>2, WritesKeepKnows
    <3>2. CASE ~AssignFresh(c)
      <4>1. /\ toml' = toml /\ pc'[d] = pc[d] /\ who'[d] = who[d] /\ pin'[d] = pin[d]
            /\ todo'[d] = todo[d] /\ seen'[d] = seen[d] /\ missed'[d] = missed[d]
        BY <1>1, <2>1, <3>2
        DEF CreateStep, CreateBegin, ListTomls, ScanToml, AssignPin, AssignFails, Decide,
            WriteProxy, ProvisionFails, WriteConf, LeaveConf, Finish, files
      <4>2. QED
        BY <1>0, <4>1, StillKnows
    <3>3. QED
      BY <3>1, <3>2
  <2>2. Knows(c)'
    <3>0. Knows(c)
      BY <1>0
    <3>1. ASSUME NEW n \in Names, CreateBegin(c, n) PROVE Knows(c)'
      BY <3>0, <3>1 DEF CreateBegin, Knows, files
    <3>2. CASE ListTomls(c)
      <4>1. /\ todo'[c] = {m \in Names \ {who[c]} : toml[m] # Absent}
            /\ toml' = toml /\ who' = who /\ pin' = pin /\ seen' = seen /\ missed' = missed
            /\ pc[c] = "list" /\ pc'[c] = "scan"
        BY <3>2 DEF ListTomls, files
      <4>2. todo'[c] \subseteq Others(c) /\ seen[c] = {}
        BY <3>0, <4>1 DEF Others, Knows
      <4>3. Claimed(Others(c) \ todo[c])' = {}
        BY <4>1 DEF Claimed, Others
      <4>4. QED
        BY <3>0, <4>1, <4>2, <4>3 DEF Knows, Others
    <3>3. CASE ScanToml(c)
      <4>1. PICK m \in todo[c] :
              /\ todo' = [todo EXCEPT ![c] = @ \ {m}]
              /\ seen' = [seen EXCEPT ![c] = IF toml[m] = Absent THEN @ ELSE @ \cup Pair(toml[m])]
        BY <3>3 DEF ScanToml
      <4>2. UNCHANGED <<toml, pc, who, pin, missed>> /\ pc[c] = "scan"
        BY <3>3 DEF ScanToml, files
      <4>3. ASSUME missed[c] = {}
            PROVE  todo'[c] \subseteq Others(c)' /\ seen'[c] = Claimed(Others(c) \ todo[c])'
        <5>1. m \in Others(c) /\ todo[c] \subseteq Others(c)
              /\ seen[c] = Claimed(Others(c) \ todo[c])
          BY <3>0, <4>2, <4>3 DEF Knows
        <5>2. Others(c) \ (todo[c] \ {m}) = (Others(c) \ todo[c]) \cup {m}
          BY <5>1
        <5>3. Claimed((Others(c) \ todo[c]) \cup {m}) =
                IF toml[m] = Absent THEN seen[c] ELSE seen[c] \cup Pair(toml[m])
          BY <5>1 DEF Claimed
        <5>4. todo'[c] = todo[c] \ {m}
              /\ seen'[c] = IF toml[m] = Absent THEN seen[c] ELSE seen[c] \cup Pair(toml[m])
          BY <4>1
        <5>5. Claimed(Others(c) \ todo[c])' = Claimed(Others(c) \ (todo[c] \ {m}))
          BY <4>2, <5>4 DEF Claimed, Others
        <5>6. Others(c)' = Others(c)
          BY <4>2 DEF Others
        <5>7. seen'[c] = Claimed(Others(c) \ todo[c])'
          BY <5>2, <5>3, <5>4, <5>5
        <5>8. QED
          BY <5>1, <5>4, <5>6, <5>7
      <4>4. QED
        BY <3>0, <4>2, <4>3 DEF Knows
    <3>4. CASE AssignPin(c)
      BY <3>0, <3>4 DEF AssignPin, Decide, Scanned, Knows, files
    <3>5. CASE AssignFresh(c)
      <4>1. AssignPort(seen[c]) \in HttpPorts /\ who[c] \in Names
        BY <3>5, AssignPortIsLowest DEF AssignFresh, Scanned
      <4>2. pin'[c] = AssignPort(seen[c]) /\ toml'[who[c]] = AssignPort(seen[c])
            /\ who' = who /\ pc'[c] = "provision"
        BY <3>5, <4>1 DEF AssignFresh, Decide
      <4>3. AssignPort(seen[c]) # Absent
        BY <4>1, TomlPortsAreInt
      <4>4. QED
        BY <4>2, <4>3 DEF Knows
    <3>6. CASE WriteProxy(c)
      BY <3>0, <3>6 DEF WriteProxy, Knows, files
    <3>7. CASE AssignFails(c) \/ ProvisionFails(c) \/ WriteConf(c) \/ LeaveConf(c)
      <4>1. pc'[c] = "idle" /\ seen'[c] = {}
        BY <3>7 DEF AssignFails, ProvisionFails, WriteConf, LeaveConf, Finish
      <4>2. QED
        BY <4>1 DEF Knows
    <3>8. QED
      BY <1>1, <3>1, <3>2, <3>3, <3>4, <3>5, <3>6, <3>7 DEF CreateStep
  <2>3. QED
    BY <2>1, <2>2 DEF CreateInv
<1>2. ASSUME NEW ns \in SUBSET Names, Writes(ns), UNCHANGED creates,
             \A n \in Names \ ns : toml'[n] = toml[n]
      PROVE  CreateInv'
  <2> SUFFICES ASSUME NEW c \in Clients PROVE Knows(c)'
    BY DEF CreateInv
  <2>1. missed'[c] = missed[c] \cup {n \in ns : HasRead(c, n)}
    BY <1>2 DEF Writes, Missed
  <2>2. QED
    BY <1>0, <1>2, <2>1, WritesKeepKnows DEF creates
<1>3. ASSUME NEW n \in Names, \/ \E f \in ForceFlags : New(n, f)
                              \/ \E p \in Pins : PinPort(n, p)
                              \/ Remove(n) \/ Unarchive(n)
      PROVE  CreateInv'
  <2>1. {n} \in SUBSET Names /\ Writes({n}) /\ UNCHANGED creates
        /\ \A k \in Names \ {n} : toml'[k] = toml[k]
    BY <1>3 DEF New, PinPort, Remove, Unarchive
  <2>2. QED
    BY <1>2, <2>1
<1>4. ASSUME NEW n \in Names, NEW m \in Names, Rename(n, m) PROVE CreateInv'
  <2>1. {n, m} \in SUBSET Names /\ Writes({n, m}) /\ UNCHANGED creates
        /\ \A k \in Names \ {n, m} : toml'[k] = toml[k]
    BY <1>4 DEF Rename
  <2>2. QED
    BY <1>2, <2>1
<1>5. CASE UNCHANGED vars \/ \E n \in Names : RegenConf(n)
  <2>1. UNCHANGED <<toml, creates, missed>>
    BY <1>5 DEF vars, RegenConf, creates
  <2>2. QED
    BY <1>0, <2>1, StillKnows DEF CreateInv, creates
<1>6. QED
  BY <1>1, <1>3, <1>4, <1>5 DEF Next

THEOREM CreateCorrect == Spec => [](TypeOK /\ CreateInv)
<1>1. TypeOK /\ CreateInv /\ [Next]_vars => CreateInv'
  BY CreateInvStep
<1>2. QED
  BY <1>1, TypeCorrect, InitCreateInv, PTL DEF Spec

\* A create about to decide that has missed nothing knows all the claims.
LEMMA ScannedKnowsAll ==
  ASSUME TypeOK, CreateInv, NEW c \in Clients, Scanned(c), missed[c] = {}
  PROVE  /\ who[c] \in Names /\ toml[who[c]] = pin[c] /\ toml[who[c]] # Absent
         /\ seen[c] = Claimed(Others(c))
<1>1. pc[c] = "scan" /\ Others(c) \ todo[c] = Others(c) /\ Knows(c)
  BY DEF Scanned, CreateInv
<1>2. seen[c] = Claimed(Others(c) \ todo[c])
  BY <1>1 DEF Knows
<1>3. QED
  BY <1>1, <1>2 DEF Knows, TypeOK

\* A create that has missed no toml calls a range exhausted only when no pair
\* of it is free.
THEOREM ExhaustionCorrect == Spec => ExhaustedIsTrue
<1> DEFINE Fails == \A c \in Clients : AssignFails(c) /\ missed[c] = {} =>
                      \A n \in HttpPorts : ~PairFree(n, Claimed(Names \ {who[c]}))
<1>1. TypeOK /\ CreateInv => [Fails]_vars
  <2> SUFFICES ASSUME TypeOK, CreateInv, NEW c \in Clients, AssignFails(c), missed[c] = {}
      PROVE  \A n \in HttpPorts : ~PairFree(n, Claimed(Names \ {who[c]}))
    OBVIOUS
  <2>1. seen[c] = Claimed(Names \ {who[c]}) /\ toml[who[c]] # Absent
    BY ScannedKnowsAll DEF AssignFails, Others
  <2>2. QED
    BY <2>1 DEF AssignFails, HasRoom
<1>2. Spec => [][Fails]_vars
  BY <1>1, CreateCorrect, PTL
<1>3. QED
  BY <1>2 DEF ExhaustedIsTrue

\* What create writes into the proxy block and instance.conf is what the toml
\* records, unless that toml was written behind its back.
THEOREM ConfCorrect == Spec => ConfRecordsClaim
<1> DEFINE Agree == \A c \in Clients :
              (WriteProxy(c) \/ WriteConf(c)) /\ who[c] \notin missed[c]
                => pin[c] = toml[who[c]]
<1>1. TypeOK /\ CreateInv => [Agree]_vars
  BY DEF WriteProxy, WriteConf, CreateInv, Knows
<1>2. Spec => [][Agree]_vars
  BY <1>1, CreateCorrect, PTL
<1>3. QED
  BY <1>2 DEF ConfRecordsClaim

-----------------------------------------------------------------------------
(* Claims apart.                                                           *)

\* Two tomls do not clash, or only as ClaimsApart lets them.
Apart(m, n) ==
  /\ toml[m] # toml[n]
  /\ toml[m] + 1 = toml[n] => checked[m] = "kept"

ClaimInv ==
  /\ \A n \in Names : checked[n] # "no" => toml[n] \notin {Absent, NoPort}
  /\ \A m, n \in Names : m # n /\ checked[m] # "no" /\ checked[n] # "no" => Apart(m, n)

\* A name whose port nobody has compared, or whose toml stays, disturbs none.
LEMMA EditKeepsClaimInv ==
  ASSUME TypeOK, ClaimInv,
         \A n \in Names : \/ checked'[n] = "no"
                          \/ (checked'[n] = checked[n] /\ toml'[n] = toml[n])
  PROVE  ClaimInv'
BY DEF ClaimInv, Apart

LEMMA ClaimInvStep ==
  ASSUME TypeOK, CreateInv, ClaimInv, [Next]_vars
  PROVE  ClaimInv'
<1> USE DEF TypeOK
<1>0. \A m \in Names : toml[m] # Absent => toml[m] \in Nat
  BY TomlPortsAreInt
<1>1. ASSUME NEW c \in Clients, CreateStep(c) PROVE ClaimInv'
  <2>1. CASE ~AssignPin(c) /\ ~AssignFresh(c)
    <3>1. toml' = toml /\ checked' = checked
      BY <1>1, <2>1
      DEF CreateStep, CreateBegin, ListTomls, ScanToml, AssignFails, WriteProxy,
          ProvisionFails, WriteConf, LeaveConf, files
    <3>2. QED
      BY <3>1, EditKeepsClaimInv
  <2>2. ASSUME NEW m \in Others(c), checked[m] # "no", Scanned(c), missed[c] = {}
        PROVE  toml[m] \in Nat \ {NoPort} /\ toml[m] \in seen[c] /\ toml[m] + 1 \in seen[c]
    <3>1. toml[m] \notin {Absent, NoPort} /\ m \in Names
      BY <2>2 DEF ClaimInv, Others
    <3>2. toml[m] \in Nat /\ Pair(toml[m]) = {toml[m], toml[m] + 1}
      BY <1>0, <3>1 DEF Pair
    <3>3. Pair(toml[m]) \subseteq Claimed(Others(c))
      BY <2>2, <3>1 DEF Claimed
    <3>4. QED
      BY <2>2, <3>1, <3>2, <3>3, ScannedKnowsAll
  <2>3. CASE AssignPin(c)
    <3>1. toml' = toml
      BY <2>3 DEF AssignPin, files
    <3>2. CASE missed[c] # {} \/ checked[who[c]] # "no"
      BY <2>3, <3>1, <3>2, EditKeepsClaimInv DEF AssignPin
    <3>3. CASE missed[c] = {} /\ checked[who[c]] = "no"
      <4>1. /\ who[c] \in Names /\ toml[who[c]] = pin[c] /\ toml[who[c]] # Absent
            /\ pin[c] # NoPort /\ pin[c] \notin seen[c] /\ Scanned(c)
            /\ checked' = [checked EXCEPT ![who[c]] = "kept"]
        BY <2>3, <3>3, ScannedKnowsAll DEF AssignPin, KeepsPin
      <4>2. \A m \in Others(c) : checked'[m] = checked[m]
        BY <4>1 DEF Others
      <4>3. \A m \in Others(c) : checked[m] # "no" =>
              toml[m] # toml[who[c]] /\ toml[m] + 1 # toml[who[c]]
        BY <2>2, <3>3, <4>1
      <4>4. ASSUME NEW m \in Names, NEW n \in Names, m # n, checked'[m] # "no", checked'[n] # "no"
            PROVE  Apart(m, n)'
        <5>1. CASE m = who[c]
          BY <3>1, <4>1, <4>2, <4>3, <4>4, <5>1 DEF Apart, Others
        <5>2. CASE n = who[c]
          BY <3>1, <4>1, <4>2, <4>3, <4>4, <5>2 DEF Apart, Others
        <5>3. CASE m # who[c] /\ n # who[c]
          BY <3>1, <4>2, <4>4, <5>3 DEF Apart, Others, ClaimInv
        <5>4. QED
          BY <5>1, <5>2, <5>3
      <4>5. \A n \in Names : checked'[n] # "no" => toml'[n] \notin {Absent, NoPort}
        BY <3>1, <4>1, <4>2 DEF ClaimInv, Others
      <4>6. QED
        BY <4>4, <4>5 DEF ClaimInv
    <3>4. QED
      BY <3>2, <3>3
  <2>4. CASE AssignFresh(c)
    <3> DEFINE a == AssignPort(seen[c])
    <3>1. /\ who[c] \in Names /\ HasRoom(seen[c]) /\ Scanned(c)
          /\ toml' = [toml EXCEPT ![who[c]] = a]
          /\ checked' = [checked EXCEPT ![who[c]] = IF missed[c] = {} THEN "drawn" ELSE "no"]
      BY <2>4 DEF AssignFresh, Scanned
    <3>2. a \in HttpPorts /\ a \notin seen[c] /\ a + 1 \notin seen[c]
      BY <3>1, AssignPortIsLowest DEF PairFree
    <3> HIDE DEF a
    <3>3. a \in Nat /\ a # NoPort /\ a # Absent
      BY <3>2 DEF HttpPorts, NoPort, Absent
    <3>4. /\ toml'[who[c]] = a
          /\ \A m \in Others(c) : toml'[m] = toml[m] /\ checked'[m] = checked[m]
      BY <3>1 DEF Others
    <3>5. CASE missed[c] # {}
      <4>1. checked'[who[c]] = "no"
        BY <3>1, <3>5
      <4>2. \A n \in Names : n = who[c] \/ n \in Others(c)
        BY DEF Others
      <4>3. \A n \in Names : \/ checked'[n] = "no"
                             \/ (checked'[n] = checked[n] /\ toml'[n] = toml[n])
        BY <3>4, <4>1, <4>2
      <4>4. QED
        BY <4>3, EditKeepsClaimInv
    <3>6. CASE missed[c] = {}
      <4>1. \A m \in Others(c) : checked[m] # "no" =>
              toml[m] \in Nat /\ toml[m] # a /\ toml[m] + 1 # a /\ toml[m] # a + 1
        BY <2>2, <3>1, <3>2, <3>6
      <4>2. ASSUME NEW m \in Names, NEW n \in Names, m # n, checked'[m] # "no", checked'[n] # "no"
            PROVE  Apart(m, n)'
        <5>1. CASE m = who[c]
          BY <3>3, <3>4, <4>1, <4>2, <5>1 DEF Apart, Others
        <5>2. CASE n = who[c]
          BY <3>3, <3>4, <4>1, <4>2, <5>2 DEF Apart, Others
        <5>3. CASE m # who[c] /\ n # who[c]
          BY <3>4, <4>2, <5>3 DEF Apart, Others, ClaimInv
        <5>4. QED
          BY <5>1, <5>2, <5>3
      <4>3. \A n \in Names : checked'[n] # "no" => toml'[n] \notin {Absent, NoPort}
        BY <3>3, <3>4 DEF ClaimInv, Others
      <4>4. QED
        BY <4>2, <4>3 DEF ClaimInv
    <3>7. QED
      BY <3>5, <3>6
  <2>5. QED
    BY <2>1, <2>3, <2>4
<1>2. ASSUME NEW n \in Names, \/ \E f \in ForceFlags : New(n, f)
                              \/ \E p \in Pins : PinPort(n, p)
                              \/ Remove(n) \/ Unarchive(n)
      PROVE  ClaimInv'
  <2>1. checked'[n] = "no"
        /\ \A k \in Names \ {n} : toml'[k] = toml[k] /\ checked'[k] = checked[k]
    BY <1>2 DEF New, PinPort, Remove, Unarchive
  <2>2. \A k \in Names : \/ checked'[k] = "no"
                         \/ (checked'[k] = checked[k] /\ toml'[k] = toml[k])
    BY <2>1
  <2>3. QED
    BY <2>2, EditKeepsClaimInv
<1>3. ASSUME NEW n \in Names, NEW m \in Names, Rename(n, m) PROVE ClaimInv'
  <2>1. /\ n # m /\ toml'[m] = toml[n] /\ checked'[m] = checked[n] /\ checked'[n] = "no"
        /\ \A k \in Names \ {n, m} : toml'[k] = toml[k] /\ checked'[k] = checked[k]
    BY <1>3 DEF Rename
  <2> DEFINE old(k) == IF k = m THEN n ELSE k
  <2>2. \A k \in Names : checked'[k] # "no" =>
          old(k) \in Names /\ toml'[k] = toml[old(k)] /\ checked'[k] = checked[old(k)]
    BY <2>1
  <2>3. \A k, l \in Names : k # l /\ checked'[k] # "no" /\ checked'[l] # "no" => old(k) # old(l)
    BY <2>1
  <2> HIDE DEF old
  <2>4. QED
    BY <2>2, <2>3 DEF ClaimInv, Apart
<1>4. CASE UNCHANGED vars \/ \E n \in Names : RegenConf(n)
  BY <1>4, EditKeepsClaimInv DEF vars, RegenConf
<1>5. QED
  BY <1>1, <1>2, <1>3, <1>4 DEF Next

\* Whatever is created, pinned, renamed, removed and restored at the same time:
\* two instances come to a common port only through a create that missed a
\* toml, or through a port let stand below another's http port.
THEOREM ClaimsCorrect == Spec => []ClaimsApart
<1>1. Init => ClaimInv
  BY DEF Init, ClaimInv
<1>2. TypeOK /\ CreateInv /\ ClaimInv /\ [Next]_vars => ClaimInv'
  BY ClaimInvStep
<1>3. ClaimInv => ClaimsApart
  BY DEF ClaimInv, ClaimsApart, Apart
<1>4. QED
  BY <1>1, <1>2, <1>3, CreateCorrect, PTL DEF Spec

=============================================================================
