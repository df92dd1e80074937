--------------------------- MODULE Migrations_proof ---------------------------
(***************************************************************************)
(* Proofs about Migrations, for any processes, versions and faults.        *)
(***************************************************************************)
EXTENDS Migrations, TLAPS

IsPrefix(S) == \E n \in 0..Latest : S = 1..n

(***************************************************************************)
(* The inductive invariant.  What is in effect and what is registered are  *)
(* prefixes (PrefixesTrue).  What a process still has to register is in    *)
(* effect and follows what it has recorded; what it still has to migrate   *)
(* follows what is registered (RunnerSound), whatever the other processes  *)
(* have done meanwhile.  A process that is about to change a database in   *)
(* use has a backup of it, or nothing is left to change (Backed).          *)
(***************************************************************************)
PrefixesTrue ==
  /\ IsPrefix(changes) /\ IsPrefix(register)
  /\ register \subseteq changes /\ changes \ register \subseteq 1..Recognised

Saved == \E s \in snapshots : s # {}

Backed == Saved \/ ~userData \/ changes = Ids

ToRegister(r) ==
  \E k, b \in 0..Latest :
    /\ k <= b /\ r.recorded = 1..k /\ r.todo = (k + 1)..b
    /\ 1..k \subseteq register /\ 1..b \subseteq changes

ToMigrate(r) ==
  \E k \in 0..Latest : r.todo = (k + 1)..Latest /\ 1..k \subseteq register

RunnerSound(r) ==
  /\ r.stage = "baseline" => ToRegister(r)
  /\ r.stage \in {"plan", "apply"} => ToMigrate(r)
  /\ r.stage \in {"baseline", "plan"} /\ (r.recorded # {} \/ r.baseline # 0) => 1 \in changes
  /\ r.stage = "apply" => r.todo = {} \/ Backed

SnapshotsOlder == \A s \in snapshots : s \subseteq changes

MigInv ==
  /\ TypeOK /\ PrefixesTrue
  /\ \A p \in Processes : RunnerSound(runner[p])
  /\ SnapshotsOlder
  /\ userData => 1 \in changes

-----------------------------------------------------------------------------
\* The extremes of intervals.
LEMMA LeastOfRest ==
  ASSUME NEW k \in Nat, NEW b \in Nat, k < b
  PROVE  Least((k + 1)..b) = k + 1
<1>1. k + 1 \in (k + 1)..b /\ \A j \in (k + 1)..b : k + 1 <= j
  OBVIOUS
<1>2. \A i \in (k + 1)..b : (\A j \in (k + 1)..b : i <= j) => i = k + 1
  BY <1>1
<1> QED BY <1>1, <1>2 DEF Least

LEMMA GreatestOfPrefix ==
  ASSUME NEW n \in Nat
  PROVE  Greatest(1..n) = n
<1>1. CASE n = 0
  <2>1. 1..n = {}
    BY <1>1
  <2> QED BY <1>1, <2>1 DEF Greatest
<1>2. CASE n # 0
  <2>1. n \in 1..n /\ \A j \in 1..n : j <= n
    BY <1>2
  <2>2. \A i \in 1..n : (\A j \in 1..n : j <= i) => i = n
    BY <2>1
  <2>3. 1..n # {}
    BY <2>1
  <2> QED BY <2>1, <2>2, <2>3 DEF Greatest
<1> QED BY <1>1, <1>2

\* Taking the first of what is left.
LEMMA RestWithoutLeast ==
  ASSUME NEW k \in Nat, NEW b \in Nat, k < b
  PROVE  ((k + 1)..b) \ {k + 1} = ((k + 1) + 1)..b /\ (1..k) \cup {k + 1} = 1..(k + 1)
  OBVIOUS

\* detectBaseline finds a version whose changes are all in effect.
LEMMA BaselineInEffect ==
  ASSUME TypeOK, PrefixesTrue
  PROVE  Baseline \in 0..Latest /\ 1..Baseline \subseteq changes
<1> USE MigrationAssumption
<1>1. PICK n \in 0..Latest : changes = 1..n
  BY DEF PrefixesTrue, IsPrefix
<1>2. CASE 1 \notin changes
  BY <1>2 DEF Baseline, Ids
<1>3. CASE 1 \in changes
  <2>1. PICK m \in 0..Latest : m <= n /\ {i \in changes : i <= Recognised} = 1..m
    <3>1. CASE n <= Recognised
      <4>1. {i \in changes : i <= Recognised} = 1..n
        BY <1>1, <3>1 DEF Ids
      <4> QED BY <4>1
    <3>2. CASE Recognised < n
      <4>1. {i \in changes : i <= Recognised} = 1..Recognised
        BY <1>1, <3>2 DEF Ids
      <4> QED BY <4>1, <3>2 DEF Ids
    <3> QED BY <3>1, <3>2 DEF Ids
  <2>2. Baseline = m
    <3>1. Greatest(1..m) = m
      BY GreatestOfPrefix
    <3> QED BY <1>3, <2>1, <3>1 DEF Baseline
  <2> QED BY <1>1, <2>1, <2>2
<1> QED BY <1>2, <1>3

\* What other processes do does not harm one that stays where it is.
LEMMA OthersStay ==
  ASSUME MigInv, NEW p \in Processes, runner'[p] = runner[p],
         register \subseteq register', changes \subseteq changes', Backed => Backed'
  PROVE  RunnerSound(runner[p])'
<1> DEFINE r == runner[p]
<1>1. RunnerSound(r)
  BY DEF MigInv
<1>2. ToRegister(r) => ToRegister(r)'
  BY DEF ToRegister
<1>3. ToMigrate(r) => ToMigrate(r)'
  BY DEF ToMigrate
<1> HIDE DEF r
<1>4. r' = r
  BY DEF r
<1>5. (r.todo = {} \/ Backed) => (r'.todo = {} \/ Backed')
  BY <1>4
<1>6. RunnerSound(r)'
  BY <1>1, <1>2, <1>3, <1>4, <1>5 DEF RunnerSound
<1> QED BY <1>6 DEF r

\* A process starts, goes on or stops, and the files are as before.
LEMMA RunnerStepInv ==
  ASSUME MigInv, NEW p \in Processes, NEW r \in Runner, RunnerSound(r),
         runner' = [runner EXCEPT ![p] = r],
         UNCHANGED <<changes, register, userData, snapshots>>, faults' \in 0..MaxFaults
  PROVE  MigInv'
<1>1. TypeOK'
  BY DEF MigInv, TypeOK
<1>2. PrefixesTrue' /\ SnapshotsOlder' /\ (userData => 1 \in changes)' /\ (Backed => Backed')
  BY DEF MigInv, PrefixesTrue, IsPrefix, SnapshotsOlder, Backed, Saved
<1>3. ASSUME NEW q \in Processes PROVE RunnerSound(runner[q])'
  <2>1. CASE q # p
    <3>1. runner'[q] = runner[q]
      BY <2>1 DEF MigInv, TypeOK
    <3> QED BY <3>1, <1>2, OthersStay
  <2>2. CASE q = p
    <3>1. runner'[q] = r
      BY <2>2 DEF MigInv, TypeOK
    <3> QED BY <3>1 DEF RunnerSound, ToRegister, ToMigrate, Backed, Saved
  <2> QED BY <2>1, <2>2
<1> QED BY <1>1, <1>2, <1>3 DEF MigInv

LEMMA OffSound == Off \in Runner /\ RunnerSound(Off)
  BY MigrationAssumption DEF Off, Runner, RunnerSound

LEMMA OpenInv ==
  ASSUME MigInv, NEW p \in Processes, NEW dryRun \in BOOLEAN, Open(p, dryRun)
  PROVE  MigInv'
<1> USE MigrationAssumption
<1> DEFINE found == IF register = {} THEN Baseline ELSE 0
           r == [stage |-> "baseline", dryRun |-> dryRun, todo |-> 1..found,
                 recorded |-> register, baseline |-> found]
<1>1. found \in 0..Latest /\ 1..found \subseteq changes
  BY BaselineInEffect DEF MigInv
<1>2. PICK m \in 0..Latest : register = 1..m
  BY DEF MigInv, PrefixesTrue, IsPrefix
<1>3. r \in Runner
  <2>1. 1..found \subseteq Ids /\ register \subseteq Ids
    BY <1>1 DEF Ids, MigInv, TypeOK
  <2> QED BY <1>1, <2>1 DEF Runner
<1>4. ToRegister(r)
  <2>1. CASE register = {}
    <3>1. 0 \in 0..Latest /\ 0 <= found /\ 1..0 = {} /\ 1..found = (0 + 1)..found
      BY <1>1
    <3> HIDE DEF found
    <3> QED BY <2>1, <3>1, <1>1 DEF ToRegister
  <2>2. CASE register # {}
    <3>1. found = 0
      BY <2>2
    <3>2. r.todo = (m + 1)..m
      BY <3>1
    <3>3. 1..m \subseteq changes
      BY <1>2 DEF MigInv, PrefixesTrue
    <3>4. r.recorded = 1..m
      BY <1>2
    <3> HIDE DEF r
    <3> QED BY <1>2, <3>2, <3>3, <3>4 DEF ToRegister
  <2> QED BY <2>1, <2>2
<1>5. RunnerSound(r)
  <2>1. register # {} => 1 \in changes
    BY <1>2 DEF MigInv, PrefixesTrue
  <2>2. found # 0 => 1 \in changes
    BY <1>1
  <2>3. r.stage = "baseline" /\ r.recorded = register /\ r.baseline = found
    OBVIOUS
  <2> HIDE DEF r, found
  <2> QED BY <1>4, <2>1, <2>2, <2>3 DEF RunnerSound
<1>6. /\ runner' = [runner EXCEPT ![p] = r]
      /\ UNCHANGED <<changes, register, userData, snapshots, faults>>
  BY DEF Open
<1>7. faults' \in 0..MaxFaults
  BY <1>6 DEF MigInv, TypeOK
<1> HIDE DEF r
<1> QED BY <1>3, <1>5, <1>6, <1>7, RunnerStepInv

\* The process stops, for whatever reason.
LEMMA OffInv ==
  ASSUME MigInv, NEW p \in Processes, Conflict(p) \/ Stop(p) \/ Fault(p)
  PROVE  MigInv'
<1>1. /\ runner' = [runner EXCEPT ![p] = Off]
      /\ UNCHANGED <<changes, register, userData, snapshots>>
  BY DEF Conflict, Stop, Fault
<1>2. faults' \in 0..MaxFaults
  BY MigrationAssumption DEF Conflict, Stop, Fault, MigInv, TypeOK
<1> QED BY <1>1, <1>2, OffSound, RunnerStepInv

LEMMA ComputeInv ==
  ASSUME MigInv, NEW p \in Processes, Compute(p)
  PROVE  MigInv'
<1> USE MigrationAssumption
<1>1. PICK r : r = runner[p]
  OBVIOUS
<1>2. r \in Runner /\ RunnerSound(r) /\ r.stage = "baseline" /\ r.todo = {}
  BY <1>1 DEF MigInv, TypeOK, Compute
<1>3. UNCHANGED <<changes, register, userData, snapshots, faults>> /\ faults' \in 0..MaxFaults
  BY DEF Compute, MigInv, TypeOK
<1>4. CASE runner' = [runner EXCEPT ![p] = Off]
  BY <1>3, <1>4, OffSound, RunnerStepInv
<1>5. CASE runner' = [runner EXCEPT ![p] = [r EXCEPT !.stage = "plan", !.todo = Ids \ r.recorded]]
  <2>1. PICK q : q = [r EXCEPT !.stage = "plan", !.todo = Ids \ r.recorded]
    OBVIOUS
  <2>2. /\ q \in Runner /\ q.stage = "plan" /\ q.todo = Ids \ r.recorded
        /\ q.recorded = r.recorded /\ q.baseline = r.baseline
    BY <1>2, <2>1 DEF Runner
  <2>3. PICK k \in 0..Latest : r.recorded = 1..k /\ 1..k \subseteq register
    BY <1>2 DEF RunnerSound, ToRegister
  <2>4. q.todo = (k + 1)..Latest
    BY <2>2, <2>3 DEF Ids
  <2>5. ToMigrate(q)
    BY <2>3, <2>4 DEF ToMigrate
  <2>6. RunnerSound(q)
    BY <1>2, <2>2, <2>5 DEF RunnerSound
  <2> QED BY <1>3, <1>5, <2>1, <2>2, <2>6, RunnerStepInv
<1> QED BY <1>1, <1>4, <1>5 DEF Compute

\* The next version of a baseline is in effect already.
LEMMA RegisterInv ==
  ASSUME MigInv, NEW p \in Processes, RegisterBaseline(p)
  PROVE  MigInv'
<1> USE MigrationAssumption
<1>1. PICK r : r = runner[p]
  OBVIOUS
<1>2. r \in Runner /\ RunnerSound(r) /\ r.stage = "baseline" /\ r.todo # {}
  BY <1>1 DEF MigInv, TypeOK, RegisterBaseline
<1>3. PICK k \in 0..Latest, b \in 0..Latest :
        /\ k <= b /\ r.recorded = 1..k /\ r.todo = (k + 1)..b
        /\ 1..k \subseteq register /\ 1..b \subseteq changes
  BY <1>2 DEF RunnerSound, ToRegister
<1>4. k < b /\ k + 1 \in changes /\ k + 1 \in 0..Latest
  BY <1>2, <1>3
<1>5. Least(r.todo) = k + 1
  BY <1>3, <1>4, LeastOfRest
<1>6. PICK q : q = [r EXCEPT !.todo = r.todo \ {k + 1}, !.recorded = r.recorded \cup {k + 1}]
  OBVIOUS
<1>7. /\ k + 1 \notin register /\ register' = register \cup {k + 1}
      /\ runner' = [runner EXCEPT ![p] = q]
      /\ UNCHANGED <<changes, userData, snapshots, faults>>
  BY <1>1, <1>5, <1>6 DEF RegisterBaseline
<1>8. /\ q \in Runner /\ q.stage = "baseline" /\ q.todo = r.todo \ {k + 1}
      /\ q.recorded = r.recorded \cup {k + 1} /\ q.baseline = r.baseline
  <2>1. r.todo \ {k + 1} \subseteq Ids /\ r.recorded \cup {k + 1} \subseteq Ids
    BY <1>2, <1>4 DEF Runner, Ids
  <2> HIDE MigrationAssumption
  <2>2. q \in Runner
    BY <1>2, <1>6, <2>1 DEF Runner
  <2> QED BY <1>2, <1>6, <2>2 DEF Runner
<1>9. register' = 1..(k + 1)
  <2>1. PICK m \in 0..Latest : register = 1..m
    BY DEF MigInv, PrefixesTrue, IsPrefix
  <2>2. m = k
    BY <1>3, <1>7, <2>1
  <2> QED BY <1>7, <2>1, <2>2
<1>10. PrefixesTrue'
  BY <1>4, <1>7, <1>9 DEF MigInv, PrefixesTrue, IsPrefix
<1>11. TypeOK'
  BY <1>4, <1>7, <1>8 DEF MigInv, TypeOK, Ids
<1>12. SnapshotsOlder' /\ (userData => 1 \in changes)' /\ (Backed => Backed')
  BY <1>7 DEF MigInv, SnapshotsOlder, Backed, Saved
<1>13. ASSUME NEW o \in Processes PROVE RunnerSound(runner[o])'
  <2>1. CASE o # p
    <3>1. runner'[o] = runner[o]
      BY <1>7, <2>1 DEF MigInv, TypeOK
    <3> QED BY <3>1, <1>7, <1>12, OthersStay
  <2>2. CASE o = p
    <3>1. runner'[o] = q
      BY <1>7, <2>2 DEF MigInv, TypeOK
    <3>2. /\ q.todo = ((k + 1) + 1)..b /\ q.recorded = 1..(k + 1) /\ k + 1 <= b
      BY <1>3, <1>4, <1>8, RestWithoutLeast
    <3>3. ToRegister(q)'
      BY <1>3, <1>4, <1>7, <1>9, <3>2 DEF ToRegister
    <3>4. 1 \in changes'
      BY <1>3, <1>4, <1>7
    <3> QED BY <1>8, <3>1, <3>3, <3>4 DEF RunnerSound
  <2> QED BY <2>1, <2>2
<1> QED BY <1>10, <1>11, <1>12, <1>13 DEF MigInv

\* Before a database in use is changed, it is copied.
LEMMA BackupInv ==
  ASSUME MigInv, NEW p \in Processes, Backup(p)
  PROVE  MigInv'
<1> USE MigrationAssumption
<1>1. PICK r : r = runner[p]
  OBVIOUS
<1>2. r \in Runner /\ RunnerSound(r) /\ r.stage = "plan"
  BY <1>1 DEF MigInv, TypeOK, Backup
<1>3. PICK q : q = [r EXCEPT !.stage = "apply"]
  OBVIOUS
<1>4. /\ runner' = [runner EXCEPT ![p] = q]
      /\ UNCHANGED <<changes, register, userData, faults>>
      /\ snapshots' = snapshots \/ snapshots' = snapshots \cup {changes}
  BY <1>1, <1>3 DEF Backup
<1>5. /\ q \in Runner /\ q.stage = "apply" /\ q.todo = r.todo
  BY <1>2, <1>3 DEF Runner
<1>6. TypeOK'
  BY <1>4, <1>5 DEF MigInv, TypeOK
<1>7. PrefixesTrue' /\ (userData => 1 \in changes)' /\ SnapshotsOlder' /\ (Backed => Backed')
  BY <1>4 DEF MigInv, PrefixesTrue, IsPrefix, SnapshotsOlder, Backed, Saved
<1>8. q.todo = {} \/ Backed'
  <2>1. CASE r.todo = {}
    BY <1>5, <2>1
  <2>2. CASE Fresh(p)
    BY <1>4, <2>2 DEF Fresh, MigInv, Backed
  <2>3. CASE r.todo # {} /\ ~Fresh(p)
    <3>1. snapshots' = snapshots \cup {changes}
      BY <1>1, <2>3 DEF Backup
    <3>2. 1 \in changes
      BY <1>1, <1>2, <2>3 DEF Fresh, RunnerSound
    <3> QED BY <3>1, <3>2 DEF Backed, Saved
  <2> QED BY <2>1, <2>2, <2>3
<1>9. ASSUME NEW o \in Processes PROVE RunnerSound(runner[o])'
  <2>1. CASE o # p
    <3>1. runner'[o] = runner[o]
      BY <1>4, <2>1 DEF MigInv, TypeOK
    <3> QED BY <3>1, <1>4, <1>7, OthersStay
  <2>2. CASE o = p
    <3>1. runner'[o] = q
      BY <1>4, <2>2 DEF MigInv, TypeOK
    <3>2. ToMigrate(q)'
      BY <1>2, <1>4, <1>5 DEF RunnerSound, ToMigrate
    <3> QED BY <1>5, <1>8, <3>1, <3>2 DEF RunnerSound
  <2> QED BY <2>1, <2>2
<1> QED BY <1>6, <1>7, <1>9 DEF MigInv

\* The next migration follows what is registered, and is in effect or follows
\* what is.
LEMMA MigrateInv ==
  ASSUME MigInv, NEW p \in Processes, Migrate(p)
  PROVE  MigInv'
<1> USE MigrationAssumption
<1>1. PICK r : r = runner[p]
  OBVIOUS
<1>2. r \in Runner /\ RunnerSound(r) /\ r.stage = "apply" /\ r.todo # {}
  BY <1>1 DEF MigInv, TypeOK, Migrate
<1>3. PICK k \in 0..Latest : r.todo = (k + 1)..Latest /\ 1..k \subseteq register
  BY <1>2 DEF RunnerSound, ToMigrate
<1>4. k < Latest /\ k + 1 \in 0..Latest /\ k + 1 \in Ids
  BY <1>2, <1>3 DEF Ids
<1>5. Least(r.todo) = k + 1
  BY <1>3, <1>4, LeastOfRest
<1>6. PICK q : q = [r EXCEPT !.todo = r.todo \ {k + 1}]
  OBVIOUS
<1>7. /\ k + 1 \notin register /\ register' = register \cup {k + 1}
      /\ changes' = changes \cup {k + 1}
      /\ runner' = [runner EXCEPT ![p] = q]
      /\ UNCHANGED <<userData, snapshots, faults>>
  BY <1>1, <1>5, <1>6 DEF Migrate
<1>8. q \in Runner /\ q.stage = "apply" /\ q.todo = r.todo \ {k + 1}
  BY <1>2, <1>6 DEF Runner
<1>9. register = 1..k /\ register' = 1..(k + 1)
  <2>1. PICK m \in 0..Latest : register = 1..m
    BY DEF MigInv, PrefixesTrue, IsPrefix
  <2>2. m = k
    BY <1>3, <1>7, <2>1
  <2> QED BY <1>7, <2>1, <2>2
<1>10. IsPrefix(changes')
  <2>1. PICK n \in 0..Latest : changes = 1..n
    BY DEF MigInv, PrefixesTrue, IsPrefix
  <2>2. k <= n
    <3>1. 1..k \subseteq 1..n
      BY <1>9, <2>1 DEF MigInv, PrefixesTrue
    <3> QED BY <3>1
  <2>3. CASE n = k
    BY <1>4, <1>7, <2>1, <2>3 DEF IsPrefix
  <2>4. CASE k < n
    BY <1>7, <2>1, <2>4 DEF IsPrefix
  <2> QED BY <2>2, <2>3, <2>4
<1>11. PrefixesTrue'
  BY <1>4, <1>7, <1>9, <1>10 DEF MigInv, PrefixesTrue, IsPrefix
<1>12. TypeOK'
  BY <1>4, <1>7, <1>8 DEF MigInv, TypeOK
<1>13. SnapshotsOlder' /\ (userData => 1 \in changes)'
  BY <1>7 DEF MigInv, SnapshotsOlder
<1>14. Backed => Backed'
  BY <1>4, <1>7 DEF Backed, Saved
<1>15. ASSUME NEW o \in Processes PROVE RunnerSound(runner[o])'
  <2>1. CASE o # p
    <3>1. runner'[o] = runner[o]
      BY <1>7, <2>1 DEF MigInv, TypeOK
    <3> QED BY <3>1, <1>7, <1>14, OthersStay
  <2>2. CASE o = p
    <3>1. runner'[o] = q
      BY <1>7, <2>2 DEF MigInv, TypeOK
    <3>2. q.todo = ((k + 1) + 1)..Latest
      BY <1>3, <1>4, <1>8, RestWithoutLeast
    <3>3. ToMigrate(q)'
      BY <1>4, <1>9, <3>2 DEF ToMigrate
    <3>4. Backed'
      BY <1>2, <1>14 DEF RunnerSound
    <3> QED BY <1>8, <3>1, <3>3, <3>4 DEF RunnerSound
  <2> QED BY <2>1, <2>2
<1> QED BY <1>11, <1>12, <1>13, <1>15 DEF MigInv

\* A database goes into use when everything is in effect.
LEMMA ServeInv ==
  ASSUME MigInv, NEW p \in Processes, Serve(p)
  PROVE  MigInv'
<1> USE MigrationAssumption
<1>1. PICK r : r = [Off EXCEPT !.stage = "serving"]
  OBVIOUS
<1>2. r \in Runner /\ r.stage = "serving"
  BY <1>1, OffSound DEF Runner
<1>3. /\ runner' = [runner EXCEPT ![p] = r] /\ userData' = TRUE
      /\ UNCHANGED <<changes, register, snapshots, faults>>
  BY <1>1 DEF Serve
<1>4. changes = Ids
  <2>1. PICK k \in 0..Latest : runner[p].todo = (k + 1)..Latest /\ 1..k \subseteq register
    BY DEF MigInv, Serve, RunnerSound, ToMigrate
  <2>2. k = Latest
    BY <2>1 DEF Serve
  <2> QED BY <2>1, <2>2 DEF MigInv, TypeOK, PrefixesTrue, Ids
<1>5. TypeOK'
  BY <1>2, <1>3 DEF MigInv, TypeOK
<1>6. PrefixesTrue' /\ SnapshotsOlder' /\ 1 \in changes' /\ Backed'
  BY <1>3, <1>4 DEF MigInv, PrefixesTrue, IsPrefix, SnapshotsOlder, Backed, Ids
<1>7. ASSUME NEW o \in Processes PROVE RunnerSound(runner[o])'
  <2>1. CASE o # p
    <3>1. runner'[o] = runner[o]
      BY <1>3, <2>1 DEF MigInv, TypeOK
    <3> QED BY <3>1, <1>3, <1>6, OthersStay
  <2>2. CASE o = p
    <3>1. runner'[o] = r
      BY <1>3, <2>2 DEF MigInv, TypeOK
    <3> QED BY <1>2, <3>1 DEF RunnerSound
  <2> QED BY <2>1, <2>2
<1> QED BY <1>5, <1>6, <1>7 DEF MigInv

-----------------------------------------------------------------------------
LEMMA InitInv == Init => MigInv
<1> USE MigrationAssumption
<1> SUFFICES ASSUME Init PROVE MigInv
  OBVIOUS
<1>1. PICK v \in 0..Latest : /\ changes = 1..v /\ userData = (v > 0)
                             /\ register = 1..v \/ (register = {} /\ v <= Recognised)
  BY DEF Init
<1>2. userData \in BOOLEAN /\ (userData => 1 \in changes)
  <2>1. (v > 0) \in BOOLEAN /\ (v > 0 => 1 \in 1..v)
    OBVIOUS
  <2> QED BY <1>1, <2>1, Zenon
<1>3. changes \subseteq Ids /\ register \subseteq Ids /\ PrefixesTrue
  <2>1. changes = 1..v /\ (register = 1..v \/ (register = {} /\ v <= Recognised))
    BY <1>1
  <2>2. {} = 1..0 /\ 0 \in 0..Latest
    OBVIOUS
  <2>3. IsPrefix(changes) /\ IsPrefix(register)
    BY <2>1, <2>2 DEF IsPrefix
  <2>4. changes \subseteq Ids /\ register \subseteq changes
    BY <2>1 DEF Ids
  <2>5. changes \ register \subseteq 1..Recognised
    BY <2>1 DEF Ids
  <2> QED BY <2>3, <2>4, <2>5 DEF PrefixesTrue
<1>4. \A p \in Processes : runner[p] = Off
  BY DEF Init
<1>5. TypeOK
  BY <1>2, <1>3, OffSound DEF Init, TypeOK
<1> QED BY <1>2, <1>3, <1>4, <1>5, OffSound DEF Init, MigInv, SnapshotsOlder

LEMMA StepInv == MigInv /\ [Next]_vars => MigInv'
<1> SUFFICES ASSUME MigInv, [Next]_vars PROVE MigInv'
  OBVIOUS
<1>1. CASE UNCHANGED vars
  BY <1>1 DEF vars, MigInv, TypeOK, PrefixesTrue, IsPrefix, RunnerSound, ToRegister, ToMigrate,
     SnapshotsOlder, Backed, Saved
<1>2. CASE Next
  <2>1. PICK p \in Processes :
          (\E dryRun \in BOOLEAN : Open(p, dryRun)) \/ Step(p) \/ Stop(p) \/ Fault(p)
    BY <1>2 DEF Next
  <2> QED BY <2>1, OpenInv, OffInv, ComputeInv, RegisterInv, BackupInv, MigrateInv, ServeInv
          DEF Step
<1> QED BY <1>1, <1>2

\* Registered versions and changes in effect are prefixes at every moment.
THEOREM UpgradesSound == Spec => []MigInv
BY InitInv, StepInv, PTL DEF Spec

\* The register (schema_migrations) is a true prefix, whatever crashes, fails
\* or races.
THEOREM RegisterAlwaysSound == Spec => []RegisterSound
<1>1. MigInv => RegisterSound
  BY MigrationAssumption, GreatestOfPrefix
     DEF MigInv, PrefixesTrue, IsPrefix, RegisterSound, RegisterIsPrefix, RegisterIsTrue
<1> QED BY <1>1, UpgradesSound, PTL

\* No migration touches a database in use that was not copied before.
THEOREM UpgradesAlwaysBackedUp == Spec => UpgradesBackedUp
<1>1. ASSUME MigInv, [Next]_vars, NEW i \in changes' \ changes, userData
      PROVE  \E s \in snapshots : s # {} /\ i \notin s
  <2>1. PICK p \in Processes : Migrate(p)
    BY <1>1 DEF vars, Next, Step, Open, RegisterBaseline, Compute, Backup, Conflict, Serve,
       Stop, Fault
  <2>2. changes' \subseteq Ids
    <3>1. MigInv'
      BY <1>1, StepInv
    <3> QED BY <3>1 DEF MigInv, TypeOK
  <2>3. Backed
    BY <1>1, <2>1 DEF MigInv, RunnerSound, Migrate
  <2>4. Saved
    BY <1>1, <2>2, <2>3 DEF Backed
  <2> QED BY <1>1, <2>4 DEF Saved, MigInv, SnapshotsOlder
<1>2. MigInv /\ [Next]_vars =>
        [\A i \in changes' \ changes :
           userData => \E s \in snapshots : s # {} /\ i \notin s]_vars
  BY <1>1
<1> QED BY <1>2, UpgradesSound, PTL DEF Spec, UpgradesBackedUp

=============================================================================
