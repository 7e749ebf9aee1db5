------------------------ MODULE DatabaseSetupProofs -------------------------
(***************************************************************************)
(* Proofs about DatabaseSetup for every number of people who run the       *)
(* scripts and of connections they lose.                                   *)
(*                                                                         *)
(* Rows are inserted only by the run that has created their table          *)
(* (SeedInv); a run of 006 that is alone finds the table as its own        *)
(* batches left it (AloneInv).                                             *)
(***************************************************************************)
EXTENDS DatabaseSetup, TLAPS

Running(o, script) == run[o].at = "running" /\ run[o].script = script

(* A run of the setup has created the table and not yet seeded it.         *)
SeedsStudents(o) == Running(o, SetupScript) /\ run[o].next \in 2 .. 4
SeedsAdmins(o) == Running(o, SetupScript) /\ run[o].next \in 3 .. 5

SeedInv ==
    /\ SeededOnce
    /\ "Students" \notin objects => students = 0
    /\ "Administrators" \notin objects => admins = 0
    /\ \A o \in Operators : SeedsStudents(o) =>
          /\ "Students" \in objects /\ students = 0
          /\ \A p \in Operators \ {o} : ~SeedsStudents(p)
    /\ \A o \in Operators : SeedsAdmins(o) =>
          /\ "Administrators" \in objects /\ admins = 0
          /\ \A p \in Operators \ {o} : ~SeedsAdmins(p)

AloneInv ==
    \A o \in Operators : run[o].at = "running" /\ run[o].alone =>
       /\ Alone(o)
       /\ run[o].script = RolesScript =>
             /\ run[o].next >= 2 => ~superadmin
             /\ run[o].next = 3 => check = "missing"

IInv == SeedInv /\ AloneInv
-----------------------------------------------------------------------------
Scripts == {SetupScript, RolesScript}
Script ==
    [script : Scripts, next : Nat, at : {"idle", "running", "failed", "done"},
     alone : BOOLEAN]

(* Where in the scripts the batches stand that the invariants speak of.    *)
LEMMA ScriptFacts ==
    /\ Len(SetupScript) = 12 /\ Len(RolesScript) = 3
    /\ SetupScript # RolesScript
    /\ \A n \in 1 .. 12 :
          /\ SetupScript[n] = "Students" <=> n = 1
          /\ SetupScript[n] = "Administrators" <=> n = 2
          /\ SetupScript[n] = "seed students" <=> n = 4
          /\ SetupScript[n] = "seed administrators" <=> n = 5
    /\ RolesScript[1] = "update roles" /\ RolesScript[2] = "drop check"
    /\ RolesScript[3] = "add check"
<1>1. Len(SetupScript) = 12 /\ Len(RolesScript) = 3
  BY DEF SetupScript, RolesScript
<1> QED
  BY <1>1 DEF SetupScript, RolesScript

LEMMA BatchFacts ==
    ASSUME TypeOK, NEW o \in Operators
    PROVE  /\ run[o] \in Script
           /\ run[o].script = SetupScript =>
                 /\ run[o].next \in 1 .. 12
                 /\ Batch(o) = "Students" <=> run[o].next = 1
                 /\ Batch(o) = "Administrators" <=> run[o].next = 2
                 /\ Batch(o) = "seed students" <=> run[o].next = 4
                 /\ Batch(o) = "seed administrators" <=> run[o].next = 5
           /\ run[o].script = RolesScript =>
                 /\ run[o].next \in 1 .. 3
                 /\ run[o].next = 1 => Batch(o) = "update roles"
                 /\ run[o].next = 2 => Batch(o) = "drop check"
                 /\ run[o].next = 3 => Batch(o) = "add check"
                 /\ Batch(o) \in {"update roles", "drop check", "add check"}
           /\ run[o].script # SetupScript => run[o].script = RolesScript
<1>1. run[o] \in Script /\ run[o].next \in 1 .. Len(run[o].script)
  BY DEF TypeOK, Script, Scripts
<1>2. CASE run[o].script = SetupScript
  BY <1>1, <1>2, ScriptFacts DEF Batch
<1>3. CASE run[o].script = RolesScript
  <2>1. run[o].next \in 1 .. 3
    BY <1>1, <1>3, ScriptFacts
  <2>2. run[o].next = 1 \/ run[o].next = 2 \/ run[o].next = 3
    BY <2>1
  <2> QED
    BY <1>1, <1>3, <2>1, <2>2, ScriptFacts DEF Batch
<1> QED
  BY <1>1, <1>2, <1>3 DEF Script, Scripts

LEMMA ScriptLength == \A s \in Scripts : Len(s) \in Nat \ {0}
<1> SUFFICES ASSUME NEW s \in Scripts PROVE Len(s) \in Nat \ {0}
  OBVIOUS
<1>1. s = SetupScript \/ s = RolesScript
  BY DEF Scripts
<1>2. CASE s = SetupScript
  <2>1. Len(SetupScript) = 12
    BY ScriptFacts
  <2>2. Len(s) = 12
    BY <1>2, <2>1
  <2> QED
    BY <2>2
<1>3. CASE s = RolesScript
  <2>1. Len(RolesScript) = 3
    BY ScriptFacts
  <2>2. Len(s) = 3
    BY <1>3, <2>1
  <2> QED
    BY <2>2
<1> QED
  BY <1>1, <1>2, <1>3

(* A run at its next batch, and one that has ended.                        *)
Advanced(t) == [t EXCEPT !.next = t.next + 1]
Ended(t, at) == [t EXCEPT !.at = at]

LEMMA RunTypes ==
    ASSUME NEW t \in Script, NEW at \in {"failed", "done"}
    PROVE  /\ Advanced(t) \in Script
           /\ Advanced(t).script = t.script /\ Advanced(t).alone = t.alone
           /\ Advanced(t).at = t.at /\ Advanced(t).next = t.next + 1
           /\ Ended(t, at) \in Script
           /\ Ended(t, at).script = t.script /\ Ended(t, at).alone = t.alone
           /\ Ended(t, at).at = at /\ Ended(t, at).next = t.next
<1>1. t.next \in Nat /\ t.next + 1 \in Nat
  BY DEF Script
<1>2. /\ Advanced(t) \in Script
      /\ Advanced(t).script = t.script /\ Advanced(t).alone = t.alone
      /\ Advanced(t).at = t.at /\ Advanced(t).next = t.next + 1
  BY <1>1 DEF Script, Advanced
<1>3. /\ Ended(t, at) \in Script
      /\ Ended(t, at).script = t.script /\ Ended(t, at).alone = t.alone
      /\ Ended(t, at).at = at /\ Ended(t, at).next = t.next
  BY DEF Script, Ended
<1> QED
  BY <1>2, <1>3

LEMMA RunReplaced ==
    ASSUME NEW o \in Operators, NEW t \in Script,
           run \in [Operators -> Script], run' = [run EXCEPT ![o] = t]
    PROVE  /\ run' \in [Operators -> Script]
           /\ run'[o] = t
           /\ \A p \in Operators \ {o} : run'[p] = run[p]
OBVIOUS

(* What a step does to the scripts that run.                               *)
LEMMA ContinueEffect ==
    ASSUME TypeOK, NEW o \in Operators, Continue(o)
    PROVE  /\ run' \in [Operators -> Script]
           /\ run'[o].script = run[o].script /\ run'[o].alone = run[o].alone
           /\ IF run[o].next = Len(run[o].script)
              THEN run'[o].at = "done" /\ run'[o].next = run[o].next
              ELSE run'[o].at = run[o].at /\ run'[o].next = run[o].next + 1
           /\ \A p \in Operators \ {o} : run'[p] = run[p]
<1>1. run \in [Operators -> Script] /\ run[o] \in Script
  BY DEF TypeOK, Script, Scripts
<1>2. CASE run[o].next = Len(run[o].script)
  <2>1. run' = [run EXCEPT ![o] = Ended(run[o], "done")]
    BY <1>2 DEF Continue, Ended
  <2>2. run' \in [Operators -> Script] /\ run'[o] = Ended(run[o], "done")
        /\ \A p \in Operators \ {o} : run'[p] = run[p]
    BY <1>1, <2>1, RunTypes, RunReplaced
  <2> QED
    BY <1>1, <1>2, <2>2, RunTypes
<1>3. CASE run[o].next # Len(run[o].script)
  <2>1. run' = [run EXCEPT ![o] = Advanced(run[o])]
    BY <1>3 DEF Continue, Advanced
  <2>2. run' \in [Operators -> Script] /\ run'[o] = Advanced(run[o])
        /\ \A p \in Operators \ {o} : run'[p] = run[p]
    BY <1>1, <2>1, RunTypes, RunReplaced
  <2> QED
    BY <1>1, <1>3, <2>2, RunTypes
<1> QED
  BY <1>2, <1>3

LEMMA StopEffect ==
    ASSUME TypeOK, NEW o \in Operators, Stop(o)
    PROVE  /\ run' \in [Operators -> Script]
           /\ run'[o].at = "failed"
           /\ run'[o].script = run[o].script /\ run'[o].next = run[o].next
           /\ \A p \in Operators \ {o} : run'[p] = run[p]
<1>1. run \in [Operators -> Script] /\ run[o] \in Script
  BY DEF TypeOK, Script, Scripts
<1>2. run' = [run EXCEPT ![o] = Ended(run[o], "failed")]
  BY DEF Stop, Ended
<1>3. run' \in [Operators -> Script] /\ run'[o] = Ended(run[o], "failed")
      /\ \A p \in Operators \ {o} : run'[p] = run[p]
  BY <1>1, <1>2, RunTypes, RunReplaced
<1> QED
  BY <1>1, <1>3, RunTypes

LEMMA BeginEffect ==
    ASSUME TypeOK, NEW o \in Operators, Begin(o)
    PROVE  /\ run' \in [Operators -> Script]
           /\ run'[o].at = "running" /\ run'[o].next = 1 /\ run'[o].alone = Alone(o)
           /\ \A p \in Operators \ {o} :
                 /\ run'[p].at = run[p].at /\ run'[p].script = run[p].script
                 /\ run'[p].next = run[p].next /\ run'[p].alone = FALSE
<1>1. run \in [Operators -> Script]
  BY DEF TypeOK, Script, Scripts
<1>2. PICK script \in Scripts : run' = [p \in Operators |->
         IF p = o THEN [script |-> script, next |-> 1, at |-> "running", alone |-> Alone(o)]
         ELSE [run[p] EXCEPT !.alone = FALSE]]
  BY DEF Begin, Scripts
<1>3. Alone(o) \in BOOLEAN
  BY DEF Alone
<1>4. [script |-> script, next |-> 1, at |-> "running", alone |-> Alone(o)] \in Script
  BY <1>3 DEF Script
<1> QED
  BY <1>1, <1>2, <1>4 DEF Script
-----------------------------------------------------------------------------
LEMMA InitType == Init => TypeOK
<1> SUFFICES ASSUME Init PROVE TypeOK
  OBVIOUS
<1>1. run = [o \in Operators |-> [script |-> SetupScript, next |-> 1, at |-> "idle",
                                  alone |-> FALSE]]
  BY DEF Init
<1>2. \A o \in Operators : run[o].next \in 1 .. Len(run[o].script)
  <2> SUFFICES ASSUME NEW o \in Operators PROVE run[o].next \in 1 .. Len(run[o].script)
    OBVIOUS
  <2>1. run[o].script = SetupScript /\ run[o].next = 1
    BY <1>1
  <2>2. Len(run[o].script) = 12
    BY <2>1, ScriptFacts
  <2> QED
    BY <2>1, <2>2
<1>3. run \in [Operators -> [script : {SetupScript, RolesScript}, next : Nat,
                             at : {"idle", "running", "failed", "done"}, alone : BOOLEAN]]
  BY <1>1
<1>4. cuts \in 0 .. MaxCuts
  BY MaxCutsAssumption DEF Init
<1>5. /\ objects \subseteq Objects /\ students \in Nat /\ admins \in Nat
      /\ superadmin \in BOOLEAN /\ check \in {"missing", "legacy", "current"}
  <2>1. CASE objects = {} /\ students = 0 /\ admins = 0 /\ ~superadmin /\ check = "missing"
    BY <2>1 DEF Init
  <2>2. CASE objects = Objects /\ students = 20 /\ admins = 3 /\ superadmin /\ check = "legacy"
    BY <2>2 DEF Init
  <2> QED
    BY <2>1, <2>2 DEF Init
<1> QED
  BY <1>2, <1>3, <1>4, <1>5 DEF TypeOK

LEMMA EffectType ==
    ASSUME TypeOK, NEW b, Effect(b) \/ UNCHANGED database
    PROVE  /\ objects' \subseteq Objects /\ students' \in Nat /\ admins' \in Nat
           /\ superadmin' \in BOOLEAN /\ check' \in {"missing", "legacy", "current"}
<1>1. CASE Effect(b)
  <2>1. objects' \subseteq Objects
    BY <1>1 DEF Effect, TypeOK
  <2>2. students' \in Nat /\ admins' \in Nat
    <3>1. students \in Nat /\ admins \in Nat
      BY DEF TypeOK
    <3>2. /\ students' = students \/ students' = students + 20
          /\ admins' = admins \/ admins' = admins + 3
      BY <1>1, Zenon DEF Effect
    <3> QED
      BY <3>1, <3>2
  <2>3. superadmin' \in BOOLEAN
    BY <1>1 DEF Effect, TypeOK
  <2>4. check' \in {"missing", "legacy", "current"}
    BY <1>1 DEF Effect, TypeOK
  <2> QED
    BY <2>1, <2>2, <2>3, <2>4
<1>2. CASE UNCHANGED database
  BY <1>2 DEF database, TypeOK
<1> QED
  BY <1>1, <1>2

LEMMA TypeStep == TypeOK /\ [Next]_vars => TypeOK'
<1> SUFFICES ASSUME TypeOK, [Next]_vars PROVE TypeOK'
  OBVIOUS
<1>1. ASSUME NEW o \in Operators, Begin(o) PROVE TypeOK'
  <2>1. /\ run' \in [Operators -> Script] /\ run'[o].next = 1
        /\ \A p \in Operators \ {o} :
              run'[p].script = run[p].script /\ run'[p].next = run[p].next
    BY <1>1, BeginEffect
  <2>2. run'[o].script \in Scripts
    BY <1>1, <2>1 DEF Script
  <2>3. Len(run'[o].script) \in Nat \ {0}
    BY <2>2, ScriptLength
  <2>4. run'[o].next \in 1 .. Len(run'[o].script)
    BY <2>1, <2>3
  <2>5. \A p \in Operators : run'[p].next \in 1 .. Len(run'[p].script)
    BY <2>1, <2>4 DEF TypeOK
  <2> QED
    BY <1>1, <2>1, <2>5 DEF Begin, database, TypeOK, Script, Scripts
<1>2. ASSUME NEW o \in Operators, Execute(o) PROVE TypeOK'
  <2>1. Effect(Batch(o)) /\ Continue(o) /\ UNCHANGED cuts
    BY <1>2 DEF Execute
  <2>2. /\ run' \in [Operators -> Script] /\ run'[o].script = run[o].script
        /\ IF run[o].next = Len(run[o].script) THEN run'[o].next = run[o].next
           ELSE run'[o].next = run[o].next + 1
        /\ \A p \in Operators \ {o} : run'[p] = run[p]
    BY <1>2, <2>1, ContinueEffect
  <2>3. run[o].next \in 1 .. Len(run[o].script) /\ Len(run[o].script) \in Nat
    <3>1. run[o].script \in Scripts
      BY <1>2 DEF TypeOK, Scripts
    <3>2. Len(run[o].script) \in Nat
      BY <3>1, ScriptLength
    <3> QED
      BY <1>2, <3>2 DEF TypeOK
  <2>4. run'[o].next \in 1 .. Len(run'[o].script)
    BY <2>2, <2>3
  <2>5. \A p \in Operators : run'[p].next \in 1 .. Len(run'[p].script)
    BY <2>2, <2>4 DEF TypeOK
  <2> QED
    BY <2>1, <2>2, <2>5, EffectType DEF TypeOK, Script, Scripts
<1>3. ASSUME NEW o \in Operators, BatchFails(o) \/ Cut(o) PROVE TypeOK'
  <2>1. Stop(o)
    BY <1>3 DEF BatchFails, Cut
  <2>2. /\ run' \in [Operators -> Script]
        /\ \A p \in Operators :
              run'[p].script = run[p].script /\ run'[p].next = run[p].next
    BY <1>3, <2>1, StopEffect
  <2>3. \A p \in Operators : run'[p].next \in 1 .. Len(run'[p].script)
    BY <2>2 DEF TypeOK
  <2>4. cuts' \in 0 .. MaxCuts
    BY <1>3, MaxCutsAssumption DEF BatchFails, Cut, TypeOK
  <2>5. Effect(Batch(o)) \/ UNCHANGED database
    BY <1>3 DEF BatchFails, Cut
  <2> QED
    BY <2>2, <2>3, <2>4, <2>5, EffectType DEF TypeOK, Script, Scripts
<1>4. CASE UNCHANGED vars
  BY <1>4 DEF vars, database, TypeOK
<1> QED
  BY <1>1, <1>2, <1>3, <1>4 DEF Next

(* Every state has the types TypeOK gives it.                              *)
THEOREM TypeCorrect == Spec => []TypeOK
BY InitType, TypeStep, PTL DEF Spec
-----------------------------------------------------------------------------
(* What a batch does to the seeded tables.                                 *)
LEMMA EffectFacts ==
    ASSUME TypeOK, NEW b, Effect(b)
    PROVE  /\ \A t \in Tables : t \in objects' <=> t \in objects \/ b = t
           /\ b = "seed students" => students' = students + 20
           /\ b # "seed students" => students' = students
           /\ b = "seed administrators" => admins' = admins + 3
           /\ b # "seed administrators" => admins' = admins
<1>1. Tables \subseteq Objects
  BY DEF Objects
<1>2. \A t \in Tables : t \in objects' <=> t \in objects \/ b = t
  BY <1>1 DEF Effect
<1>3. /\ b = "seed students" => students' = students + 20
      /\ b # "seed students" => students' = students
      /\ b = "seed administrators" => admins' = admins + 3
      /\ b # "seed administrators" => admins' = admins
  BY Zenon DEF Effect
<1> QED
  BY <1>2, <1>3

(* A table is created, and rows inserted, only by a batch that works: the  *)
(* table was missing, or is there.                                         *)
LEMMA WorksFacts ==
    ASSUME NEW b, Works(b)
    PROVE  /\ b \in Tables => b \notin objects
           /\ b = "seed students" => "Students" \in objects
           /\ b = "seed administrators" => "Administrators" \in objects
<1>1. CASE b \in Tables
  BY <1>1 DEF Works, TableCreatable, AttachedCreatable, Seedable, Verified, Droppable,
              CheckAddable, Tables, Attached, TableOf
<1>2. CASE b \in {"seed students", "seed administrators"}
  BY <1>2 DEF Works, TableCreatable, AttachedCreatable, Seedable, Verified, Droppable,
              CheckAddable, Tables, Attached, TableOf
<1> QED
  BY <1>1, <1>2 DEF Tables
-----------------------------------------------------------------------------
(* A batch that works keeps the invariant: only the run that has created   *)
(* dbo.Students inserts into it, once, and likewise the administrators.    *)
LEMMA EffectKeepsStudents ==
    ASSUME TypeOK, SeedInv, NEW o \in Operators, run[o].at = "running",
           Works(Batch(o)), Effect(Batch(o)),
           \A p \in Operators \ {o} : run'[p] = run[p],
           SeedsStudents(o)' => run[o].script = SetupScript /\ run[o].next \in 1 .. 3
    PROVE  /\ students' <= 20
           /\ "Students" \notin objects' => students' = 0
           /\ \A q \in Operators : SeedsStudents(q)' =>
                 /\ "Students" \in objects' /\ students' = 0
                 /\ \A p \in Operators \ {q} : ~SeedsStudents(p)'
<1>1. /\ "Students" \in objects' <=> "Students" \in objects \/ Batch(o) = "Students"
      /\ Batch(o) = "seed students" => students' = students + 20
      /\ Batch(o) # "seed students" => students' = students
  BY EffectFacts DEF Tables
<1>2. /\ Batch(o) = "Students" => "Students" \notin objects
      /\ Batch(o) = "seed students" => "Students" \in objects
  BY WorksFacts DEF Tables
<1>3. /\ students \in Nat /\ students <= 20
      /\ "Students" \notin objects => students = 0
      /\ \A q \in Operators : SeedsStudents(q) =>
            /\ "Students" \in objects /\ students = 0
            /\ \A p \in Operators \ {q} : ~SeedsStudents(p)
  BY DEF SeedInv, SeededOnce, TypeOK
<1>4. \A p \in Operators \ {o} : SeedsStudents(p)' <=> SeedsStudents(p)
  BY DEF SeedsStudents, Running
<1>5. CASE run[o].script = SetupScript /\ run[o].next = 1
  BY <1>1, <1>2, <1>3, <1>4, <1>5, BatchFacts
<1>6. CASE run[o].script = SetupScript /\ run[o].next \in 2 .. 4
  <2>1. SeedsStudents(o)
    BY <1>6 DEF SeedsStudents, Running
  <2>2. run[o].next # 1
    BY <1>6
  <2>3. Batch(o) # "Students"
    BY <1>6, <2>2, BatchFacts
  <2>4. SeedsStudents(o)' => Batch(o) # "seed students"
    <3>1. SeedsStudents(o)' => run[o].next # 4
      OBVIOUS
    <3> QED
      BY <1>6, <3>1, BatchFacts
  <2>5. students = 0 /\ "Students" \in objects'
    BY <2>1, <1>1, <1>3
  <2>6. \A p \in Operators \ {o} : ~SeedsStudents(p)'
    BY <2>1, <1>3, <1>4
  <2>7. students' <= 20
    <3>1. students' = students \/ students' = students + 20
      BY <1>1
    <3> QED
      BY <2>5, <3>1
  <2>8. SeedsStudents(o)' => students' = 0
    BY <2>4, <2>5, <1>1
  <2> QED
    BY <2>5, <2>6, <2>7, <2>8
<1>7. CASE run[o].script = SetupScript /\ run[o].next # 1
             /\ run[o].next \notin 2 .. 4
  <2>1. run[o].next # 1 /\ run[o].next # 4
    BY <1>7
  <2>2. Batch(o) # "Students" /\ Batch(o) # "seed students"
    BY <1>7, <2>1, BatchFacts
  <2>3. ~SeedsStudents(o)'
    BY <1>7
  <2> QED
    BY <2>2, <2>3, <1>1, <1>3, <1>4
<1>8. CASE run[o].script = RolesScript
  <2>1. Batch(o) # "Students" /\ Batch(o) # "seed students"
    BY <1>8, BatchFacts
  <2>2. ~SeedsStudents(o)'
    BY <1>8, ScriptFacts
  <2> QED
    BY <2>1, <2>2, <1>1, <1>3, <1>4
<1> QED
  BY <1>5, <1>6, <1>7, <1>8, BatchFacts

LEMMA EffectKeepsAdmins ==
    ASSUME TypeOK, SeedInv, NEW o \in Operators, run[o].at = "running",
           Works(Batch(o)), Effect(Batch(o)),
           \A p \in Operators \ {o} : run'[p] = run[p],
           SeedsAdmins(o)' => run[o].script = SetupScript /\ run[o].next \in 2 .. 4
    PROVE  /\ admins' <= 3
           /\ "Administrators" \notin objects' => admins' = 0
           /\ \A q \in Operators : SeedsAdmins(q)' =>
                 /\ "Administrators" \in objects' /\ admins' = 0
                 /\ \A p \in Operators \ {q} : ~SeedsAdmins(p)'
<1>1. /\ "Administrators" \in objects' <=>
            "Administrators" \in objects \/ Batch(o) = "Administrators"
      /\ Batch(o) = "seed administrators" => admins' = admins + 3
      /\ Batch(o) # "seed administrators" => admins' = admins
  BY EffectFacts DEF Tables
<1>2. /\ Batch(o) = "Administrators" => "Administrators" \notin objects
      /\ Batch(o) = "seed administrators" => "Administrators" \in objects
  BY WorksFacts DEF Tables
<1>3. /\ admins \in Nat /\ admins <= 3
      /\ "Administrators" \notin objects => admins = 0
      /\ \A q \in Operators : SeedsAdmins(q) =>
            /\ "Administrators" \in objects /\ admins = 0
            /\ \A p \in Operators \ {q} : ~SeedsAdmins(p)
  BY DEF SeedInv, SeededOnce, TypeOK
<1>4. \A p \in Operators \ {o} : SeedsAdmins(p)' <=> SeedsAdmins(p)
  BY DEF SeedsAdmins, Running
<1>5. CASE run[o].script = SetupScript /\ run[o].next = 2
  BY <1>1, <1>2, <1>3, <1>4, <1>5, BatchFacts
<1>6. CASE run[o].script = SetupScript /\ run[o].next \in 3 .. 5
  <2>1. SeedsAdmins(o)
    BY <1>6 DEF SeedsAdmins, Running
  <2>2. run[o].next # 2
    BY <1>6
  <2>3. Batch(o) # "Administrators"
    BY <1>6, <2>2, BatchFacts
  <2>4. SeedsAdmins(o)' => Batch(o) # "seed administrators"
    <3>1. SeedsAdmins(o)' => run[o].next # 5
      OBVIOUS
    <3> QED
      BY <1>6, <3>1, BatchFacts
  <2>5. admins = 0 /\ "Administrators" \in objects'
    BY <2>1, <1>1, <1>3
  <2>6. \A p \in Operators \ {o} : ~SeedsAdmins(p)'
    BY <2>1, <1>3, <1>4
  <2>7. admins' <= 3
    <3>1. admins' = admins \/ admins' = admins + 3
      BY <1>1
    <3> QED
      BY <2>5, <3>1
  <2>8. SeedsAdmins(o)' => admins' = 0
    BY <2>4, <2>5, <1>1
  <2> QED
    BY <2>5, <2>6, <2>7, <2>8
<1>7. CASE run[o].script = SetupScript /\ run[o].next # 2
             /\ run[o].next \notin 3 .. 5
  <2>1. run[o].next # 2 /\ run[o].next # 5
    BY <1>7
  <2>2. Batch(o) # "Administrators" /\ Batch(o) # "seed administrators"
    BY <1>7, <2>1, BatchFacts
  <2>3. ~SeedsAdmins(o)'
    BY <1>7
  <2> QED
    BY <2>2, <2>3, <1>1, <1>3, <1>4
<1>8. CASE run[o].script = RolesScript
  <2>1. Batch(o) # "Administrators" /\ Batch(o) # "seed administrators"
    BY <1>8, BatchFacts
  <2>2. ~SeedsAdmins(o)'
    BY <1>8, ScriptFacts
  <2> QED
    BY <2>1, <2>2, <1>1, <1>3, <1>4
<1> QED
  BY <1>5, <1>6, <1>7, <1>8, BatchFacts

LEMMA SeedStep == TypeOK /\ SeedInv /\ [Next]_vars => SeedInv'
<1> SUFFICES ASSUME TypeOK, SeedInv, [Next]_vars PROVE SeedInv'
  OBVIOUS
<1>1. ASSUME UNCHANGED database,
             \A o \in Operators : /\ SeedsStudents(o)' => SeedsStudents(o)
                                  /\ SeedsAdmins(o)' => SeedsAdmins(o)
      PROVE  SeedInv'
  BY <1>1 DEF SeedInv, SeededOnce, database
<1>2. ASSUME NEW o \in Operators, Begin(o) PROVE SeedInv'
  <2>1. /\ run'[o].next = 1
        /\ \A p \in Operators \ {o} :
              /\ run'[p].at = run[p].at /\ run'[p].script = run[p].script
              /\ run'[p].next = run[p].next
    BY <1>2, BeginEffect
  <2>2. \A p \in Operators : /\ SeedsStudents(p)' => SeedsStudents(p)
                             /\ SeedsAdmins(p)' => SeedsAdmins(p)
    BY <2>1 DEF SeedsStudents, SeedsAdmins, Running
  <2> QED
    BY <1>1, <1>2, <2>2 DEF Begin
<1>3. ASSUME NEW o \in Operators, run[o].at = "running", Works(Batch(o)), Effect(Batch(o)),
             \A p \in Operators \ {o} : run'[p] = run[p],
             SeedsStudents(o)' => run[o].script = SetupScript /\ run[o].next \in 1 .. 3,
             SeedsAdmins(o)' => run[o].script = SetupScript /\ run[o].next \in 2 .. 4
      PROVE  SeedInv'
  BY <1>3, EffectKeepsStudents, EffectKeepsAdmins DEF SeedInv, SeededOnce
<1>4. ASSUME NEW o \in Operators, Execute(o) PROVE SeedInv'
  <2>1. /\ run[o].at = "running" /\ Works(Batch(o)) /\ Effect(Batch(o)) /\ Continue(o)
    BY <1>4 DEF Execute
  <2>2. /\ run'[o].script = run[o].script
        /\ run'[o].at = "running" => run'[o].next = run[o].next + 1
        /\ \A p \in Operators \ {o} : run'[p] = run[p]
    BY <1>4, <2>1, ContinueEffect
  <2>3. run[o].next \in Nat
    BY <1>4 DEF TypeOK
  <2>4. /\ SeedsStudents(o)' => run[o].script = SetupScript /\ run[o].next \in 1 .. 3
        /\ SeedsAdmins(o)' => run[o].script = SetupScript /\ run[o].next \in 2 .. 4
    BY <2>2, <2>3 DEF SeedsStudents, SeedsAdmins, Running
  <2> QED
    BY <1>3, <1>4, <2>1, <2>2, <2>4
<1>5. ASSUME NEW o \in Operators, BatchFails(o) \/ Cut(o) PROVE SeedInv'
  <2>1. run[o].at = "running" /\ Stop(o)
    BY <1>5 DEF BatchFails, Cut
  <2>2. run'[o].at = "failed" /\ \A p \in Operators \ {o} : run'[p] = run[p]
    BY <1>5, <2>1, StopEffect
  <2>3. \A p \in Operators : /\ SeedsStudents(p)' => SeedsStudents(p)
                             /\ SeedsAdmins(p)' => SeedsAdmins(p)
    BY <2>2 DEF SeedsStudents, SeedsAdmins, Running
  <2>4. ~SeedsStudents(o)' /\ ~SeedsAdmins(o)'
    BY <2>2 DEF SeedsStudents, SeedsAdmins, Running
  <2> QED
    BY <1>1, <1>3, <1>5, <2>1, <2>2, <2>3, <2>4 DEF BatchFails, Cut
<1>6. CASE UNCHANGED vars
  BY <1>1, <1>6 DEF vars, SeedsStudents, SeedsAdmins, Running
<1> QED
  BY <1>2, <1>4, <1>5, <1>6 DEF Next

(* However often and by whomever the setup is run, and wherever it breaks  *)
(* off, the seed rows go in once at most (apply_azure_sql.py:124-128,      *)
(* 001_create_schema.sql:4).                                               *)
THEOREM SeedsGoInOnce == Spec => []SeededOnce
<1>1. Init => SeedInv
  <2> SUFFICES ASSUME Init PROVE SeedInv
    OBVIOUS
  <2>1. \A o \in Operators : run[o].at = "idle"
    BY DEF Init
  <2>2. \/ objects = {} /\ students = 0 /\ admins = 0
        \/ objects = Objects /\ students = 20 /\ admins = 3
    BY DEF Init
  <2> QED
    BY <2>1, <2>2 DEF SeedInv, SeededOnce, SeedsStudents, SeedsAdmins, Running,
                      Objects, Tables
<1>2. SeedInv => SeededOnce
  BY DEF SeedInv
<1> QED
  BY <1>1, <1>2, InitType, TypeStep, SeedStep, PTL DEF Spec
-----------------------------------------------------------------------------
(* What the batches of 006 do, and that they do not depend on the rest.    *)
LEMMA RolesEffect ==
    ASSUME NEW b, Effect(b)
    PROVE  /\ b = "update roles" => ~superadmin'
           /\ b = "drop check" => check' = "missing" /\ (superadmin' => superadmin)
BY DEF Effect

LEMMA AloneStep == TypeOK /\ AloneInv /\ [Next]_vars => AloneInv'
<1> SUFFICES ASSUME TypeOK, AloneInv, [Next]_vars PROVE AloneInv'
  OBVIOUS
<1>1. ASSUME NEW o \in Operators, Begin(o) PROVE AloneInv'
  <2>1. /\ run'[o].at = "running" /\ run'[o].next = 1 /\ run'[o].alone = Alone(o)
        /\ \A p \in Operators \ {o} : run'[p].at = run[p].at /\ run'[p].alone = FALSE
    BY <1>1, BeginEffect
  <2>2. Alone(o) => Alone(o)'
    BY <2>1 DEF Alone
  <2> QED
    BY <2>1, <2>2 DEF AloneInv
<1>2. ASSUME NEW o \in Operators, Execute(o) PROVE AloneInv'
  <2>1. run[o].at = "running" /\ Effect(Batch(o)) /\ Continue(o)
    BY <1>2 DEF Execute
  <2>2. /\ run'[o].script = run[o].script /\ run'[o].alone = run[o].alone
        /\ run'[o].at = "running" => run'[o].next = run[o].next + 1
        /\ \A p \in Operators \ {o} : run'[p] = run[p]
    BY <1>2, <2>1, ContinueEffect
  <2>3. Alone(o) => Alone(o)'
    BY <2>2 DEF Alone
  <2>4. \A p \in Operators \ {o} : ~(run'[p].at = "running" /\ run'[p].alone)
    BY <1>2, <2>1, <2>2 DEF AloneInv, Alone
  <2>5. ASSUME run'[o].at = "running", run[o].alone, run[o].script = RolesScript
        PROVE  /\ run'[o].next >= 2 => ~superadmin'
               /\ run'[o].next = 3 => check' = "missing"
    <3>1. run[o].next \in 1 .. 3
      BY <1>2, <2>5, BatchFacts
    <3>2. CASE run[o].next = 1
      <4>1. ~superadmin'
        BY <1>2, <2>1, <2>5, <3>2, BatchFacts, RolesEffect
      <4> QED
        BY <2>2, <2>5, <3>2, <4>1
    <3>3. CASE run[o].next = 2
      <4>1. ~superadmin
        BY <1>2, <2>1, <2>5, <3>3 DEF AloneInv
      <4>2. ~superadmin' /\ check' = "missing"
        BY <1>2, <2>1, <2>5, <3>3, <4>1, BatchFacts, RolesEffect
      <4> QED
        BY <4>2
    <3>4. CASE run[o].next = 3
      <4>1. run'[o].at = "done"
        <5>1. run[o].next = Len(run[o].script)
          BY <2>5, <3>4, ScriptFacts
        <5> QED
          BY <1>2, <2>1, <5>1, ContinueEffect
      <4> QED
        BY <2>5, <4>1
    <3> QED
      BY <3>1, <3>2, <3>3, <3>4
  <2> QED
    BY <1>2, <2>1, <2>2, <2>3, <2>4, <2>5 DEF AloneInv
<1>3. ASSUME NEW o \in Operators, BatchFails(o) \/ Cut(o) PROVE AloneInv'
  <2>1. run[o].at = "running" /\ Stop(o)
    BY <1>3 DEF BatchFails, Cut
  <2>2. run'[o].at = "failed" /\ \A p \in Operators \ {o} : run'[p] = run[p]
    BY <1>3, <2>1, StopEffect
  <2>3. \A p \in Operators \ {o} : ~(run'[p].at = "running" /\ run'[p].alone)
    BY <1>3, <2>1, <2>2 DEF AloneInv, Alone
  <2> QED
    BY <2>2, <2>3 DEF AloneInv
<1>4. CASE UNCHANGED vars
  BY <1>4 DEF vars, database, AloneInv, Alone
<1> QED
  BY <1>1, <1>2, <1>3, <1>4 DEF Next

(* A run of 006 that no other run crosses works: its batch never fails.    *)
LEMMA RolesWork ==
    ASSUME TypeOK, AloneInv, NEW o \in Operators, run[o].script = RolesScript,
           run[o].at = "running", run[o].alone
    PROVE  Works(Batch(o))
<1>1. run[o].next = 1 \/ run[o].next = 2 \/ run[o].next = 3
  <2>1. run[o].next \in 1 .. 3
    BY BatchFacts
  <2> QED
    BY <2>1
<1>2. CASE run[o].next = 1
  BY <1>2, BatchFacts DEF Works
<1>3. CASE run[o].next = 2
  BY <1>3, BatchFacts DEF Works, Droppable
<1>4. CASE run[o].next = 3
  <2>1. ~superadmin /\ check = "missing"
    BY <1>4 DEF AloneInv
  <2>2. Batch(o) = "add check"
    BY <1>4, BatchFacts
  <2> QED
    BY <2>1, <2>2 DEF Works, CheckAddable
<1> QED
  BY <1>1, <1>2, <1>3, <1>4

(* 006 is safe to re-run: whatever earlier runs have left, a run of it     *)
(* that no other crosses fails only with its connection                    *)
(* (006_drop_superadmin_role.sql:2).                                       *)
THEOREM RolesCanBeRerun == Spec => RolesRerunnable
<1> DEFINE Safe ==
      \A o \in Operators :
          /\ run[o].script = RolesScript /\ run[o].at = "running" /\ run[o].alone
          /\ cuts' = cuts
          => run'[o].at # "failed"
<1>1. Init => AloneInv
  BY DEF Init, AloneInv
<1>2. TypeOK /\ AloneInv /\ [Next]_vars => [Safe]_vars
  <2> SUFFICES ASSUME TypeOK, AloneInv, Next,
                      NEW o \in Operators, run[o].script = RolesScript,
                      run[o].at = "running", run[o].alone, cuts' = cuts
               PROVE  run'[o].at # "failed"
    OBVIOUS
  <2>1. PICK p \in Operators : Begin(p) \/ Execute(p) \/ BatchFails(p) \/ Cut(p)
    BY DEF Next
  <2>2. ~Cut(p)
    BY DEF Cut, TypeOK
  <2>3. CASE Begin(p)
    <3>1. p # o
      BY <2>3 DEF Begin
    <3>2. run'[o].at = run[o].at
      BY <2>3, <3>1, BeginEffect
    <3> QED
      BY <3>2
  <2>4. CASE Execute(p)
    <3>1. Continue(p)
      BY <2>4 DEF Execute
    <3> QED
      BY <3>1, ContinueEffect
  <2>5. CASE BatchFails(p)
    <3>1. p # o
      BY <2>5, RolesWork DEF BatchFails
    <3>2. run'[o] = run[o]
      BY <2>5, <3>1, StopEffect DEF BatchFails
    <3> QED
      BY <3>2
  <2> QED
    BY <2>1, <2>2, <2>3, <2>4, <2>5
<1> QED
  BY <1>1, <1>2, InitType, TypeStep, AloneStep, PTL DEF Spec, RolesRerunnable
=============================================================================
