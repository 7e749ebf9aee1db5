--------------------------- MODULE DatabaseSetup ----------------------------
(***************************************************************************)
(* The scripts that prepare the database, run by hand, by one or more      *)
(* people: apply_azure_sql.py (schema, seed data, indexes, verification)   *)
(* and apply_006_drop_superadmin_role.py.  Each executes its batches one   *)
(* by one with autocommit: an error or a lost connection ends the run and  *)
(* leaves what earlier batches did.                                        *)
(***************************************************************************)
EXTENDS Naturals, Sequences

CONSTANTS
    Operators,   \* who may run a script
    MaxCuts      \* bound on lost connections

ASSUME MaxCutsAssumption == MaxCuts \in Nat

Tables == {"Students", "Administrators", "ReminderLog"}

(* The indexes and the trigger, by the table they are on.                  *)
TableOf ==
    [UX_Students_AadObjectId |-> "Students",
     IX_Students_DueDate |-> "Students",
     IX_Students_Course |-> "Students",
     UX_Administrators_AadObjectId |-> "Administrators",
     IX_ReminderLog_StudentID_SentAt |-> "ReminderLog",
     trg_Students_UpdatedAt |-> "Students"]
Attached == DOMAIN TableOf
Objects == Tables \cup Attached

SetupScript ==
    <<"Students", "Administrators", "ReminderLog", "seed students", "seed administrators",
      "UX_Students_AadObjectId", "IX_Students_DueDate", "IX_Students_Course",
      "UX_Administrators_AadObjectId", "IX_ReminderLog_StudentID_SentAt",
      "trg_Students_UpdatedAt", "verify">>
RolesScript == <<"update roles", "drop check", "add check">>

VARIABLES
    objects,      \* tables, indexes and trigger that exist
    students,     \* rows of dbo.Students
    admins,       \* rows of dbo.Administrators
    superadmin,   \* whether one of them has the role SuperAdmin
    check,        \* CK_Administrators_Role: missing, with or without SuperAdmin
    run,          \* each operator's script: name, next batch, how it stands,
                  \* and (history) that no other run has crossed it
    cuts

database == <<objects, students, admins, superadmin, check>>
vars == <<database, run, cuts>>

TypeOK ==
    /\ objects \subseteq Objects
    /\ students \in Nat /\ admins \in Nat
    /\ superadmin \in BOOLEAN
    /\ check \in {"missing", "legacy", "current"}
    /\ run \in [Operators -> [script : {SetupScript, RolesScript}, next : Nat,
                              at : {"idle", "running", "failed", "done"},
                              alone : BOOLEAN]]
    /\ \A o \in Operators : run[o].next \in 1 .. Len(run[o].script)
    /\ cuts \in 0 .. MaxCuts

(* An empty database, or a legacy one that allows SuperAdmin.              *)
Init ==
    /\ \/ /\ objects = {} /\ students = 0 /\ admins = 0
          /\ superadmin = FALSE /\ check = "missing"
       \/ /\ objects = Objects /\ students = 20 /\ admins = 3
          /\ superadmin = TRUE /\ check = "legacy"
    /\ run = [o \in Operators |-> [script |-> SetupScript, next |-> 1, at |-> "idle",
                               alone |-> FALSE]]
    /\ cuts = 0
-----------------------------------------------------------------------------
(* A finished or failed script may be run again, or the other one; 006 is  *)
(* for databases that have the table.                                      *)
Alone(o) == \A p \in Operators \ {o} : run[p].at # "running"

Begin(o) ==
    /\ run[o].at # "running"
    /\ \E script \in {SetupScript, RolesScript} :
          /\ script = RolesScript => "Administrators" \in objects
          /\ run' = [p \in Operators |->
                IF p = o THEN [script |-> script, next |-> 1, at |-> "running",
                               alone |-> Alone(o)]
                ELSE [run[p] EXCEPT !.alone = FALSE]]
    /\ UNCHANGED <<database, cuts>>
-----------------------------------------------------------------------------
(* When a batch works.                                                     *)
(* Mutant: CREATE TABLE only if there is none, so that a run can go on. *)
CreatableIfMissing(b) == b \in Tables

(* CREATE TABLE fails if there is one; a foreign key needs its table.      *)
TableCreatable(b) ==
    /\ b \in Tables \ objects
    /\ b = "ReminderLog" => "Students" \in objects

(* CREATE INDEX fails if there is one, CREATE OR ALTER TRIGGER does not.   *)
AttachedCreatable(b) ==
    /\ b \in Attached
    /\ TableOf[b] \in objects
    /\ b \in objects => b = "trg_Students_UpdatedAt"

Seedable(b) ==
    \/ b = "seed students" /\ "Students" \in objects
    \/ b = "seed administrators" /\ "Administrators" \in objects

(* The counts verify() compares.                                           *)
Verified(b) ==
    /\ b = "verify"
    /\ students = 20 /\ admins = 3
    /\ Attached \subseteq objects

(* Mutant: DROP CONSTRAINT without IF EXISTS. *)
DroppableIfPresent(b) == b = "drop check" /\ check # "missing"

Droppable(b) == b = "drop check"

(* ADD CONSTRAINT fails if there is one, or a row against it.              *)
CheckAddable(b) == b = "add check" /\ check = "missing" /\ ~superadmin

Works(b) ==
    \/ TableCreatable(b) \/ AttachedCreatable(b) \/ Seedable(b) \/ Verified(b)
    \/ b = "update roles" \/ Droppable(b) \/ CheckAddable(b)

Effect(b) ==
    /\ objects' = objects \cup ({b} \cap Objects)
    /\ students' = IF b = "seed students" THEN students + 20 ELSE students
    /\ admins' = IF b = "seed administrators" THEN admins + 3 ELSE admins
    /\ superadmin' = (superadmin /\ b # "update roles")
    /\ check' = IF b \in {"Administrators", "add check"} \ objects THEN "current"
                ELSE IF b = "drop check" THEN "missing" ELSE check
-----------------------------------------------------------------------------
Batch(o) == run[o].script[run[o].next]

(* Mutant: one batch past the end. *)
ContinuePastEnd(o) ==
    run' = [run EXCEPT ![o] =
        IF @.next > Len(@.script) THEN [@ EXCEPT !.at = "done"]
        ELSE [@ EXCEPT !.next = run[o].next + 1]]

Continue(o) ==
    run' = [run EXCEPT ![o] =
        IF @.next = Len(@.script) THEN [@ EXCEPT !.at = "done"]
        ELSE [@ EXCEPT !.next = run[o].next + 1]]

Execute(o) ==
    /\ run[o].at = "running"
    /\ Works(Batch(o))
    /\ Effect(Batch(o))
    /\ Continue(o)
    /\ UNCHANGED cuts

(* A batch raises, and so does the script.                                 *)
Stop(o) == run' = [run EXCEPT ![o].at = "failed"]

BatchFails(o) ==
    /\ run[o].at = "running"
    /\ ~Works(Batch(o))
    /\ Stop(o)
    /\ UNCHANGED <<database, cuts>>

(* The connection is lost before the batch, or after it was committed.     *)
Cut(o) ==
    /\ run[o].at = "running"
    /\ cuts < MaxCuts
    /\ cuts' = cuts + 1
    /\ \/ Works(Batch(o)) /\ Effect(Batch(o))
       \/ UNCHANGED database
    /\ Stop(o)

Next == \E o \in Operators : Begin(o) \/ Execute(o) \/ BatchFails(o) \/ Cut(o)

Spec == Init /\ [][Next]_vars
-----------------------------------------------------------------------------
(* However often the setup is run, by however many people at a time, and   *)
(* wherever its runs break off, the seed rows go in once at most           *)
(* (apply_azure_sql.py:124-128, 001_create_schema.sql:4).                  *)
SeededOnce == students <= 20 /\ admins <= 3

(* "Safe to re-run": whatever state earlier runs have left, interrupted or *)
(* crossing each other, a run of 006 that no other run crosses fails only  *)
(* with its connection (006_drop_superadmin_role.sql:2).                   *)
RolesRerunnable ==
    [][\A o \in Operators :
          /\ run[o].script = RolesScript /\ run[o].at = "running" /\ run[o].alone
          /\ cuts' = cuts
          => run'[o].at # "failed"]_vars
=============================================================================
