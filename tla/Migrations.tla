----------------------------- MODULE Migrations -----------------------------
(***************************************************************************)
(* src/migrations: the registry of migration steps, its search for a chain *)
(* of steps between two versions, and the runner that takes a state along  *)
(* the chain, awaiting every step, and back when one fails.                *)
(*                                                                         *)
(* A state is what the schemas tell of it: the version it is valid at, or  *)
(* Odd.  A step given a state of its first version makes one of its second *)
(* version, or fails, or - a mistake in it - makes an odd one; given any   *)
(* other state it makes an odd one or fails.  Rollbacks are likewise.      *)
(* A plan holds the steps themselves, so a run is indifferent to what is   *)
(* registered after it has begun; the model registers between runs only.   *)
(* With validation every version has a schema, as contractMigrations.ts    *)
(* registers them.  The reports' times and messages are left out.          *)
(***************************************************************************)
EXTENDS Integers, Sequences, FiniteSets, SequencesExt

CONSTANTS
  Versions, Odd,
  StepDefinitions, \* steps [id, from, to, rollback]; rollback tells if there is one
  Jumps,           \* the pairs of versions a migration is asked for
  MaxSteps         \* bound on the steps registered

ASSUME MigrationAssumption ==
  /\ Odd \notin Versions /\ IsFiniteSet(Versions) /\ MaxSteps \in Nat
  /\ \A s \in StepDefinitions : {s.from, s.to} \subseteq Versions /\ s.rollback \in BOOLEAN
  /\ Jumps \subseteq Versions \X Versions

VARIABLES
  steps,     \* stepsByContract of one contract, oldest first
  migration  \* the run of the runner: options, plan and progress

migrationVars == <<steps, migration>>

NoPath == <<[id |-> "none", from |-> Odd, to |-> Odd, rollback |-> FALSE]>>

\* `slipped' tells whether a rollback made an odd state: no part of the report.
Idle == [phase |-> "idle", from |-> Odd, to |-> Odd, plan |-> <<>>,
         dryRun |-> FALSE, rollbackOnFailure |-> FALSE, validate |-> FALSE,
         initial |-> Odd, state |-> Odd, next |-> 1, failure |-> "none", failed |-> 0,
         undo |-> 0, allRolledBack |-> FALSE, rollbacks |-> <<>>, slipped |-> FALSE,
         status |-> "none"]

MigrationInit == steps = <<>> /\ migration = Idle

\* filter(): there is one step of an id.
Without(id) ==
  IF \E k \in DOMAIN steps : steps[k].id = id
  THEN RemoveAt(steps, CHOOSE k \in DOMAIN steps : steps[k].id = id)
  ELSE steps

\* register(): replaces a step of the same id, and comes last.
RegisterStep(s) ==
  /\ migration.phase = "idle" /\ Len(Without(s.id)) < MaxSteps
  /\ steps' = Append(Without(s.id), s)
  /\ UNCHANGED migration

UnregisterStep(id) ==
  /\ migration.phase = "idle"
  /\ steps' = Without(id)
  /\ UNCHANGED migration

\* Mutant: the newest path is extended first.
PutFirst(queue, node) == <<node>> \o queue

\* queue.push()
Enqueue(queue, node) == Append(queue, node)

\* One turn of the inner loop: an edge of the node's version leads to the version
\* looked for, to a new one, or to one that was visited.
ExamineEdge(s, node, edge, to) ==
  IF s.found # NoPath \/ edge.from # node.version THEN s
  ELSE IF edge.to = to THEN [s EXCEPT !.found = Append(node.path, edge)]
  ELSE IF edge.to \in s.visited THEN s
  ELSE [s EXCEPT !.visited = @ \cup {edge.to},
                 !.queue = Enqueue(@, [version |-> edge.to, path |-> Append(node.path, edge)])]

\* One turn of the outer loop: the oldest node is taken, and its edges examined.
TakeNode(s, known, to) ==
  IF s.queue = <<>> \/ s.found # NoPath THEN s
  ELSE LET node == Head(s.queue)
           examined[i \in 0..Len(known)] ==
             IF i = 0 THEN [s EXCEPT !.queue = Tail(@)]
             ELSE ExamineEdge(examined[i - 1], node, known[i], to)
       IN  examined[Len(known)]

StartAt(from) ==
  [queue |-> <<[version |-> from, path |-> <<>>]>>, visited |-> {from}, found |-> NoPath]

\* resolvePath().  A version is queued once, so that there are no more turns than
\* versions.
ResolvePath(known, from, to) ==
  IF from = to THEN <<>>
  ELSE LET search[n \in 0..Cardinality(Versions)] ==
             IF n = 0 THEN StartAt(from) ELSE TakeNode(search[n - 1], known, to)
       IN  search[Cardinality(Versions)].found

\* migrate(): the plan is made of the steps as they are now.
Migrate(from, to, state, dryRun, rollbackOnFailure, validate) ==
  /\ migration.phase = "idle"
  /\ LET plan == ResolvePath(steps, from, to)
     IN  migration' =
           [Idle EXCEPT !.phase = IF plan = NoPath THEN "done" ELSE "running",
              !.status = IF plan = NoPath THEN "thrown" ELSE "none",
              !.from = from, !.to = to, !.plan = plan, !.dryRun = dryRun,
              !.rollbackOnFailure = rollbackOnFailure, !.validate = validate,
              !.initial = state, !.state = state]
  /\ UNCHANGED steps

Completed == migration.next - 1

\* Mutant: a dry run returns the state it made.
FinishRunAsIs(m) ==
  IF m.failure = "error" /\ m.rollbackOnFailure /\ ~m.dryRun
  THEN [m EXCEPT !.phase = "undoing", !.undo = m.next - 1, !.allRolledBack = m.next > 1]
  ELSE [m EXCEPT !.phase = "done", !.status = IF m.failure = "error" THEN "failed" ELSE "completed"]

\* The end of run(), with or without a rollback: a failure counts if it is
\* truthy, so a step that rejects with undefined is a failed step of a
\* migration that is completed.
FinishRun(m) ==
  IF m.failure = "error" /\ m.rollbackOnFailure /\ ~m.dryRun
  THEN [m EXCEPT !.phase = "undoing", !.undo = m.next - 1, !.allRolledBack = m.next > 1]
  ELSE [m EXCEPT !.phase = "done",
          !.status = IF m.failure = "error" THEN "failed" ELSE "completed",
          !.state = IF m.dryRun THEN m.initial ELSE m.state]

FailStep(failure) ==
  migration' = FinishRun([migration EXCEPT !.failure = failure, !.failed = 1])

\* What a function for states of one version may make of a state.
Makes(state, from, to) == IF state = from THEN {to, Odd} ELSE {Odd}

\* One turn of the loop of run(): validate, await the step, validate again.
RunStep ==
  /\ migration.phase = "running" /\ migration.next <= Len(migration.plan)
  /\ LET s == migration.plan[migration.next]
     IN  IF migration.validate /\ migration.state # s.from THEN FailStep("error")
         ELSE \/ \E failure \in {"error", "falsy"} : FailStep(failure)
              \/ \E state \in Makes(migration.state, s.from, s.to) :
                   IF migration.validate /\ state # s.to THEN FailStep("error")
                   ELSE migration' = [migration EXCEPT !.state = state, !.next = @ + 1]
  /\ UNCHANGED steps

RunEndsWell ==
  /\ migration.phase = "running" /\ migration.next > Len(migration.plan)
  /\ migration' = FinishRun(migration)
  /\ UNCHANGED steps

\* rollback(): one turn of its loop, from the last completed step to the first.
\* A step that cannot be rolled back is passed over, and the one before it is
\* given the state as it is.
RollbackStep ==
  /\ migration.phase = "undoing" /\ migration.undo > 0
  /\ LET s == migration.plan[migration.undo]
         m == [migration EXCEPT !.undo = @ - 1]
     IN  IF ~s.rollback THEN migration' = [m EXCEPT !.allRolledBack = FALSE]
         ELSE \/ migration' = [m EXCEPT !.allRolledBack = FALSE,
                                        !.rollbacks = Append(@, "failed")]
              \/ \E state \in Makes(m.state, s.to, s.from) :
                   migration' = [m EXCEPT !.state = state, !.rollbacks = Append(@, "succeeded"),
                                        !.slipped = @ \/ state = Odd]
  /\ UNCHANGED steps

RollbackEnds ==
  /\ migration.phase = "undoing" /\ migration.undo = 0
  /\ migration' = [migration EXCEPT !.phase = "done",
       !.status = IF migration.allRolledBack THEN "rolled_back" ELSE "failed"]
  /\ UNCHANGED steps

MigrationNext ==
  \/ \E s \in StepDefinitions : RegisterStep(s) \/ UnregisterStep(s.id)
  \/ \E j \in Jumps, d, r, v \in BOOLEAN : \E state \in {j[1], Odd} :
       Migrate(j[1], j[2], state, d, r, v)
  \/ RunStep \/ RunEndsWell \/ RollbackStep \/ RollbackEnds

MigrationSpec == MigrationInit /\ [][MigrationNext]_migrationVars

-----------------------------------------------------------------------------
(* Properties *)

MigrationTypeOK ==
  /\ Len(steps) <= MaxSteps /\ Range(steps) \subseteq StepDefinitions
  /\ migration.phase \in {"idle", "running", "undoing", "done"}
  /\ migration.status \in {"none", "thrown", "completed", "failed", "rolled_back"}
  /\ migration.state \in Versions \cup {Odd} /\ migration.next \in 1..(MaxSteps + 1)

Chains(known, from, to, n) ==
  {c \in [1..n -> Range(known)] :
     /\ c[1].from = from /\ c[n].to = to
     /\ \A i \in 1..(n - 1) : c[i].to = c[i + 1].from}

\* Whether resolvePath() finds a chain of registered steps, and none is shorter.
PathsAreShortest ==
  \A from \in {steps[i].from : i \in DOMAIN steps}, to \in Versions :
    LET path == ResolvePath(steps, from, to)
        reachable(n) == \E k \in 1..n : Chains(steps, from, to, k) # {}
    IN  \/ path = <<>> /\ from = to
        \/ path = NoPath /\ from # to /\ ~reachable(Len(steps))
        \/ /\ path \in Chains(steps, from, to, Len(path))
           /\ from # to /\ ~reachable(Len(path) - 1)

(* A plan is a shortest chain of the registered steps, in whichever order they
   were registered, and the report of a migration tells where the state is.  With
   validation, a run that is completed with no failed step leaves the state at
   the version asked for, and a failed one at the version that the last
   completed step reached, unless a rollback was begun; a dry run returns the
   state it was given.  A run that is rolled back has undone every completed
   step, of which there is one; and if no rollback function made a mistake the
   state is again at the version it came from.
   (src/migrations/migrationRegistry.ts:57, migrationRunner.ts:134-166, 170) *)
ReportTellsVersion ==
  LET m == migration
      reached == IF Completed = 0 THEN m.initial ELSE m.plan[Completed].to
      rolling == m.failure = "error" /\ m.rollbackOnFailure /\ ~m.dryRun
  IN  /\ m.phase = "idle" => PathsAreShortest
      /\ m.phase = "done" /\ m.status # "thrown" =>
           /\ m.dryRun => m.state = m.initial
           /\ m.validate /\ ~m.dryRun /\ ~rolling => m.state = reached
           /\ m.validate /\ ~m.dryRun /\ m.status = "completed" /\ m.failed = 0 =>
                m.state = (IF m.plan = <<>> THEN m.initial ELSE m.to)
           /\ m.status = "rolled_back" =>
                /\ rolling /\ Completed > 0 /\ Len(m.rollbacks) = Completed
                /\ m.validate /\ ~m.slipped => m.state = m.from
           /\ m.status = "failed" => m.failed = 1
=============================================================================
