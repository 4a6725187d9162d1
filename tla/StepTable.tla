----------------------------- MODULE StepTable -----------------------------
(***************************************************************************)
(* The process_step rows of one process, as far as anything reads them     *)
(* back (repository/step_tracker.py, workflow_engine.replay_steps).        *)
(*                                                                         *)
(* A row is inserted as 'running' and updated once; only completed rows    *)
(* are ever read, so a table is the set of its finished rows.              *)
(***************************************************************************)
EXTENDS MeetingRoomWorkflow

\* Highest step number any executor can reach: a failed third step is
\* compensated under number 4.
MaxStepNo == Len(Plan) + 1

Row == [no : 1 .. MaxStepNo, act : Actions, st : {"completed", "failed"}]

\* list_completed_steps, keyed by step number the way replay_steps keys it:
\* which call a row belongs to is not part of the key.
CompletedNos(table) == {r.no : r \in {x \in table : x.st = "completed"}}

\* Mutant: a plan with every step recorded still has a failing step.
FailPointOfAll(table) ==
    CHOOSE n \in 1 .. Len(Plan) :
        /\ n \notin CompletedNos(table) \/ n = Len(Plan)
        /\ \A m \in 1 .. (n - 1) : m \in CompletedNos(table)

\* replay_steps: the first step of the plan whose number has no completed
\* row; Len(Plan) + 1 when every number has one ("replay all succeeded").
FailPoint(table) ==
    CHOOSE n \in 1 .. (Len(Plan) + 1) :
        /\ n \notin CompletedNos(table) \/ n = Len(Plan) + 1
        /\ \A m \in 1 .. (n - 1) : m \in CompletedNos(table)
=============================================================================
