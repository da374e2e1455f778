--------------------------- MODULE ProgressStream ---------------------------
(***************************************************************************)
(* What a consumer of firn's progress stream may rely on, for each run in  *)
(* Runs: the event vocabulary of internal/progress/progress.go and the     *)
(* order its comments promise.  The consumer sees one event at a time;     *)
(* `last` is the kind of the last one it received, `index` the number of   *)
(* the last step announced (1 for the first; 0 before any), and `dirty`    *)
(* is the set of runs an undo of which has failed.                         *)
(*                                                                         *)
(* The module is the abstract specification that Pipeline implements.      *)
(***************************************************************************)
EXTENDS Naturals

CONSTANTS Runs,      \* the runs of firn on one machine
          NumSteps   \* length of the assembled step list

VARIABLES last, index, dirty

streamVars == <<last, index, dirty>>

(* Events whose place in a step does not matter (step_progress, info,      *)
(* warning, recovery_key) are one kind, "body"; a cleanup_failed warning   *)
(* is told apart because its place does matter.                            *)
Terminal == {"done", "error"}
Running  == {"start", "step_start", "body"}
Kinds    == {"none", "cleanup", "summary"} \cup Running \cup Terminal

StreamTypeOK ==
    /\ last  \in [Runs -> Kinds]
    /\ index \in [Runs -> 0..NumSteps]
    /\ dirty \subseteq Runs

StreamInit ==
    /\ last  = [r \in Runs |-> "none"]
    /\ index = [r \in Runs |-> 0]
    /\ dirty = {}

Receive(r, from, kind) ==
    /\ last[r] \in from
    /\ last' = [last EXCEPT ![r] = kind]

Start(r) == Receive(r, {"none"}, "start") /\ UNCHANGED <<index, dirty>>

StepStart(r) ==
    /\ Receive(r, Running, "step_start")
    /\ \E i \in (index[r] + 1)..NumSteps : index' = [index EXCEPT ![r] = i]
    /\ UNCHANGED dirty

Body(r) == Receive(r, Running, "body") /\ UNCHANGED <<index, dirty>>

(* An undo fails: not an event, but from here on the run cannot be Done.   *)
UndoFails(r) ==
    /\ last[r] \in Running
    /\ dirty' = dirty \cup {r}
    /\ UNCHANGED <<last, index>>

CleanupWarning(r) ==
    /\ r \in dirty
    /\ Receive(r, Running \cup {"cleanup"}, "cleanup")
    /\ UNCHANGED <<index, dirty>>

Summary(r) ==
    /\ Receive(r, Running \cup {"cleanup"}, "summary")
    /\ UNCHANGED <<index, dirty>>

Done(r) ==
    /\ r \notin dirty /\ index[r] = NumSteps
    /\ Receive(r, Running \cup {"summary"}, "done")
    /\ UNCHANGED <<index, dirty>>

Error(r) ==
    /\ Receive(r, Running \cup {"cleanup", "summary"}, "error")
    /\ UNCHANGED <<index, dirty>>

StreamStep(r) ==
    \/ Start(r) \/ StepStart(r) \/ Body(r) \/ UndoFails(r)
    \/ CleanupWarning(r) \/ Summary(r) \/ Done(r) \/ Error(r)

StreamNext == \E r \in Runs : StreamStep(r)

StreamSpec == StreamInit /\ [][StreamNext]_streamVars
=============================================================================
