------------------------------ MODULE Pipeline ------------------------------
(***************************************************************************)
(* The step engine: Pipeline.Run of internal/pipeline/pipeline.go, for     *)
(* several firn processes (headless, TUI, GUI) started on one machine.     *)
(* A run announces itself, takes the machine-wide install lock, executes   *)
(* its steps in order, unwinds the undos the steps registered, drops the   *)
(* lock and ends its event stream with one verdict.  Steps, undos and the  *)
(* event sink may fail at any point, and a process may be killed; the      *)
(* commands it was running then survive it for a while.                    *)
(*                                                                         *)
(* What a step does is abstract here: it may emit events, register undos,  *)
(* queue a summary item, and return.  Installer gives the steps of the     *)
(* bootc install their contents.                                           *)
(***************************************************************************)
EXTENDS Naturals, Sequences, FiniteSets

CONSTANTS
    Runs,           \* firn processes
    NumSteps,       \* steps of the assembled pipeline
    NumPreflight,   \* the first NumPreflight of them are preflight steps
    DeferSteps,     \* steps that register an undo with Env.Defer
    None            \* the install lock has no holder

ASSUME StepsAssumption ==
    /\ NumSteps \in Nat \ {0} /\ NumPreflight \in 0..NumSteps
    /\ DeferSteps \subseteq (NumPreflight + 1)..NumSteps

ASSUME NoneAssumption == None \notin Runs

VARIABLES
    dry,         \* the runs in dry-run mode; never changes
    lock,        \* holder of the flock on /run/firn/install.lock
    pc,          \* where Run stands
    step,        \* steps started (Env.CurrentStep + 1)
    stack,       \* undos registered and not yet run: the step that did
    emitErr,     \* runs whose Env.emitErr is set: the event sink failed
    err,         \* runs whose runErr is not nil
    code,        \* errorCode(runErr)
    failedStep,  \* the step the error names; 0 is the empty name
    summary,     \* runs whose Env.Summary is not empty
    fails,       \* undos that failed
    warned,      \* failed undos already joined into runErr
    orphan,      \* killed runs a command of which still writes the disk
    last, index  \* what the consumer has received: see ProgressStream

vars == <<dry, lock, pc, step, stack, emitErr, err, code, failedStep,
          summary, fails, warned, orphan, last, index>>

PCs   == {"idle", "started", "steps", "run", "unwind", "report", "summary",
          "verdict", "returned", "crashed"}
Codes == {"none", "step_failed", "coded", "install_in_progress"}

Preflight(s) == s <= NumPreflight

\* Fault: a dry run executes everything.
ExecutesInDryRun(r) == TRUE
Executes(r)  == r \notin dry \/ Preflight(step[r])

(* r may be changing the disk: a destructive step, or an undo.             *)
Writing(r) ==
    /\ r \notin dry
    /\ \/ pc[r] = "run" /\ ~Preflight(step[r])
       \/ pc[r] = "unwind" /\ stack[r] # <<>>

S == INSTANCE ProgressStream WITH dirty <- {r \in Runs : fails[r] > 0}

SinkTypeOK  == emitErr \subseteq Runs /\ last \in [Runs -> S!Kinds]
ErrorTypeOK ==
    /\ err \subseteq Runs /\ code \in [Runs -> Codes]
    /\ failedStep \in [Runs -> 0..NumSteps]
TypeOK ==
    /\ SinkTypeOK
    /\ ErrorTypeOK
    /\ pc \in [Runs -> PCs]
    /\ dry \subseteq Runs /\ summary \subseteq Runs /\ orphan \subseteq Runs
    /\ lock \in Runs \cup {None}
    /\ step \in [Runs -> 0..NumSteps] /\ index \in [Runs -> 0..NumSteps]
    /\ stack \in [Runs -> Seq(DeferSteps)]
    /\ fails \in [Runs -> Nat] /\ warned \in [Runs -> Nat]

Init ==
    /\ dry \in SUBSET Runs
    /\ lock = None
    /\ pc = [r \in Runs |-> "idle"]
    /\ step = [r \in Runs |-> 0]
    /\ stack = [r \in Runs |-> <<>>]
    /\ emitErr = {}
    /\ err = {}
    /\ code = [r \in Runs |-> "none"]
    /\ failedStep = [r \in Runs |-> 0]
    /\ summary = {}
    /\ fails = [r \in Runs |-> 0] /\ warned = [r \in Runs |-> 0]
    /\ orphan = {}
    /\ last = [r \in Runs |-> "none"]
    /\ index = [r \in Runs |-> 0]

-----------------------------------------------------------------------------
Goto(r, there) == pc' = [pc EXCEPT ![r] = there]

\* Fault: every event is tried, whatever happened to earlier ones.
EmitNotSticky(r, kind, ok) ==
    /\ emitErr' = IF ok THEN emitErr ELSE emitErr \cup {r}
    /\ last' = [last EXCEPT ![r] = IF ok THEN kind ELSE @]

(* Env.Emit: the first failure of the sink is kept, and after it nothing   *)
(* more is sent, so that the code's tests of emitErr before it emits are   *)
(* in here.  `ok` says whether the sink accepts this event.                *)
Emit(r, kind, ok) ==
    /\ emitErr' = IF ok THEN emitErr ELSE emitErr \cup {r}
    /\ last' = [last EXCEPT ![r] = IF ok /\ r \notin emitErr THEN kind ELSE @]

(* runErr = err: the code and the step of the first error are kept.        *)
Fail(r, why, s) ==
    /\ err' = err \cup {r}
    /\ code' = [code EXCEPT ![r] = IF r \in err THEN @ ELSE why]
    /\ failedStep' = [failedStep EXCEPT ![r] = s]

Succeed == UNCHANGED <<err, code, failedStep>>

(* An event that must go out before the run moves on to `there`.           *)
Proceed(r, ok, there, s) ==
    IF ok THEN Goto(r, there) /\ Succeed
          ELSE Goto(r, "unwind") /\ Fail(r, "step_failed", s)

(* Run begins: the start event.                                            *)
Begin(r, ok) ==
    /\ pc[r] = "idle"
    /\ Emit(r, "start", ok)
    /\ Proceed(r, ok, "started", 0)
    /\ UNCHANGED <<dry, lock, step, stack, summary, fails, warned, orphan,
                   index>>

(* The command's emitter sends a compatibility warning inside the same     *)
(* Emit(Start): if it fails the run does not begin although the consumer   *)
(* has the start event.                                                    *)
DeprecationWarning(r, ok) ==
    /\ pc[r] = "started"
    /\ Emit(r, "body", ok)
    /\ Proceed(r, ok, "started", 0)
    /\ UNCHANGED <<dry, lock, step, stack, summary, fails, warned, orphan,
                   index>>

(* acquireInstallLock: an exclusive, non-blocking flock.                   *)
TakeLock(r) ==
    /\ pc[r] = "started" /\ r \notin dry /\ lock = None
    /\ lock' = r
    /\ Goto(r, "steps")
    /\ UNCHANGED <<dry, step, stack, emitErr, err, code, failedStep, summary,
                   fails, warned, orphan, last, index>>

\* Fault: the refusal is recorded but the run goes on.
RefuseLockAndGoOn(r) ==
    /\ pc[r] = "started" /\ r \notin dry /\ lock # None
    /\ Fail(r, "install_in_progress", 0)
    /\ Goto(r, "steps")
    /\ UNCHANGED <<dry, lock, step, stack, emitErr, summary, fails, warned,
                   orphan, last, index>>

(* ... held by another process, or the lock file cannot be opened.         *)
RefuseLock(r) ==
    /\ pc[r] = "started" /\ r \notin dry
    /\ \/ lock # None /\ Fail(r, "install_in_progress", 0)
       \/ Fail(r, "step_failed", 0)
    /\ Goto(r, "unwind")
    /\ UNCHANGED <<dry, lock, step, stack, emitErr, summary, fails, warned,
                   orphan, last, index>>

SkipLock(r) ==
    /\ pc[r] = "started" /\ r \in dry
    /\ Goto(r, "steps")
    /\ UNCHANGED <<dry, lock, step, stack, emitErr, err, code, failedStep,
                   summary, fails, warned, orphan, last, index>>

-----------------------------------------------------------------------------
(* runSteps.                                                               *)

(* The next step is announced; a sink that fails now stops the run before  *)
(* the step has done anything.                                             *)
StartStep(r, ok) ==
    /\ pc[r] = "steps" /\ step[r] < NumSteps
    /\ step' = [step EXCEPT ![r] = @ + 1]
    /\ Emit(r, "step_start", ok)
    /\ index' = IF ok THEN [index EXCEPT ![r] = step[r] + 1] ELSE index
    /\ Proceed(r, ok, "run", step[r] + 1)
    /\ UNCHANGED <<dry, lock, stack, summary, fails, warned, orphan>>

(* In a dry run every other step is only announced.                        *)
SkipStep(r, ok) ==
    /\ pc[r] = "run" /\ ~Executes(r)
    /\ Emit(r, "body", ok)
    /\ Proceed(r, ok, "steps", step[r])
    /\ UNCHANGED <<dry, lock, step, stack, summary, fails, warned, orphan,
                   index>>

(* Inside a step: an event (its callbacks may ignore a failing sink), an   *)
(* undo registered once what it undoes has been acquired, a summary item.  *)
StepEmits(r, ok) ==
    /\ pc[r] = "run" /\ Executes(r)
    /\ Emit(r, "body", ok)
    /\ UNCHANGED <<dry, lock, pc, step, stack, err, code, failedStep, summary,
                   fails, warned, orphan, index>>

StepDefers(r) ==
    /\ pc[r] = "run" /\ Executes(r) /\ step[r] \in DeferSteps
    /\ \A i \in DOMAIN stack[r] : stack[r][i] # step[r]   \* one undo a step
    /\ stack' = [stack EXCEPT ![r] = Append(@, step[r])]
    /\ UNCHANGED <<dry, lock, pc, step, emitErr, err, code, failedStep,
                   summary, fails, warned, orphan, last, index>>

StepAddsSummary(r) ==
    /\ pc[r] = "run" /\ Executes(r)
    /\ summary' = summary \cup {r}
    /\ UNCHANGED <<dry, lock, pc, step, stack, emitErr, err, code, failedStep,
                   fails, warned, orphan, last, index>>

\* Fault: a failing step ends the loop but its error is dropped.
StepReturnsSilently(r, ok) ==
    /\ pc[r] = "run" /\ Executes(r)
    /\ Goto(r, IF ok THEN "steps" ELSE "unwind")
    /\ UNCHANGED <<dry, lock, step, stack, emitErr, err, code, failedStep,
                   summary, fails, warned, orphan, last, index>>

(* The step returns.  A sink that failed during it fails the run even if   *)
(* the step succeeded.                                                     *)
StepReturns(r, ok) ==
    /\ pc[r] = "run" /\ Executes(r)
    /\ IF ok /\ r \notin emitErr
       THEN Goto(r, "steps") /\ Succeed
       ELSE /\ Goto(r, "unwind")
            /\ \E why \in {"step_failed", "coded"} : Fail(r, why, step[r])
    /\ UNCHANGED <<dry, lock, step, stack, emitErr, summary, fails, warned,
                   orphan, last, index>>

\* Fault: the lock is dropped before the undos run.
StepsDoneUnlocks(r) ==
    /\ pc[r] = "steps" /\ step[r] = NumSteps
    /\ Goto(r, "unwind")
    /\ lock' = IF lock = r THEN None ELSE lock
    /\ UNCHANGED <<dry, step, stack, emitErr, err, code, failedStep, summary,
                   fails, warned, orphan, last, index>>

StepsDone(r) ==
    /\ pc[r] = "steps" /\ step[r] = NumSteps
    /\ Goto(r, "unwind")
    /\ UNCHANGED <<dry, lock, step, stack, emitErr, err, code, failedStep,
                   summary, fails, warned, orphan, last, index>>

-----------------------------------------------------------------------------
(* Env.unwind: every undo runs, the newest first; a failing one is         *)
(* reported and does not stop the others.                                  *)
Undo(r, ok) ==
    /\ pc[r] = "unwind" /\ stack[r] # <<>>
    /\ stack' = [stack EXCEPT ![r] = SubSeq(@, 1, Len(@) - 1)]
    /\ fails' = [fails EXCEPT ![r] = IF ok THEN @ ELSE @ + 1]
    /\ UNCHANGED <<dry, lock, pc, step, emitErr, err, code, failedStep,
                   summary, warned, orphan, last, index>>

Unwound(r) ==
    /\ pc[r] = "unwind" /\ stack[r] = <<>>
    /\ Goto(r, "report")
    /\ UNCHANGED <<dry, lock, step, stack, emitErr, err, code, failedStep,
                   summary, fails, warned, orphan, last, index>>

\* Fault: a failed undo is only a warning.
WarnCleanupOnly(r, ok) ==
    /\ pc[r] = "report" /\ warned[r] < fails[r]
    /\ warned' = [warned EXCEPT ![r] = @ + 1]
    /\ Emit(r, "cleanup", ok)
    /\ UNCHANGED <<dry, lock, pc, step, stack, err, code, failedStep, summary,
                   fails, orphan, index>>

(* Each failed undo becomes a cleanup_failed warning while the sink works, *)
(* and always part of the run's error; the step that failed stays named.   *)
WarnCleanup(r, ok) ==
    /\ pc[r] = "report" /\ warned[r] < fails[r]
    /\ warned' = [warned EXCEPT ![r] = @ + 1]
    /\ Emit(r, "cleanup", ok)
    /\ Fail(r, "step_failed", failedStep[r])
    /\ UNCHANGED <<dry, lock, pc, step, stack, summary, fails, orphan, index>>

\* Fault: an error path that forgets the lock.
ReleaseLockOnSuccess(r) ==
    /\ pc[r] = "report" /\ warned[r] = fails[r]
    /\ lock' = IF lock = r /\ r \notin err THEN None ELSE lock
    /\ Goto(r, "summary")
    /\ UNCHANGED <<dry, step, stack, emitErr, err, code, failedStep, summary,
                   fails, warned, orphan, last, index>>

(* releaseLock, then a sink that failed on a warning joins the error.      *)
ReleaseLock(r) ==
    /\ pc[r] = "report" /\ warned[r] = fails[r]
    /\ lock' = IF lock = r THEN None ELSE lock
    /\ IF r \in emitErr THEN Fail(r, "step_failed", failedStep[r]) ELSE Succeed
    /\ Goto(r, "summary")
    /\ UNCHANGED <<dry, step, stack, emitErr, summary, fails, warned, orphan,
                   last, index>>

EmitSummary(r, ok) ==
    /\ pc[r] = "summary"
    /\ \/ /\ r \in summary /\ Emit(r, "summary", ok)
          /\ IF ok THEN Succeed ELSE Fail(r, "step_failed", failedStep[r])
       \/ r \notin summary /\ UNCHANGED <<emitErr, last>> /\ Succeed
    /\ Goto(r, "verdict")
    /\ UNCHANGED <<dry, lock, step, stack, summary, fails, warned, orphan,
                   index>>

(* Exactly one of Done and Error, unless the sink itself has failed.       *)
EmitVerdict(r, ok) ==
    /\ pc[r] = "verdict"
    /\ \/ r \in err /\ Emit(r, "error", ok) /\ Succeed
       \/ /\ r \notin err /\ Emit(r, "done", ok)
          /\ IF ok THEN Succeed ELSE Fail(r, "step_failed", 0)
    /\ Goto(r, "returned")
    /\ UNCHANGED <<dry, lock, step, stack, summary, fails, warned, orphan,
                   index>>

-----------------------------------------------------------------------------
(* The process is killed.  The kernel drops its flock; the commands it had *)
(* started do not hold it (O_CLOEXEC) and run on until they finish.        *)
Crash(r) ==
    /\ pc[r] \notin {"idle", "returned", "crashed"}
    /\ Goto(r, "crashed")
    /\ lock' = IF lock = r THEN None ELSE lock
    /\ \/ Writing(r) /\ orphan' = orphan \cup {r}
       \/ UNCHANGED orphan
    /\ UNCHANGED <<dry, step, stack, emitErr, err, code, failedStep, summary,
                   fails, warned, last, index>>

OrphanExits(r) ==
    /\ r \in orphan
    /\ orphan' = orphan \ {r}
    /\ UNCHANGED <<dry, lock, pc, step, stack, emitErr, err, code, failedStep,
                   summary, fails, warned, last, index>>

(* The steps the engine takes by itself once Run has been called.          *)
Progress(r) ==
    \/ \E ok \in BOOLEAN :
          \/ DeprecationWarning(r, ok) \/ StartStep(r, ok) \/ SkipStep(r, ok)
          \/ StepReturns(r, ok) \/ Undo(r, ok) \/ WarnCleanup(r, ok)
          \/ EmitSummary(r, ok) \/ EmitVerdict(r, ok)
    \/ TakeLock(r) \/ RefuseLock(r) \/ SkipLock(r) \/ StepsDone(r)
    \/ Unwound(r) \/ ReleaseLock(r) \/ OrphanExits(r)

(* What a running step may also do, any number of times.                   *)
StepBody(r) ==
    \/ \E ok \in BOOLEAN : StepEmits(r, ok)
    \/ StepDefers(r) \/ StepAddsSummary(r)

Next ==
    \E r \in Runs :
       \/ \E ok \in BOOLEAN : Begin(r, ok)
       \/ Progress(r) \/ StepBody(r) \/ Crash(r)

Spec == Init /\ [][Next]_vars

(* A process that is not killed is scheduled, and every command it waits   *)
(* for ends.  Nothing makes a user start a run.                            *)
Fairness == \A r \in Runs : WF_vars(Progress(r))

FairSpec == Spec /\ Fairness

-----------------------------------------------------------------------------
(* The install lock covers every write: a run holds it whenever a          *)
(* destructive step or an undo of it can touch the disk, and as long as it *)
(* holds mounts or mappers it has registered an undo for.  Two live runs   *)
(* therefore never write at once (acquireInstallLock, Run's comment on     *)
(* when the lock is released).                                             *)
LockCoversDisk ==
    \A r \in Runs :
       (Writing(r) \/ (stack[r] # <<>> /\ pc[r] # "crashed")) => lock = r

(* A run turned away because another one holds the lock has touched        *)
(* nothing: no step of it started, it owes no undo, it never had the lock, *)
(* and its error names no step (CodeInstallInProgress).                    *)
RefusedTouchesNothing ==
    \A r \in Runs :
       code[r] = "install_in_progress" =>
          /\ step[r] = 0 /\ failedStep[r] = 0
          /\ stack[r] = <<>> /\ fails[r] = 0 /\ lock # r

(* A dry run never keeps a real install out and never acquires anything    *)
(* that has to be undone (Run's comment on dry-run mode).                  *)
DryRunIsHarmless ==
    \A r \in Runs : r \in dry => lock # r /\ stack[r] = <<>> /\ r \notin orphan

(* What Run returns, what the stream says and what happened agree: a run   *)
(* reports Done exactly when it returns nil, and then every step ran and   *)
(* every undo worked; it reports Error exactly when it returns an error    *)
(* the sink could still carry.                                             *)
VerdictIsHonest ==
    \A r \in Runs : pc[r] = "returned" =>
       /\ r \notin err <=> last[r] = "done"
       /\ (r \in err /\ r \notin emitErr) <=> last[r] = "error"
       /\ r \notin err => step[r] = NumSteps /\ fails[r] = 0

(* Once the sink has failed the run is mute and makes no headway: nothing  *)
(* more is delivered and no further step starts (Env.Emit's comment), but  *)
(* undos still run.                                                        *)
MuteAfterSinkFailure ==
    [][\A r \in Runs : r \in emitErr => last'[r] = last[r] /\ step'[r] = step[r]]_vars

(* Each run's events form a legal progress stream.                         *)
StreamIsLegal == S!StreamSpec

(* Under fair scheduling a run that was started ends, and leaves neither   *)
(* the lock nor a writing command behind, whatever fails.                  *)
RunEndsAndUnlocks ==
    \A r \in Runs :
       pc[r] # "idle" ~>
          pc[r] \in {"returned", "crashed"} /\ lock # r /\ r \notin orphan
=============================================================================
