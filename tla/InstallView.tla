---------------------------- MODULE InstallView ----------------------------
(***************************************************************************)
(* The interactive install: the pipeline's goroutine, the channel that     *)
(* carries its events (internal/progress/channel.go), the Bubble Tea view  *)
(* that shows them (internal/tui/installview.go) and runTUIInstall         *)
(* (cmd/firn/tui.go), which waits for both.                                *)
(*                                                                         *)
(* The channel never refuses an event of a legal stream, so that the       *)
(* pipeline ends with Done exactly when Run returns nil (VerdictHonest in  *)
(* PipelineProofs).  The view reads one event at a time: a goroutine of    *)
(* the Bubble Tea runtime waits on the channel and hands what it got to    *)
(* Update, which orders the next read.                                     *)
(***************************************************************************)
EXTENDS Naturals, Sequences

CONSTANTS Cap,        \* buffer of the channel
          MaxEvents   \* bound: events before the terminal one

ASSUME CapAssumption == Cap \in Nat \ {0} /\ MaxEvents \in Nat

VARIABLES
    pipe,       \* running, blocked in Emit, returned, or closed: Close called
    pending,    \* the event a blocked Emit holds
    emitted,    \* history: the events handed to Emit, in order
    buf,        \* the channel's buffer
    cancelled,  \* the pipeline's context is done
    view,       \* Bubble Tea: running; quit by the user or killed by a signal,
                \* when its Run returns nil; dead when it returns an error
    reading,    \* a read of the channel is in progress on the view's behalf
    inbox,      \* what it has read, not yet handled by Update
    seen,       \* history: the events Update has handled
    gated,      \* the recovery-key screen is up
    key,        \* the result holds the recovery key
    finished,   \* the terminal event was seen
    result,     \* what the view learned: none, done, error
    main        \* runTUIInstall: view, drain (waiting on pipeDone), returned

pipeVars == <<pipe, pending, emitted, cancelled>>
viewVars == <<view, reading, inbox, seen, gated, key, finished, result>>
vars     == <<pipeVars, viewVars, buf, main>>

Terminal == {"done", "error"}
Events   == {"body", "key"} \cup Terminal

Init ==
    /\ pipe = "running" /\ pending = "body" /\ emitted = <<>> /\ buf = <<>>
    /\ cancelled = FALSE
    /\ view = "running" /\ reading = TRUE /\ inbox = <<>> /\ seen = <<>>
    /\ gated = FALSE /\ key = FALSE /\ finished = FALSE /\ result = "none"
    /\ main = "view"

Ended == emitted # <<>> /\ emitted[Len(emitted)] \in Terminal

-----------------------------------------------------------------------------
(* The pipeline's side.                                                    *)

\* Fault: one event more than the buffer holds.
EmitOverfull(e) ==
    /\ pipe = "running" /\ ~Ended
    /\ IF e \in Terminal THEN TRUE ELSE Len(emitted) < MaxEvents
    /\ emitted' = Append(emitted, e)
    /\ IF Len(buf) <= Cap
       THEN buf' = Append(buf, e) /\ UNCHANGED <<pipe, pending>>
       ELSE pipe' = "blocked" /\ pending' = e /\ UNCHANGED buf
    /\ UNCHANGED <<cancelled, viewVars, main>>

(* Channel.Emit: a full buffer blocks the sender, which holds the mutex.   *)
(* The recovery key is disclosed at most once.                             *)
Emit(e) ==
    /\ pipe = "running" /\ ~Ended
    /\ IF e \in Terminal THEN TRUE ELSE Len(emitted) < MaxEvents
    /\ e = "key" => \A i \in DOMAIN emitted : emitted[i] # "key"
    /\ emitted' = Append(emitted, e)
    /\ IF Len(buf) < Cap
       THEN buf' = Append(buf, e) /\ UNCHANGED <<pipe, pending>>
       ELSE pipe' = "blocked" /\ pending' = e /\ UNCHANGED buf
    /\ UNCHANGED <<cancelled, viewVars, main>>

Unblock ==
    /\ pipe = "blocked" /\ Len(buf) < Cap
    /\ buf' = Append(buf, pending)
    /\ pipe' = "running"
    /\ UNCHANGED <<pending, emitted, cancelled, viewVars, main>>

(* Run returns and its error is sent; the deferred Close follows.          *)
RunReturns ==
    /\ pipe = "running" /\ Ended
    /\ pipe' = "returned"
    /\ UNCHANGED <<pending, emitted, cancelled, viewVars, buf, main>>

Close ==
    /\ pipe = "returned"
    /\ pipe' = "closed"
    /\ UNCHANGED <<pending, emitted, cancelled, viewVars, buf, main>>

-----------------------------------------------------------------------------
(* The view's side.                                                        *)

(* waitForEvent.  What it reads after the view is gone is lost.            *)
ReadEvent ==
    /\ reading /\ buf # <<>>
    /\ reading' = FALSE
    /\ buf' = Tail(buf)
    /\ inbox' = IF view = "running" THEN <<Head(buf)>> ELSE <<>>
    /\ UNCHANGED <<pipeVars, view, seen, gated, key, finished, result, main>>

\* Fault: the view reads no further while it shows the recovery key.
HandleEventWaitsAtGate ==
    /\ view = "running" /\ inbox # <<>>
    /\ LET e == Head(inbox) IN
       /\ seen' = Append(seen, e)
       /\ gated' = (gated \/ e = "key") /\ key' = (key \/ e = "key")
       /\ finished' = (e \in Terminal)
       /\ result' = IF e \in Terminal THEN e ELSE result
       /\ reading' = (e = "body")
    /\ inbox' = <<>>
    /\ UNCHANGED <<pipeVars, view, buf, main>>

\* Fault: the run is taken for finished when it has been cancelled.
HandleEventCancelEnds ==
    /\ view = "running" /\ inbox # <<>>
    /\ LET e == Head(inbox) IN
       /\ seen' = Append(seen, e)
       /\ gated' = (gated \/ e = "key") /\ key' = (key \/ e = "key")
       /\ finished' = (e \in Terminal \/ cancelled)
       /\ result' = IF e \in Terminal THEN e
                    ELSE IF cancelled THEN "error" ELSE result
       /\ reading' = ~finished'
    /\ inbox' = <<>>
    /\ UNCHANGED <<pipeVars, view, buf, main>>

(* handleEvent: everything but a terminal event orders the next read.      *)
HandleEvent ==
    /\ view = "running" /\ inbox # <<>>
    /\ LET e == Head(inbox) IN
       /\ seen' = Append(seen, e)
       /\ gated' = (gated \/ e = "key") /\ key' = (key \/ e = "key")
       /\ finished' = (e \in Terminal)
       /\ result' = IF e \in Terminal THEN e ELSE result
       /\ reading' = (e \notin Terminal)
    /\ inbox' = <<>>
    /\ UNCHANGED <<pipeVars, view, buf, main>>

\* Fault: any key leaves the final screen, the recovery key behind it or not.
DismissUngated ==
    /\ view = "running" /\ finished
    /\ view' = "quit"
    /\ UNCHANGED <<pipeVars, reading, inbox, seen, gated, key, finished, result, buf, main>>

(* A key on the final screen.                                              *)
Dismiss ==
    /\ view = "running" /\ finished /\ ~gated
    /\ view' = "quit"
    /\ UNCHANGED <<pipeVars, reading, inbox, seen, gated, key, finished, result, buf, main>>

(* Ctrl+C: the pipeline's context is cancelled, the view stays.            *)
CtrlC ==
    /\ view = "running" /\ (finished => gated)
    /\ cancelled' = TRUE
    /\ UNCHANGED <<pipe, pending, emitted, viewVars, buf, main>>

(* Enter on the recovery-key screen.                                       *)
Acknowledge ==
    /\ view = "running" /\ gated
    /\ gated' = FALSE /\ key' = FALSE
    /\ UNCHANGED <<pipeVars, view, reading, inbox, seen, finished, result, buf, main>>

(* SIGTERM, which ends the view and the parent context of both.            *)
Terminate ==
    /\ view = "running"
    /\ view' \in {"killed", "dead"}
    /\ cancelled' = TRUE
    /\ UNCHANGED <<pipe, pending, emitted, reading, inbox, seen, gated, key,
                   finished, result, buf, main>>

(* The terminal fails.                                                     *)
Die ==
    /\ view = "running"
    /\ view' = "dead"
    /\ UNCHANGED <<pipeVars, reading, inbox, seen, gated, key, finished,
                   result, buf, main>>

-----------------------------------------------------------------------------
(* runTUIInstall.                                                          *)

(* The view has ended.  One that failed takes the pipeline with it.        *)
StopView ==
    /\ main = "view" /\ view # "running"
    /\ main' = "drain"
    /\ cancelled' = (cancelled \/ view = "dead")
    /\ UNCHANGED <<pipe, pending, emitted, viewVars, buf>>

\* Fault: the drain starts with the view.
DrainAlways ==
    /\ buf # <<>>
    /\ buf' = Tail(buf)
    /\ UNCHANGED <<pipeVars, viewVars, main>>

Drain ==
    /\ main # "view" /\ buf # <<>>
    /\ buf' = Tail(buf)
    /\ UNCHANGED <<pipeVars, viewVars, main>>

\* Fault: the run returns with the view.
ReturnEarly ==
    /\ main = "drain"
    /\ main' = "returned"
    /\ UNCHANGED <<pipeVars, viewVars, buf>>

Return ==
    /\ main = "drain" /\ pipe \in {"returned", "closed"}
    /\ main' = "returned"
    /\ UNCHANGED <<pipeVars, viewVars, buf>>

(* What the command makes of it (reportTUIResult): success only when the   *)
(* view learned of Done and did not fail itself.                           *)
ReportsSuccess == view # "dead" /\ result = "done"

Pipeline == (\E e \in Events : Emit(e)) \/ Unblock \/ RunReturns \/ Close
Runtime  == ReadEvent \/ HandleEvent
User     == Dismiss \/ CtrlC \/ Acknowledge \/ Terminate \/ Die
Main     == StopView \/ Drain \/ Return

Next == Pipeline \/ Runtime \/ User \/ Main

Spec == Init /\ [][Next]_vars

(* Goroutines are scheduled; nothing makes the user press a key.           *)
Fairness ==
    /\ WF_vars(Pipeline) /\ WF_vars(Runtime)
    /\ WF_vars(StopView) /\ WF_vars(Drain) /\ WF_vars(Return)

FairSpec == Spec /\ Fairness

-----------------------------------------------------------------------------
TypeOK ==
    /\ pipe \in {"running", "blocked", "returned", "closed"}
    /\ pending \in Events
    /\ emitted \in Seq(Events) /\ buf \in Seq(Events) /\ Len(buf) <= Cap
    /\ inbox \in Seq(Events) /\ Len(inbox) <= 1 /\ seen \in Seq(Events)
    /\ view \in {"running", "quit", "killed", "dead"} /\ main \in {"view", "drain", "returned"}
    /\ result \in {"none"} \cup Terminal
    /\ {cancelled, reading, gated, key, finished} \subseteq BOOLEAN

(* While the view is up, what it has handled, what is on its way to it and *)
(* what is still in the channel are the events emitted, in order: none is  *)
(* lost, doubled or overtaken, and the drain never competes with it.       *)
NothingLost ==
    view = "running" =>
       seen \o inbox \o buf \o (IF pipe = "blocked" THEN <<pending>> ELSE <<>>) = emitted

(* "The install is never orphaned": the command returns only when the      *)
(* pipeline has unwound, and then success is claimed only of an install    *)
(* that was done; a user who dismisses the final screen gets its verdict.  *)
ReportIsTrue ==
    main = "returned" =>
       /\ pipe \in {"returned", "closed"} /\ Ended
       /\ ReportsSuccess => emitted[Len(emitted)] = "done"
       /\ finished => result = emitted[Len(emitted)]

(* The recovery key is acknowledged before a user can leave the view, and  *)
(* is then no longer part of the result the command layer may log.         *)
KeyIsAcknowledged ==
    view = "quit" => ~gated /\ ~key

(* The pipeline never waits for ever for someone to read its events: not   *)
(* for a user in front of the recovery key, nor for a view that is dead;   *)
(* and once the view has ended, so does the command.                       *)
NobodyWaitsForEver ==
    /\ <>(pipe = "closed")
    /\ view # "running" ~> main = "returned"
=============================================================================
