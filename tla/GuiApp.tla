------------------------------- MODULE GuiApp -------------------------------
(***************************************************************************)
(* The graphical installer's application state, gui/internal/installer:    *)
(* the choices the user makes page by page, the disk scans and image       *)
(* inspections that come back to them later, the reviewed recipe and its   *)
(* typed confirmation, and one install at a time with its cancellation,    *)
(* its recovery key, retries, signals and the window's end.                *)
(*                                                                         *)
(* Everything but the pipeline and the slow calls happens on the main      *)
(* thread; other goroutines post closures to it, which run in the order    *)
(* they were posted.  Pages whose answers no property looks at are left    *)
(* out; their fields count as valid.                                       *)
(***************************************************************************)
EXTENDS Naturals, Sequences, FiniteSets

CONSTANTS Refs, Disks, None,
          MaxAsked, MaxAskedBusy, MaxSignals, MaxInstalls, MaxRequests   \* bounds

ASSUME NoneAssumption == None \notin Refs \cup Disks
ASSUME BoundsAssumption ==
    {MaxAsked, MaxAskedBusy, MaxSignals, MaxInstalls, MaxRequests} \subseteq Nat

VARIABLES
    page, furthest,
    entry, disk, core,       \* the choices: image, target disk, core flatpaks
    coreRef,                 \* the image that core's initial value is of
    disks, scanning, scanned,            \* disks, disksLoading, disksScanned
    preview, previewLoading, inspecting,
    asked,                   \* scans and inspections asked for so far: a bound
    reviewed,                \* the recipe shown on the review page
    confirmOpen, typed,      \* the confirmation dialog and what was typed
    phase, keyPending,       \* inst.phase, inst.recoveryKey # ""
    cancelFn,                \* cancelInstall # nil
    cancelled,               \* the install's context is done
    pipe, keyed,             \* the pipeline's goroutine; it disclosed a key
    posts,                   \* closures posted by the install, not yet run
    started,                 \* installs started
    quitWhenDone, forceQuit, signals,
    window,                  \* open, closed: the event loop ended, or exited
    session, persisted       \* sessions are numbered

choiceVars  == <<entry, disk, core, coreRef>>
scanVars    == <<disks, scanning, scanned>>
previewVars == <<preview, previewLoading, inspecting, asked>>
formVars    == <<page, furthest, reviewed, confirmOpen, typed>>
installVars == <<phase, keyPending, cancelFn, cancelled, pipe, keyed, posts, started>>
quitVars    == <<quitWhenDone, forceQuit, signals, window>>
sessionVars == <<session, persisted>>
vars == <<choiceVars, scanVars, previewVars, formVars, installVars, quitVars, sessionVars>>

PageImage   == 1
PageStorage == 2
PageApps    == 3
PageReview  == 4
PageInstall == 5

installing == phase = "running"

(* What the recipe's bytes say: reviewBytes and assemble.                  *)
Recipe == [ref |-> entry, disk |-> disk, core |-> core, session |-> session]

Init ==
    /\ page = PageImage /\ furthest = PageImage
    /\ entry \in Refs /\ disk = None /\ core = FALSE /\ coreRef = None
    /\ disks = [d \in Disks |-> "absent"]
    /\ scanning = TRUE /\ scanned = FALSE             \* openWindow
    /\ preview = None /\ previewLoading = None
    /\ inspecting = [r \in Refs |-> 0] /\ asked = 1
    /\ reviewed = None /\ confirmOpen = FALSE /\ typed = None
    /\ phase = "idle" /\ keyPending = FALSE /\ cancelFn = FALSE
    /\ cancelled = FALSE /\ pipe = "none" /\ keyed = FALSE /\ posts = <<>>
    /\ started = 0
    /\ quitWhenDone = FALSE /\ forceQuit = FALSE /\ signals = 0
    /\ window = "open"
    /\ session = 1 /\ persisted = FALSE

Open == window = "open"

(* Bounds on scans and inspections, lower where there are installs and     *)
(* signals too, and on all four together.                                  *)
MayRequest == asked + started + signals < MaxRequests
MayAsk     == MayRequest /\ asked < (IF started + signals = 0 THEN MaxAsked ELSE MaxAskedBusy)
MayAct     == MayRequest /\ asked <= MaxAskedBusy
-----------------------------------------------------------------------------
(* Disk scans.                                                             *)

Rescan ==
    /\ Open /\ page = PageStorage /\ ~scanning /\ MayAsk
    /\ scanning' = TRUE /\ asked' = asked + 1
    /\ UNCHANGED <<choiceVars, disks, scanned, preview, previewLoading, inspecting,
                   formVars, installVars, quitVars, sessionVars>>

Usable(found) == {d \in Disks : found[d] = "usable"}

\* Fault: a choice that the new scan refuses is kept.
SetDisksKeepsChoice(found) ==
    /\ Open /\ scanning
    /\ scanning' = FALSE /\ scanned' = TRUE
    /\ disks' = found
    /\ \/ disk # None /\ UNCHANGED disk
       \/ /\ disk = None
          /\ IF ~scanned /\ Usable(found) # {}
             THEN disk' \in Usable(found) ELSE UNCHANGED disk
    /\ UNCHANGED <<entry, core, coreRef, previewVars, formVars,
                   installVars, quitVars, sessionVars>>

(* setDisks: only the first scan chooses; a later one clears a choice that *)
(* is gone or refused.  (Which usable disk comes first is lsblk's choice.) *)
SetDisks(found) ==
    /\ Open /\ scanning
    /\ scanning' = FALSE /\ scanned' = TRUE
    /\ disks' = found
    /\ \/ disk # None /\ disk' = IF found[disk] = "usable" THEN disk ELSE None
       \/ /\ disk = None
          /\ IF ~scanned /\ Usable(found) # {}
             THEN disk' \in Usable(found) ELSE UNCHANGED disk
    /\ UNCHANGED <<entry, core, coreRef, previewVars, formVars,
                   installVars, quitVars, sessionVars>>

ScanFails ==
    /\ Open /\ scanning
    /\ scanning' = FALSE
    /\ disks' = [d \in Disks |-> "absent"]
    /\ UNCHANGED <<choiceVars, scanned, previewVars, formVars,
                   installVars, quitVars, sessionVars>>

-----------------------------------------------------------------------------
(* Image inspections.                                                      *)

(* setPreview.  `offered`: there is, or may be, a set of core flatpaks, so *)
(* that the user is offered the switch, on at first.                       *)
SetPreview(r, offered) ==
    /\ Open /\ inspecting[r] > 0
    /\ inspecting' = [inspecting EXCEPT ![r] = @ - 1]
    /\ previewLoading' = IF previewLoading = r THEN None ELSE previewLoading
    /\ IF r # entry THEN UNCHANGED <<preview, core, coreRef>>
       ELSE /\ preview' = [ref |-> r, offered |-> offered]
            /\ core' = (offered /\ (coreRef = r => core)) /\ coreRef' = r
    /\ UNCHANGED <<entry, disk, asked, scanVars, formVars, installVars,
                   quitVars, sessionVars>>

Previewed == preview # None /\ preview.ref = entry

\* Fault: one inspection at a time, of whatever image.
RefreshPreviewOne ==
    IF Previewed \/ previewLoading # None THEN UNCHANGED previewVars
    ELSE /\ MayAsk
         /\ previewLoading' = entry
         /\ inspecting' = [inspecting EXCEPT ![entry] = @ + 1]
         /\ asked' = asked + 1
         /\ UNCHANGED preview

(* refreshPreview, for the pages past the image page.                      *)
RefreshPreview ==
    IF Previewed \/ previewLoading = entry THEN UNCHANGED previewVars
    ELSE /\ MayAsk
         /\ previewLoading' = entry
         /\ inspecting' = [inspecting EXCEPT ![entry] = @ + 1]
         /\ asked' = asked + 1
         /\ UNCHANGED preview

-----------------------------------------------------------------------------
(* Pages.                                                                  *)

pageValid(p) ==
    CASE p = PageStorage -> disk # None /\ disks[disk] # "refused"
      [] p = PageApps    -> Previewed
      [] OTHER           -> TRUE

canReach(p) ==
    /\ page # PageInstall /\ p <= furthest
    /\ \A q \in PageImage..(p - 1) : pageValid(q)

(* goTo; on the review page it prepares the review for this session.  What *)
(* was reviewed is not looked at again elsewhere, unless a dialog is open. *)
goTo(p, inSession) ==
    /\ IF p > PageImage THEN RefreshPreview ELSE UNCHANGED previewVars
    /\ reviewed' = IF p = PageReview THEN [Recipe EXCEPT !.session = inSession]
                   ELSE IF confirmOpen THEN reviewed ELSE None
    /\ page' = p
    /\ furthest' = IF p > furthest THEN p ELSE furthest

formRest == UNCHANGED <<choiceVars, scanVars, installVars, quitVars, sessionVars>>

\* Fault: Continue works on the review page too.
NextPagePastReview ==
    /\ Open /\ page < PageInstall /\ pageValid(page)
    /\ goTo(page + 1, session)
    /\ UNCHANGED <<confirmOpen, typed>> /\ formRest

NextPage ==
    /\ Open /\ page < PageReview /\ pageValid(page)
    /\ goTo(page + 1, session)
    /\ UNCHANGED <<confirmOpen, typed>> /\ formRest

Back ==
    /\ Open /\ page \in PageStorage..PageReview
    /\ goTo(page - 1, session)
    /\ UNCHANGED <<confirmOpen, typed>> /\ formRest

Jump ==
    /\ Open
    /\ \E p \in PageImage..PageReview : canReach(p) /\ goTo(p, session)
    /\ UNCHANGED <<confirmOpen, typed>> /\ formRest

(* Next on the review page: back to a page that is not complete any more,  *)
(* or on to the confirmation.                                              *)
OpenConfirm ==
    /\ Open /\ page = PageReview
    /\ LET incomplete == {p \in PageImage..PageApps : ~pageValid(p)} IN
       IF incomplete # {}
       THEN /\ goTo(CHOOSE p \in incomplete : \A q \in incomplete : p <= q, session)
            /\ UNCHANGED <<confirmOpen, typed>>
       ELSE /\ confirmOpen' = TRUE /\ typed' = None
            /\ UNCHANGED <<page, furthest, reviewed, previewVars>>
    /\ formRest

(* The user's choices; the dialog is modal.                                *)
ChooseImage ==
    /\ Open /\ ~confirmOpen /\ page = PageImage
    /\ entry' \in Refs
    /\ UNCHANGED <<disk, core, coreRef, scanVars, previewVars, formVars,
                   installVars, quitVars, sessionVars>>

ChooseDisk ==
    /\ Open /\ ~confirmOpen /\ page = PageStorage
    /\ disk' \in Usable(disks)
    /\ UNCHANGED <<entry, core, coreRef, scanVars, previewVars, formVars,
                   installVars, quitVars, sessionVars>>

ToggleCore ==
    /\ Open /\ ~confirmOpen /\ page = PageApps /\ Previewed /\ preview.offered
    /\ core' = ~core
    /\ UNCHANGED <<entry, disk, coreRef, scanVars, previewVars, formVars,
                   installVars, quitVars, sessionVars>>

(* The dialog: an empty text and no disk are the same string.              *)
Type ==
    /\ Open /\ confirmOpen
    /\ typed' \in Disks
    /\ UNCHANGED <<page, furthest, reviewed, confirmOpen, previewVars>>
    /\ formRest

CloseConfirm ==
    /\ Open /\ confirmOpen
    /\ confirmOpen' = FALSE /\ typed' = None
    /\ UNCHANGED <<page, furthest, reviewed, previewVars>>
    /\ formRest

-----------------------------------------------------------------------------
(* The install.                                                            *)

Post(what) == posts' = Append(posts, [of |-> started, what |-> what])

(* persist: the reviewed recipe is written, loaded again and validated.    *)
Persists == Recipe = reviewed /\ disk # None

\* Fault: an install whose pipeline has not returned does not count.
OnePipeline == ~installing

(* One install at a time.                                                  *)
MayStart == ~installing /\ ~cancelFn

Matches == confirmOpen /\ typed = disk

startInstall ==
    /\ Open /\ Matches
    /\ MayStart /\ Persists
    /\ started < MaxInstalls /\ MayAct
    /\ confirmOpen' = FALSE /\ typed' = None
    /\ persisted' = TRUE
    /\ phase' = "running" /\ keyPending' = FALSE
    /\ page' = PageInstall
    /\ cancelFn' = TRUE /\ cancelled' = FALSE
    /\ pipe' = "running" /\ keyed' = FALSE /\ started' = started + 1
    /\ UNCHANGED <<choiceVars, scanVars, previewVars, furthest, reviewed,
                   posts, quitVars, session>>

(* ... a second click, or a recipe that cannot be persisted: the secrets   *)
(* written for it are removed again.                                       *)
StartRefused ==
    /\ Open /\ Matches
    /\ confirmOpen' = FALSE /\ typed' = None
    /\ UNCHANGED <<choiceVars, scanVars, previewVars, page, furthest, reviewed,
                   installVars, quitVars, sessionVars>>

(* The pipeline discloses a recovery key at most once, ends its events     *)
(* with a verdict, and returns; the consumer then posts finish.            *)
installRest == <<choiceVars, scanVars, previewVars, formVars, phase, keyPending,
                 cancelFn, cancelled, started, quitVars, sessionVars>>

PipeDiscloses ==
    /\ window # "exited" /\ pipe = "running" /\ ~keyed
    /\ keyed' = TRUE /\ Post("key")
    /\ UNCHANGED <<installRest, pipe>>

PipeEnds ==
    /\ window # "exited" /\ pipe = "running"
    /\ \E verdict \in {"done", "error"} : Post(verdict)
    /\ pipe' = "ended"
    /\ UNCHANGED <<installRest, keyed>>

PipeReturns ==
    /\ window # "exited" /\ pipe = "ended"
    /\ pipe' = "returned"
    /\ UNCHANGED <<installRest, keyed, posts>>

PostFinish ==
    /\ window # "exited" /\ pipe = "returned"
    /\ pipe' = "reaped" /\ Post("finish")
    /\ UNCHANGED <<installRest, keyed>>

cancelPipeline == cancelled' = (cancelled \/ (cancelFn /\ installing))

closeAllowed == ~installing /\ (~keyPending \/ forceQuit)

(* apply and finish, on the main thread.  A stream that ended without a    *)
(* verdict, which this pipeline never does, would be a failed install.     *)
Apply ==
    /\ Open /\ posts # <<>> /\ Head(posts).what # "finish"
    /\ posts' = Tail(posts)
    /\ CASE Head(posts).what = "key"   -> keyPending' = TRUE /\ UNCHANGED phase
         [] Head(posts).what = "done"  -> phase' = "done" /\ UNCHANGED keyPending
         [] Head(posts).what = "error" -> phase' = "failed" /\ UNCHANGED keyPending
    /\ UNCHANGED <<choiceVars, scanVars, previewVars, formVars, cancelFn, cancelled,
                   pipe, keyed, started, quitVars, sessionVars>>

\* Fault: a quit that was waiting for the install is forgotten.
FinishForgetsQuit ==
    /\ Open /\ posts # <<>> /\ Head(posts).what = "finish"
    /\ posts' = Tail(posts)
    /\ phase' = IF installing THEN "failed" ELSE phase
    /\ cancelFn' = FALSE /\ cancelled' = TRUE
    /\ UNCHANGED <<choiceVars, scanVars, previewVars, formVars, keyPending, pipe,
                   keyed, started, quitVars, sessionVars>>

Finish ==
    /\ Open /\ posts # <<>> /\ Head(posts).what = "finish"
    /\ posts' = Tail(posts)
    /\ phase' = IF installing THEN "failed" ELSE phase
    /\ cancelFn' = FALSE /\ cancelled' = TRUE
    /\ forceQuit' = (forceQuit \/ quitWhenDone)
    /\ window' = IF quitWhenDone THEN "closed" ELSE window
    /\ UNCHANGED <<choiceVars, scanVars, previewVars, formVars, keyPending, pipe,
                   keyed, started, quitWhenDone, signals, sessionVars>>

(* Stop, confirmed.                                                        *)
Cancel ==
    /\ Open /\ installing /\ cancelPipeline
    /\ UNCHANGED <<choiceVars, scanVars, previewVars, formVars, phase, keyPending,
                   cancelFn, pipe, keyed, posts, started, quitVars, sessionVars>>

Acknowledge ==
    /\ Open /\ keyPending
    /\ keyPending' = FALSE
    /\ UNCHANGED <<choiceVars, scanVars, previewVars, formVars, phase, cancelFn,
                   cancelled, pipe, keyed, posts, started, quitVars, sessionVars>>

(* retry, from the failed install's page; the key's dialog is modal.       *)
(* openSession fails when /run is full: the old session stays in use.      *)
Retry ==
    /\ Open /\ page = PageInstall /\ phase = "failed" /\ ~keyPending
    /\ session' \in {session, session + 1}
    /\ phase' = "idle" /\ persisted' = FALSE
    /\ goTo(PageReview, session')
    /\ UNCHANGED <<choiceVars, scanVars, confirmOpen, typed, keyPending, cancelFn,
                   cancelled, pipe, keyed, posts, started, quitVars>>

-----------------------------------------------------------------------------
(* The end.  quitRest is what no way of quitting changes.                  *)
quitRest == <<choiceVars, scanVars, previewVars, formVars, phase, keyPending,
              cancelFn, pipe, keyed, posts, started>>

(* The window's close button, Close, Quit and Ctrl+Q.                      *)
CloseWindow ==
    /\ Open /\ closeAllowed
    /\ window' = "closed"
    /\ UNCHANGED <<quitRest, cancelled, quitWhenDone, forceQuit, signals, sessionVars>>

(* quitApp asks OnBeforeQuit, which holds a running install, then OnClose. *)
CancelAndQuit ==
    /\ installing /\ quitWhenDone' = TRUE /\ cancelPipeline
    /\ UNCHANGED <<forceQuit, window>>

DesktopQuits ==
    /\ Open
    /\ \/ CancelAndQuit
       \/ closeAllowed /\ window' = "closed" /\ UNCHANGED <<quitWhenDone, forceQuit, cancelled>>
    /\ UNCHANGED <<quitRest, signals, sessionVars>>

onSignal ==
    /\ Open /\ signals < MaxSignals /\ MayAct
    /\ signals' = signals + 1
    /\ \/ CancelAndQuit
       \/ /\ ~installing /\ keyPending /\ signals' = 1
          /\ UNCHANGED <<quitWhenDone, forceQuit, window, cancelled>>
       \/ /\ ~installing /\ ~(keyPending /\ signals' = 1)
          /\ forceQuit' = TRUE /\ window' = "closed"
          /\ UNCHANGED <<quitWhenDone, cancelled>>
    /\ UNCHANGED <<quitRest, sessionVars>>

(* The event loop ends by itself, with an error: nobody is asked.          *)
LoopFails ==
    /\ Open
    /\ window' = "closed"
    /\ UNCHANGED <<quitRest, cancelled, quitWhenDone, forceQuit, signals, sessionVars>>

Unwound == pipe \in {"returned", "reaped"}

\* Fault: the end of the event loop ends the process.
ShutdownAtOnce == TRUE

(* shutdown waits for the pipeline it has cancelled.                       *)
ShutdownDone == cancelFn => cancelled /\ Unwound

ShutdownCancels ==
    /\ window = "closed" /\ cancelFn /\ ~cancelled
    /\ cancelled' = TRUE
    /\ UNCHANGED <<quitRest, quitVars, sessionVars>>

(* cleanup: the session goes too, unless an install was started from it.   *)
Exit ==
    /\ window = "closed" /\ ShutdownDone
    /\ window' = "exited"
    /\ UNCHANGED <<quitRest, cancelled, quitWhenDone, forceQuit, signals, sessionVars>>

Background ==
    \/ \E found \in [Disks -> {"absent", "usable", "refused"}] : SetDisks(found)
    \/ ScanFails
    \/ \E r \in Refs, offered \in BOOLEAN : SetPreview(r, offered)
    \/ PipeDiscloses \/ PipeEnds \/ PipeReturns \/ PostFinish \/ Apply \/ Finish
    \/ LoopFails \/ ShutdownCancels \/ Exit

User ==
    \/ Rescan \/ NextPage \/ Back \/ Jump \/ OpenConfirm \/ ChooseImage
    \/ ChooseDisk \/ ToggleCore \/ Type \/ CloseConfirm \/ startInstall
    \/ StartRefused \/ Cancel \/ Acknowledge \/ Retry
    \/ CloseWindow \/ DesktopQuits \/ onSignal

Next == Background \/ User

Spec == Init /\ [][Next]_vars

(* Scans and inspections return (30 s timeouts), a pipeline ends, posted   *)
(* closures run, the process shuts down.  Nothing makes the user act.      *)
Fairness ==
    /\ \A r \in Refs : WF_vars(\E offered \in BOOLEAN : SetPreview(r, offered))
    /\ WF_vars(PipeEnds \/ PipeReturns \/ PostFinish)
    /\ WF_vars(Apply \/ Finish) /\ WF_vars(ShutdownCancels \/ Exit)

FairSpec == Spec /\ Fairness

-----------------------------------------------------------------------------
TypeOK ==
    /\ page \in 1..5 /\ furthest \in 1..4
    /\ entry \in Refs /\ disk \in Disks \cup {None} /\ coreRef \in Refs \cup {None}
    /\ disks \in [Disks -> {"absent", "usable", "refused"}]
    /\ previewLoading \in Refs \cup {None} /\ inspecting \in [Refs -> Nat]
    /\ preview \in {None} \cup [ref : Refs, offered : BOOLEAN]
    /\ typed \in Disks \cup {None}
    /\ phase \in {"idle", "running", "done", "failed"}
    /\ pipe \in {"none", "running", "ended", "returned", "reaped"}
    /\ posts \in Seq([of : Nat, what : {"key", "done", "error", "finish"}])
    /\ window \in {"open", "closed", "exited"}
    /\ {core, scanning, scanned, confirmOpen, keyPending, cancelFn, cancelled,
        keyed, quitWhenDone, forceQuit, persisted} \subseteq BOOLEAN

(* An install starts with the recipe the user reviewed, on the disk the    *)
(* user typed, which the last scan does not refuse, with a choice of core  *)
(* flatpaks made for this image: whatever scans and inspections came back  *)
(* between the review and the click.                                       *)
InstallsWhatWasReviewed ==
    [][started' # started =>
          /\ disk # None /\ typed = disk /\ disks[disk] # "refused"
          /\ reviewed = Recipe /\ coreRef = entry]_vars

(* The closures still to run are those of the install on the page, or of a *)
(* failed one that the user has left and that nothing else has replaced: a *)
(* late finish never ends another install (startInstall's "one install at  *)
(* a time").                                                               *)
OneInstallAtATime ==
    /\ \A i \in DOMAIN posts : posts[i].of = started
    /\ installing => pipe \in {"running", "ended", "returned"} \/ posts # <<>>

(* No install outlives the window: however the event loop ended, by the    *)
(* end of the process the pipeline of the last install has been cancelled, *)
(* if it did not finish before, and its cleanups have returned (shutdown's *)
(* comment).                                                               *)
NoInstallOutlivesWindow ==
    window = "exited" => pipe = "none" \/ (Unwound /\ cancelled)

(* A user who waits on the apps page is shown the list of the image they   *)
(* chose, however often they changed their mind before.                    *)
AppListArrives ==
    \A r \in Refs :
       Open /\ page = PageApps /\ entry = r ~> Previewed \/ page # PageApps \/ ~Open

(* A quit that waits for an install ends with it.                          *)
QuitEnds == quitWhenDone ~> window = "exited"

(* "The window cannot close until the user acknowledges it": no quit goes  *)
(* over the key of an installed disk, unless a second signal insists.  (An *)
(* event loop that fails takes the window with it and asks nobody.)        *)
KeyOutlivesQuit ==
    window # "open" /\ forceQuit /\ keyPending /\ phase = "done" => signals >= 2
=============================================================================
