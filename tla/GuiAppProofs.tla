---------------------------- MODULE GuiAppProofs ----------------------------
(***************************************************************************)
(* Proofs about GuiApp, for any images and disks, whatever scans and       *)
(* inspections bring and however often the user and signals interrupt.     *)
(***************************************************************************)
EXTENDS GuiApp, TLAPS

USE DEF PageImage, PageStorage, PageApps, PageReview, PageInstall

Unreturned == {"running", "ended", "returned"}
Posted     == [of : Nat, what : {"key", "done", "error", "finish"}]

(* cancelInstall is set from the start of an install until its finish has  *)
(* run: as long as it is, there is a pipeline, or its finish is the last   *)
(* thing posted; without it nothing is left of any install.                *)
InstallInv ==
    /\ started \in Nat /\ posts \in Seq(Posted)
    /\ cancelFn \in BOOLEAN
    /\ \A i \in DOMAIN posts : posts[i].of = started
    /\ \A i \in DOMAIN posts : posts[i].what = "finish" => i = Len(posts) /\ pipe = "reaped"
    /\ pipe \in {"none", "running", "ended", "returned", "reaped"}
    /\ installing => cancelFn
    /\ cancelFn => pipe \in Unreturned \/ (pipe = "reaped" /\ posts # <<>> /\ posts[Len(posts)].what = "finish")
    /\ ~cancelFn => pipe \in {"none", "reaped"} /\ posts = <<>>
    /\ ~cancelFn /\ pipe = "reaped" => cancelled
    /\ window = "exited" /\ cancelFn => cancelled /\ pipe \in {"returned", "reaped"}

(* What leaves the pipeline and its messages alone, starts nothing, may    *)
(* cancel, and lets the process end only when nothing runs.                *)
Aside ==
    /\ UNCHANGED <<started, posts, cancelFn, pipe>>
    /\ installing' => installing
    /\ cancelled => cancelled'
    /\ window' = "exited" => window = "exited" \/ (cancelFn => cancelled /\ pipe \in {"returned", "reaped"})

(* Initially there is no install.                                          *)
LEMMA InitInstall == Init => InstallInv
<1> SUFFICES ASSUME Init PROVE InstallInv
  OBVIOUS
<1>1. started = 0 /\ posts = <<>> /\ cancelFn = FALSE /\ pipe = "none" /\ phase = "idle" /\ window = "open"
  BY DEF Init
<1>2. posts \in Seq(Posted) /\ DOMAIN posts = {}
  BY <1>1
<1> QED BY <1>1, <1>2 DEF InstallInv, installing

(* What stands aside from the install keeps its invariant.                 *)
LEMMA AsideKeeps == InstallInv /\ Aside => InstallInv'
BY DEF InstallInv, Aside, installing

(* The form, the scans and the inspections stand aside from the install.   *)
LEMMA FormAside ==
    ASSUME Rescan \/ NextPage \/ Back \/ Jump \/ OpenConfirm \/ ChooseImage \/ ChooseDisk
           \/ ToggleCore \/ Type \/ CloseConfirm \/ StartRefused
           \/ (\E found \in [Disks -> {"absent", "usable", "refused"}] : SetDisks(found))
           \/ ScanFails \/ (\E r \in Refs, offered \in BOOLEAN : SetPreview(r, offered))
    PROVE  Aside
<1>1. UNCHANGED installVars /\ UNCHANGED quitVars
  BY DEF Rescan, NextPage, Back, Jump, OpenConfirm, ChooseImage, ChooseDisk, ToggleCore, Type,
         CloseConfirm, StartRefused, SetDisks, ScanFails, SetPreview, formRest
<1> QED BY <1>1 DEF installVars, quitVars, Aside, installing

(* So do quitting and the signals: the window ends only behind the         *)
(* pipeline.                                                               *)
LEMMA QuitAside ==
    ASSUME Cancel \/ Acknowledge \/ Retry \/ CloseWindow \/ DesktopQuits \/ onSignal
           \/ LoopFails \/ ShutdownCancels \/ Exit
    PROVE  Aside
<1>1. UNCHANGED <<started, posts, cancelFn, pipe>> /\ phase' \in {phase, "idle"}
  BY DEF Cancel, Acknowledge, Retry, CloseWindow, DesktopQuits, onSignal, LoopFails, ShutdownCancels, Exit,
         quitRest
<1>2. window' \in {window, "closed"} \/ (window' = "exited" /\ ShutdownDone)
  BY DEF Cancel, Acknowledge, Retry, CloseWindow, DesktopQuits, onSignal, LoopFails, ShutdownCancels, Exit,
         quitRest, quitVars, CancelAndQuit
<1>3. cancelled => cancelled'
  BY Zenon DEF Cancel, Acknowledge, Retry, CloseWindow, DesktopQuits, onSignal, LoopFails, ShutdownCancels, Exit,
         cancelPipeline, CancelAndQuit
<1> QED BY <1>1, <1>2, <1>3 DEF Aside, installing, ShutdownDone, Unwound

(* The pipeline's goroutine posts behind what it has posted.               *)
LEMMA PostKeeps ==
    ASSUME InstallInv, NEW what \in {"key", "done", "error", "finish"}, Post(what), started' = started
    PROVE  /\ posts' \in Seq(Posted) /\ posts' # <<>> /\ posts'[Len(posts')].what = what
           /\ Len(posts) \in Nat /\ Len(posts') = Len(posts) + 1
           /\ \A i \in DOMAIN posts' : posts'[i].of = started'
           /\ \A i \in DOMAIN posts' : i < Len(posts') => i \in DOMAIN posts /\ posts'[i] = posts[i]
<1> DEFINE p == [of |-> started, what |-> what]
<1>1. p \in Posted /\ posts \in Seq(Posted) /\ posts' = Append(posts, p)
  BY DEF InstallInv, Posted, Post
<1> HIDE DEF p
<1>2. /\ posts' \in Seq(Posted) /\ Len(posts') = Len(posts) + 1 /\ posts'[Len(posts')] = p
      /\ \A i \in 1..Len(posts) : posts'[i] = posts[i]
  BY <1>1
<1>3. DOMAIN posts' = 1..(Len(posts) + 1) /\ DOMAIN posts = 1..Len(posts) /\ Len(posts) \in Nat
  BY <1>1, <1>2
<1>4. p.of = started /\ p.what = what
  BY DEF p
<1>5. \A i \in DOMAIN posts' : posts'[i].of = started'
  <2> TAKE i \in DOMAIN posts'
  <2>1. CASE i = Len(posts')
    BY <1>2, <1>4, <2>1
  <2>2. CASE i \in 1..Len(posts)
    BY <1>2, <1>3, <2>2 DEF InstallInv
  <2> QED BY <1>2, <1>3, <2>1, <2>2
<1> QED BY <1>2, <1>3, <1>4, <1>5

(* The pipeline's goroutine ends with its finish, posted last.             *)
LEMMA PipelineKeeps ==
    ASSUME InstallInv, PipeDiscloses \/ PipeEnds \/ PipeReturns \/ PostFinish
    PROVE  InstallInv'
<1>1. CASE PipeDiscloses \/ PipeEnds
  <2>1. PICK what \in {"key", "done", "error"} : Post(what)
    BY <1>1 DEF PipeDiscloses, PipeEnds
  <2>2. /\ started' = started /\ cancelFn' = cancelFn /\ phase' = phase /\ window' = window
        /\ pipe = "running" /\ pipe' \in {"running", "ended"} /\ window # "exited"
    BY <1>1 DEF PipeDiscloses, PipeEnds, installRest, quitVars
  <2>3. cancelFn /\ \A i \in DOMAIN posts : posts[i].what # "finish"
    BY <2>2 DEF InstallInv
  <2>4. \A i \in DOMAIN posts' : posts'[i].what # "finish"
    BY <2>1, <2>2, <2>3, PostKeeps
  <2> QED BY <2>1, <2>2, <2>3, <2>4, PostKeeps DEF InstallInv, installing, Unreturned
<1>2. CASE PipeReturns
  <2>1. /\ started' = started /\ cancelFn' = cancelFn /\ phase' = phase /\ window' = window
        /\ posts' = posts /\ pipe = "ended" /\ pipe' = "returned"
    BY <1>2 DEF PipeReturns, installRest, quitVars
  <2> QED BY <2>1 DEF InstallInv, installing, Unreturned
<1>3. CASE PostFinish
  <2>1. /\ started' = started /\ cancelFn' = cancelFn /\ phase' = phase /\ window' = window
        /\ Post("finish") /\ pipe = "returned" /\ pipe' = "reaped" /\ window # "exited"
    BY <1>3 DEF PostFinish, installRest, quitVars
  <2>2. cancelFn /\ \A i \in DOMAIN posts : posts[i].what # "finish"
    BY <2>1 DEF InstallInv
  <2>3. \A i \in DOMAIN posts' : posts'[i].what = "finish" => i = Len(posts')
    <3>1. DOMAIN posts' = 1..Len(posts')
      BY <2>1, PostKeeps
    <3>2. \A i \in DOMAIN posts' : i < Len(posts') => posts'[i].what # "finish"
      BY <2>1, <2>2, PostKeeps
    <3>3. Len(posts') \in Nat
      BY <2>1, PostKeeps
    <3> QED BY <3>1, <3>2, <3>3
  <2> QED BY <2>1, <2>2, <2>3, PostKeeps DEF InstallInv, installing, Unreturned
<1> QED BY <1>1, <1>2, <1>3

(* What has run is taken from the front.                                   *)
LEMMA TailKeeps ==
    ASSUME InstallInv, posts # <<>>, posts' = Tail(posts), started' = started
    PROVE  /\ posts' \in Seq(Posted) /\ Len(posts) \in Nat \ {0} /\ Len(posts') = Len(posts) - 1
           /\ DOMAIN posts = 1..Len(posts) /\ DOMAIN posts' = 1..(Len(posts) - 1)
           /\ \A i \in DOMAIN posts' : i + 1 \in DOMAIN posts /\ posts'[i] = posts[i + 1]
           /\ \A i \in DOMAIN posts' : posts'[i].of = started'
           /\ Head(posts) = posts[1] /\ Head(posts) \in Posted
<1>1. posts \in Seq(Posted)
  BY DEF InstallInv
<1>2. /\ posts' \in Seq(Posted) /\ Len(posts) \in Nat \ {0} /\ Len(posts') = Len(posts) - 1
      /\ DOMAIN posts = 1..Len(posts) /\ DOMAIN posts' = 1..(Len(posts) - 1)
      /\ Head(posts) = posts[1] /\ Head(posts) \in Posted
  BY <1>1
<1>3. \A i \in 1..(Len(posts) - 1) : i + 1 \in 1..Len(posts) /\ posts'[i] = posts[i + 1]
  BY <1>1
<1> QED BY <1>2, <1>3 DEF InstallInv

(* The main thread runs what was posted, the finish of an install among    *)
(* it.                                                                     *)
LEMMA MainThreadKeeps ==
    ASSUME InstallInv, Apply \/ Finish
    PROVE  InstallInv'
<1>1. CASE Apply
  <2>1. /\ posts # <<>> /\ posts' = Tail(posts) /\ Head(posts).what # "finish"
        /\ started' = started /\ cancelFn' = cancelFn /\ pipe' = pipe /\ window' = window
        /\ window = "open"
    BY <1>1 DEF Apply, quitVars, Open
  <2>2. phase' = phase \/ phase' \in {"done", "failed"}
    <3>1. Head(posts).what \in {"key", "done", "error"}
      BY <2>1, TailKeeps DEF Posted
    <3> QED BY <1>1, <3>1 DEF Apply
  <2>3. installing' => installing
    BY <2>2 DEF installing
  <2>4. cancelFn /\ Len(posts) \in Nat \ {0}
    BY <2>1, TailKeeps DEF InstallInv
  <2>5. \A i \in DOMAIN posts' : posts'[i].what = "finish" => i = Len(posts') /\ pipe' = "reaped"
    <3> TAKE i \in DOMAIN posts'
    <3>1. i + 1 \in DOMAIN posts /\ posts'[i] = posts[i + 1] /\ Len(posts') = Len(posts) - 1 /\ i \in Nat
      BY <2>1, TailKeeps
    <3>2. posts[i + 1].what = "finish" => i + 1 = Len(posts) /\ pipe = "reaped"
      BY <3>1 DEF InstallInv
    <3> QED BY <2>1, <2>4, <3>1, <3>2
  <2>6. pipe = "reaped" => posts' # <<>> /\ posts'[Len(posts')].what = "finish"
    <3> SUFFICES ASSUME pipe = "reaped" PROVE posts' # <<>> /\ posts'[Len(posts')].what = "finish"
      OBVIOUS
    <3>1. posts[Len(posts)].what = "finish" /\ Len(posts) # 1
      BY <2>1, <2>4, TailKeeps DEF InstallInv, Unreturned
    <3>2. Len(posts) - 1 \in DOMAIN posts'
      BY <2>1, <2>4, <3>1, TailKeeps
    <3>3. posts'[Len(posts) - 1] = posts[Len(posts) - 1 + 1]
      BY <2>1, <3>2, TailKeeps
    <3>4. Len(posts') = Len(posts) - 1 /\ Len(posts) - 1 + 1 = Len(posts)
      BY <2>1, <2>4, TailKeeps
    <3>5. posts' # <<>>
      BY <2>4, <3>1, <3>4
    <3> QED BY <3>1, <3>3, <3>4, <3>5
  <2>7. posts' \in Seq(Posted) /\ \A i \in DOMAIN posts' : posts'[i].of = started'
    BY <2>1, TailKeeps
  <2> QED BY <2>1, <2>3, <2>4, <2>5, <2>6, <2>7 DEF InstallInv, Unreturned
<1>2. CASE Finish
  <2>1. /\ posts # <<>> /\ posts' = Tail(posts) /\ Head(posts).what = "finish"
        /\ started' = started /\ cancelFn' = FALSE /\ pipe' = pipe /\ window' \in {window, "closed"}
        /\ phase' # "running" /\ cancelled' /\ window = "open"
    BY <1>2 DEF Finish, installing, Open
  <2>2. Len(posts) = 1 /\ pipe = "reaped"
    <3>1. 1 \in DOMAIN posts /\ posts[1].what = "finish"
      BY <2>1, TailKeeps
    <3> QED BY <3>1 DEF InstallInv
  <2>3. posts' = <<>> /\ DOMAIN posts' = {} /\ posts' \in Seq(Posted)
    BY <2>1, <2>2, TailKeeps
  <2> QED BY <2>1, <2>2, <2>3 DEF InstallInv, installing
<1> QED BY <1>1, <1>2

(* An install starts only where nothing is left of the one before.         *)
LEMMA StartKeeps ==
    ASSUME InstallInv, startInstall
    PROVE  InstallInv'
<1>1. /\ ~cancelFn /\ cancelFn' = TRUE /\ pipe' = "running" /\ started' = started + 1
      /\ posts' = posts /\ window = "open" /\ window' = window
  BY DEF startInstall, MayStart, quitVars, Open
<1>2. posts' = <<>> /\ DOMAIN posts' = {}
  BY <1>1 DEF InstallInv
<1> QED BY <1>1, <1>2 DEF InstallInv, Unreturned

(* Every step keeps the invariant.                                         *)
LEMMA InstallStep == InstallInv /\ [Next]_vars => InstallInv'
<1> SUFFICES ASSUME InstallInv, [Next]_vars PROVE InstallInv'
  OBVIOUS
<1>1. CASE Background
  BY <1>1, FormAside, QuitAside, AsideKeeps, PipelineKeeps, MainThreadKeeps DEF Background
<1>2. CASE User
  BY <1>2, FormAside, QuitAside, AsideKeeps, StartKeeps DEF User
<1>3. CASE UNCHANGED vars
  <2>1. Aside
    BY <1>3 DEF vars, installVars, quitVars, Aside, installing
  <2> QED BY <2>1, AsideKeeps
<1> QED BY <1>1, <1>2, <1>3 DEF Next

(* It holds throughout.                                                    *)
LEMMA AlwaysInstall == Spec => []InstallInv
BY InitInstall, InstallStep, PTL DEF Spec

(* What the pipeline still has to post is of the install on the page: a    *)
(* late finish finds no other one to end, however often it was retried.    *)
THEOREM OneAtATime == Spec => []OneInstallAtATime
<1>1. InstallInv => OneInstallAtATime
  BY DEF InstallInv, OneInstallAtATime, Unreturned
<1> QED BY <1>1, AlwaysInstall, PTL

(* The process ends only when its pipeline has been cancelled, or has      *)
(* finished, and has returned.                                             *)
THEOREM NoneOutlivesWindow == Spec => []NoInstallOutlivesWindow
<1>1. InstallInv => NoInstallOutlivesWindow
  BY DEF InstallInv, NoInstallOutlivesWindow, Unwound
<1> QED BY <1>1, AlwaysInstall, PTL

-----------------------------------------------------------------------------
(* The choices: a chosen disk is one the last scan did not refuse, and     *)
(* while the confirmation is open the core flatpaks are chosen for the     *)
(* image chosen, which no one can change under the dialog.                 *)
ChoiceInv ==
    /\ entry \in Refs
    /\ disks \in [Disks -> {"absent", "usable", "refused"}]
    /\ disk # None => disk \in Disks /\ disks[disk] # "refused"
    /\ preview # None => coreRef = preview.ref
    /\ confirmOpen => coreRef = entry

(* Whatever a scan or an inspection brings, the page, the preview and the  *)
(* confirmation stay about the same image.                                 *)
LEMMA ChoiceStep == ChoiceInv /\ [Next]_vars => ChoiceInv'
<1> SUFFICES ASSUME ChoiceInv, [Next]_vars PROVE ChoiceInv'
  OBVIOUS
<1>1. CASE \E found \in [Disks -> {"absent", "usable", "refused"}] : SetDisks(found)
  <2>1. PICK found \in [Disks -> {"absent", "usable", "refused"}] : SetDisks(found)
    BY <1>1
  <2>2. /\ entry' = entry /\ coreRef' = coreRef /\ preview' = preview /\ confirmOpen' = confirmOpen
        /\ disks' = found
    BY <2>1 DEF SetDisks, previewVars, formVars
  <2>3. disk' # None => disk' \in Disks /\ found[disk'] # "refused"
    BY <2>1 DEF SetDisks, Usable, ChoiceInv
  <2> QED BY <2>2, <2>3 DEF ChoiceInv
<1>2. CASE ScanFails
  <2>1. /\ entry' = entry /\ coreRef' = coreRef /\ preview' = preview /\ confirmOpen' = confirmOpen
        /\ disk' = disk /\ disks' = [d \in Disks |-> "absent"]
    BY <1>2 DEF ScanFails, choiceVars, previewVars, formVars
  <2> QED BY <2>1 DEF ChoiceInv
<1>3. CASE \E r \in Refs, offered \in BOOLEAN : SetPreview(r, offered)
  <2>1. PICK r \in Refs, offered \in BOOLEAN : SetPreview(r, offered)
    BY <1>3
  <2>2. entry' = entry /\ disk' = disk /\ disks' = disks /\ confirmOpen' = confirmOpen
    BY <2>1 DEF SetPreview, scanVars, formVars
  <2>3. CASE r = entry
    <3>1. coreRef' = entry /\ preview' = [ref |-> entry, offered |-> offered]
      BY <2>1, <2>3 DEF SetPreview
    <3>2. preview'.ref = entry
      BY <3>1
    <3> QED BY <2>2, <3>1, <3>2 DEF ChoiceInv
  <2>4. CASE r # entry
    BY <2>1, <2>2, <2>4 DEF SetPreview, ChoiceInv
  <2> QED BY <2>3, <2>4
<1>4. CASE ChooseImage \/ ChooseDisk
  <2>1. /\ coreRef' = coreRef /\ preview' = preview /\ disks' = disks
        /\ entry' \in Refs /\ ~confirmOpen /\ confirmOpen' = confirmOpen
        /\ disk' = disk \/ disk' \in Usable(disks)
    BY <1>4 DEF ChooseImage, ChooseDisk, previewVars, formVars, scanVars, ChoiceInv
  <2> QED BY <2>1 DEF ChoiceInv, Usable
<1>5. CASE OpenConfirm
  <2>1. entry' = entry /\ disk' = disk /\ disks' = disks /\ coreRef' = coreRef /\ preview' = preview
    BY <1>5 DEF OpenConfirm, formRest, choiceVars, scanVars, goTo, RefreshPreview, previewVars
  <2>2. confirmOpen' => confirmOpen \/ Previewed
    <3>1. CASE \A p \in PageImage..PageApps : pageValid(p)
      <4>1. pageValid(PageApps)
        BY <3>1
      <4> QED BY <4>1 DEF pageValid
    <3>2. CASE \E p \in PageImage..PageApps : ~pageValid(p)
      BY <1>5, <3>2 DEF OpenConfirm
    <3> QED BY <3>1, <3>2
  <2> QED BY <2>1, <2>2 DEF ChoiceInv, Previewed
<1>6. CASE Rescan \/ NextPage \/ Back \/ Jump \/ Retry \/ ToggleCore \/ Type \/ CloseConfirm
           \/ startInstall \/ StartRefused
  <2>1. entry' = entry /\ disk' = disk /\ coreRef' = coreRef
    BY <1>6 DEF Rescan, NextPage, Back, Jump, Retry, ToggleCore, Type, CloseConfirm, startInstall,
                StartRefused, choiceVars, formRest
  <2>2. disks' = disks
    BY <1>6 DEF Rescan, NextPage, Back, Jump, Retry, ToggleCore, Type, CloseConfirm, startInstall,
                StartRefused, scanVars, formRest
  <2>3. preview' = preview
    BY <1>6 DEF Rescan, NextPage, Back, Jump, Retry, ToggleCore, Type, CloseConfirm, startInstall,
                StartRefused, previewVars, goTo, RefreshPreview
  <2>4. confirmOpen' => confirmOpen
    BY <1>6 DEF Rescan, NextPage, Back, Jump, Retry, ToggleCore, Type, CloseConfirm, startInstall,
                StartRefused, formVars
  <2> QED BY <2>1, <2>2, <2>3, <2>4 DEF ChoiceInv
<1>7. CASE Cancel \/ Acknowledge \/ CloseWindow \/ DesktopQuits \/ onSignal \/ PipeDiscloses
           \/ PipeEnds \/ PipeReturns \/ PostFinish \/ Apply \/ Finish \/ LoopFails \/ ShutdownCancels \/ Exit
           \/ UNCHANGED vars
  <2>1. UNCHANGED choiceVars /\ UNCHANGED scanVars /\ UNCHANGED previewVars /\ UNCHANGED formVars
    BY <1>7 DEF Cancel, Acknowledge, CloseWindow, DesktopQuits, onSignal, PipeDiscloses, PipeEnds,
                PipeReturns, PostFinish, Apply, Finish, LoopFails, ShutdownCancels, Exit, vars, installRest,
                quitRest
  <2> QED BY <2>1 DEF ChoiceInv, choiceVars, scanVars, previewVars, formVars
<1> QED BY <1>1, <1>2, <1>3, <1>4, <1>5, <1>6, <1>7 DEF Next, Background, User

(* So they do throughout.                                                  *)
LEMMA AlwaysChoice == Spec => []ChoiceInv
<1>1. Init => ChoiceInv
  BY DEF Init, ChoiceInv
<1> QED BY <1>1, ChoiceStep, PTL DEF Spec

(* No scan, inspection or answer between the review and the click makes an *)
(* install start with anything but what was reviewed.                      *)
THEOREM ReviewedIsInstalled == Spec => InstallsWhatWasReviewed
<1> DEFINE A == started' # started =>
          /\ disk # None /\ typed = disk /\ disks[disk] # "refused"
          /\ reviewed = Recipe /\ coreRef = entry
<1>1. ChoiceInv /\ [Next]_vars => [A]_vars
  <2> SUFFICES ASSUME ChoiceInv, [Next]_vars, started' # started PROVE A
    OBVIOUS
  <2>1. startInstall
    BY FormAside, QuitAside
       DEF Next, Background, User, Aside, vars, installVars, PipeDiscloses, PipeEnds, PipeReturns,
           PostFinish, Apply, Finish, installRest
  <2>2. confirmOpen /\ typed = disk /\ Recipe = reviewed /\ disk # None
    BY <2>1 DEF startInstall, Matches, Persists
  <2> QED BY <2>2 DEF ChoiceInv
<1> QED BY <1>1, AlwaysChoice, PTL DEF Spec, InstallsWhatWasReviewed

-----------------------------------------------------------------------------
(* The types of everything on the page.  Those of the install are in       *)
(* InstallInv.                                                             *)
FormTypes ==
    /\ page \in 1..5 /\ furthest \in 1..4
    /\ confirmOpen \in BOOLEAN /\ typed \in Disks \cup {None}
ChoiceTypes ==
    /\ entry \in Refs /\ disk \in Disks \cup {None} /\ coreRef \in Refs \cup {None}
    /\ core \in BOOLEAN
ScanTypes ==
    disks \in [Disks -> {"absent", "usable", "refused"}] /\ scanning \in BOOLEAN /\ scanned \in BOOLEAN
PreviewTypes ==
    /\ previewLoading \in Refs \cup {None} /\ inspecting \in [Refs -> Nat]
    /\ preview \in {None} \cup [ref : Refs, offered : BOOLEAN]
RunTypes ==
    /\ phase \in {"idle", "running", "done", "failed"} /\ window \in {"open", "closed", "exited"}
    /\ keyPending \in BOOLEAN /\ cancelFn \in BOOLEAN /\ cancelled \in BOOLEAN /\ keyed \in BOOLEAN
    /\ quitWhenDone \in BOOLEAN /\ forceQuit \in BOOLEAN /\ persisted \in BOOLEAN
Types == FormTypes /\ ChoiceTypes /\ ScanTypes /\ PreviewTypes /\ RunTypes

(* Moving to a page keeps the types: it may start an inspection.           *)
LEMMA GoToTypes ==
    ASSUME Types, NEW p \in 1..4, NEW s, goTo(p, s)
    PROVE  page' \in 1..5 /\ furthest' \in 1..4 /\ PreviewTypes'
<1>1. page' = p /\ furthest' \in {p, furthest}
  BY DEF goTo
<1>2. PreviewTypes'
  <2>1. CASE UNCHANGED previewVars
    BY <2>1 DEF previewVars, Types, PreviewTypes
  <2>2. CASE /\ previewLoading' = entry /\ preview' = preview
             /\ inspecting' = [inspecting EXCEPT ![entry] = @ + 1]
    BY <2>2 DEF Types, PreviewTypes, ChoiceTypes
  <2> QED BY <2>1, <2>2 DEF goTo, RefreshPreview
<1> QED BY <1>1, <1>2 DEF Types, FormTypes

(* So do a scan and an inspection, whatever they bring.                    *)
LEMMA ResultTypes ==
    ASSUME Types,
           (\E found \in [Disks -> {"absent", "usable", "refused"}] : SetDisks(found))
           \/ ScanFails \/ (\E r \in Refs, offered \in BOOLEAN : SetPreview(r, offered))
    PROVE  Types'
<1>1. FormTypes' /\ RunTypes'
  BY DEF SetDisks, ScanFails, SetPreview, formVars, installVars, quitVars, sessionVars, Types, FormTypes, RunTypes
<1>2. CASE \E found \in [Disks -> {"absent", "usable", "refused"}] : SetDisks(found)
  <2>1. PICK found \in [Disks -> {"absent", "usable", "refused"}] : SetDisks(found)
    BY <1>2
  <2>2. disk' \in Disks \cup {None}
    BY <2>1 DEF SetDisks, Usable, Types, ChoiceTypes
  <2> QED BY <1>1, <2>1, <2>2 DEF SetDisks, previewVars, Types, ChoiceTypes, ScanTypes, PreviewTypes
<1>3. CASE ScanFails
  BY <1>1, <1>3 DEF ScanFails, choiceVars, previewVars, Types, ChoiceTypes, ScanTypes, PreviewTypes
<1>4. CASE \E r \in Refs, offered \in BOOLEAN : SetPreview(r, offered)
  <2>1. PICK r \in Refs, offered \in BOOLEAN : SetPreview(r, offered)
    BY <1>4
  <2>2. inspecting' \in [Refs -> Nat] /\ previewLoading' \in Refs \cup {None}
    BY <2>1 DEF SetPreview, Types, PreviewTypes
  <2>3. preview' \in {None} \cup [ref : Refs, offered : BOOLEAN]
    BY <2>1 DEF SetPreview, Types, PreviewTypes
  <2>4. core' \in BOOLEAN /\ coreRef' \in Refs \cup {None}
    BY <2>1 DEF SetPreview, Types, ChoiceTypes
  <2> QED BY <1>1, <2>1, <2>2, <2>3, <2>4 DEF SetPreview, scanVars, Types, ChoiceTypes, ScanTypes, PreviewTypes
<1> QED BY <1>2, <1>3, <1>4

(* What the user does to the form.                                         *)
LEMMA UserTypes ==
    ASSUME Types,
           Rescan \/ NextPage \/ Back \/ Jump \/ OpenConfirm \/ ChooseImage \/ ChooseDisk \/ ToggleCore
           \/ Type \/ CloseConfirm
    PROVE  Types'
<1>1. RunTypes'
  BY DEF Rescan, NextPage, Back, Jump, OpenConfirm, ChooseImage, ChooseDisk, ToggleCore, Type, CloseConfirm,
         formRest, installVars, quitVars, sessionVars, Types, RunTypes
<1>2. CASE NextPage \/ Back \/ Jump \/ (OpenConfirm /\ \E p \in PageImage..PageApps : ~pageValid(p))
  <2>1. \E p \in 1..4 : goTo(p, session)
    <3>1. CASE NextPage \/ Back \/ Jump
      BY <3>1 DEF NextPage, Back, Jump, Types, FormTypes
    <3>2. CASE OpenConfirm /\ \E p \in PageImage..PageApps : ~pageValid(p)
      <4> DEFINE incomplete == {p \in PageImage..PageApps : ~pageValid(p)}
                 first == CHOOSE p \in incomplete : \A q \in incomplete : p <= q
      <4>1. incomplete # {} /\ incomplete \subseteq 1..3
        BY <3>2
      <4>2. goTo(first, session)
        BY <3>2, <4>1 DEF OpenConfirm
      <4>3. \E p \in incomplete : \A q \in incomplete : p <= q
        <5>1. 1 \in incomplete \/ 2 \in incomplete \/ 3 \in incomplete
          BY <4>1
        <5> QED BY <4>1, <5>1
      <4>4. first \in incomplete
        BY <4>3
      <4> QED BY <4>1, <4>2, <4>4
    <3> QED BY <1>2, <3>1, <3>2
  <2>2. PICK p \in 1..4 : goTo(p, session)
    BY <2>1
  <2>3. page' \in 1..5 /\ furthest' \in 1..4 /\ PreviewTypes'
    BY <2>2, GoToTypes
  <2>4. UNCHANGED <<confirmOpen, typed>> /\ UNCHANGED choiceVars /\ UNCHANGED scanVars
    BY <1>2 DEF NextPage, Back, Jump, OpenConfirm, formRest
  <2> QED BY <1>1, <2>3, <2>4 DEF choiceVars, scanVars, Types, FormTypes, ChoiceTypes, ScanTypes
<1>3. CASE OpenConfirm /\ \A p \in PageImage..PageApps : pageValid(p)
  BY <1>1, <1>3 DEF OpenConfirm, formRest, choiceVars, scanVars, previewVars, Types, FormTypes, ChoiceTypes,
                    ScanTypes, PreviewTypes
<1>4. CASE Rescan \/ ChooseImage \/ ChooseDisk \/ ToggleCore \/ Type \/ CloseConfirm
  <2>1. page' = page /\ furthest' = furthest /\ confirmOpen' \in {confirmOpen, FALSE} /\ typed' \in Disks \cup {None, typed}
    BY <1>4 DEF Rescan, ChooseImage, ChooseDisk, ToggleCore, Type, CloseConfirm, formVars
  <2>2. ScanTypes' /\ PreviewTypes'
    BY <1>4 DEF Rescan, ChooseImage, ChooseDisk, ToggleCore, Type, CloseConfirm, formRest, scanVars, previewVars,
                Types, ScanTypes, PreviewTypes
  <2>3. ChoiceTypes'
    BY <1>4 DEF Rescan, ChooseImage, ChooseDisk, ToggleCore, Type, CloseConfirm, formRest, choiceVars, Usable,
                Types, ChoiceTypes
  <2> QED BY <1>1, <2>1, <2>2, <2>3 DEF Types, FormTypes
<1> QED BY <1>2, <1>3, <1>4

(* What leaves the form and the choices alone keeps their types.            *)
LEMMA RunOnly ==
    ASSUME Types, UNCHANGED choiceVars, UNCHANGED scanVars, UNCHANGED previewVars, UNCHANGED formVars, RunTypes'
    PROVE  Types'
BY DEF choiceVars, scanVars, previewVars, formVars, Types, FormTypes, ChoiceTypes, ScanTypes, PreviewTypes

(* The install's messages, and what they do to the page.                   *)
LEMMA MessageTypes ==
    ASSUME Types, InstallInv, PipeDiscloses \/ PipeEnds \/ PipeReturns \/ PostFinish \/ Apply \/ Finish
    PROVE  Types'
<1>1. CASE PipeDiscloses \/ PipeEnds \/ PipeReturns \/ PostFinish
  <2>1. UNCHANGED installRest /\ (keyed' = keyed \/ keyed' = TRUE)
    BY <1>1 DEF PipeDiscloses, PipeEnds, PipeReturns, PostFinish
  <2>2. RunTypes'
    BY <2>1 DEF installRest, quitVars, sessionVars, Types, RunTypes
  <2> QED BY <2>1, <2>2, RunOnly DEF installRest
<1>2. CASE Apply
  <2>1. Head(posts).what \in {"key", "done", "error", "finish"}
    <3>1. posts # <<>> /\ posts \in Seq(Posted)
      BY <1>2 DEF Apply, InstallInv
    <3>2. Head(posts) \in Posted
      BY <3>1
    <3> QED BY <3>2 DEF Posted
  <2>2. phase' \in {phase, "done", "failed"} /\ keyPending' \in {keyPending, TRUE}
    BY <1>2, <2>1 DEF Apply
  <2>3. UNCHANGED <<cancelFn, cancelled, keyed>> /\ UNCHANGED quitVars /\ UNCHANGED sessionVars
    BY <1>2 DEF Apply
  <2>4. RunTypes'
    BY <2>2, <2>3 DEF quitVars, sessionVars, Types, RunTypes
  <2> QED BY <1>2, <2>4, RunOnly DEF Apply
<1>3. CASE Finish
  <2>1. RunTypes'
    BY <1>3 DEF Finish, sessionVars, Types, RunTypes
  <2> QED BY <1>3, <2>1, RunOnly DEF Finish
<1> QED BY <1>1, <1>2, <1>3

(* Quitting, signals, and the end of the process.                          *)
LEMMA QuitTypes ==
    ASSUME Types,
           Cancel \/ Acknowledge \/ CloseWindow \/ DesktopQuits \/ onSignal
           \/ LoopFails \/ ShutdownCancels \/ Exit
    PROVE  Types'
<1>1. CASE Cancel
  <2>1. RunTypes'
    BY <1>1 DEF Cancel, cancelPipeline, quitVars, sessionVars, Types, RunTypes
  <2> QED BY <1>1, <2>1, RunOnly DEF Cancel
<1>2. CASE Acknowledge
  <2>1. RunTypes'
    BY <1>2 DEF Acknowledge, quitVars, sessionVars, Types, RunTypes
  <2> QED BY <1>2, <2>1, RunOnly DEF Acknowledge
<1>3. CASE CloseWindow \/ DesktopQuits \/ onSignal \/ LoopFails \/ ShutdownCancels \/ Exit
  <2>1. UNCHANGED quitRest /\ UNCHANGED sessionVars
    BY <1>3 DEF CloseWindow, DesktopQuits, onSignal, LoopFails, ShutdownCancels, Exit
  <2>2. /\ window' \in {window, "closed", "exited"} /\ quitWhenDone' \in {quitWhenDone, TRUE}
        /\ forceQuit' \in {forceQuit, TRUE}
    BY <1>3 DEF CloseWindow, DesktopQuits, onSignal, LoopFails, ShutdownCancels, Exit, CancelAndQuit, quitVars
  <2>3. cancelled' \in {cancelled, TRUE} \/ cancelPipeline
    BY <1>3 DEF CloseWindow, DesktopQuits, onSignal, LoopFails, ShutdownCancels, Exit, CancelAndQuit
  <2>4. cancelled' \in BOOLEAN
    BY <2>3 DEF cancelPipeline, Types, RunTypes
  <2>5. RunTypes'
    BY <2>1, <2>2, <2>4 DEF quitRest, sessionVars, Types, RunTypes
  <2> QED BY <2>1, <2>5, RunOnly DEF quitRest
<1> QED BY <1>1, <1>2, <1>3

(* The start of an install, and the way back from a failed one.            *)
LEMMA StartTypes ==
    ASSUME Types, startInstall \/ StartRefused \/ Retry
    PROVE  Types'
<1>1. CASE startInstall
  <2>1. FormTypes' /\ ChoiceTypes'
    <3>1. /\ page' = 5 /\ furthest' = furthest /\ confirmOpen' \in BOOLEAN /\ typed' = None
          /\ UNCHANGED choiceVars
      BY <1>1 DEF startInstall
    <3>2. FormTypes'
      BY <3>1 DEF Types, FormTypes
    <3>3. ChoiceTypes'
      BY <3>1 DEF choiceVars, Types, ChoiceTypes
    <3> QED BY <3>2, <3>3
  <2>2. ScanTypes' /\ PreviewTypes'
    BY <1>1 DEF startInstall, scanVars, previewVars, Types, ScanTypes, PreviewTypes
  <2>3. RunTypes'
    BY <1>1 DEF startInstall, installVars, quitVars, sessionVars, Types, RunTypes
  <2> QED BY <2>1, <2>2, <2>3 DEF Types
<1>2. CASE StartRefused
  <2>1. FormTypes' /\ ChoiceTypes'
    BY <1>2 DEF StartRefused, choiceVars, previewVars, Types, FormTypes, ChoiceTypes
  <2>2. ScanTypes' /\ PreviewTypes'
    BY <1>2 DEF StartRefused, scanVars, previewVars, Types, ScanTypes, PreviewTypes
  <2>3. RunTypes'
    BY <1>2 DEF StartRefused, installVars, quitVars, sessionVars, Types, RunTypes
  <2> QED BY <2>1, <2>2, <2>3 DEF Types
<1>3. CASE Retry
  <2>1. goTo(4, session') /\ UNCHANGED <<confirmOpen, typed>>
    BY <1>3 DEF Retry
  <2>2. FormTypes' /\ PreviewTypes'
    BY <2>1, GoToTypes DEF Types, FormTypes
  <2>3. ChoiceTypes' /\ ScanTypes'
    BY <1>3 DEF Retry, choiceVars, scanVars, Types, ChoiceTypes, ScanTypes
  <2>4. RunTypes'
    BY <1>3 DEF Retry, quitVars, Types, RunTypes
  <2> QED BY <2>2, <2>3, <2>4 DEF Types
<1> QED BY <1>1, <1>2, <1>3

(* Every variable keeps its type, whatever comes back to the main thread,  *)
(* in whatever order.                                                      *)
THEOREM TypeCorrect == Spec => []TypeOK
<1>1. Init => Types
  <2> SUFFICES ASSUME Init PROVE Types
    OBVIOUS
  <2>1. FormTypes
    <3>1. page = 1 /\ furthest = 1 /\ confirmOpen \in BOOLEAN /\ typed = None
      BY DEF Init
    <3> QED BY <3>1 DEF FormTypes
  <2>4. ChoiceTypes
    BY DEF Init, ChoiceTypes
  <2>2. ScanTypes /\ PreviewTypes
    BY DEF Init, ScanTypes, PreviewTypes
  <2>3. RunTypes
    BY DEF Init, RunTypes
  <2> QED BY <2>1, <2>2, <2>3, <2>4 DEF Types
<1>2. Types /\ InstallInv /\ [Next]_vars => Types'
  <2> SUFFICES ASSUME Types, InstallInv, [Next]_vars PROVE Types'
    OBVIOUS
  <2>1. CASE Background
    BY <2>1, ResultTypes, MessageTypes, QuitTypes DEF Background
  <2>2. CASE User
    BY <2>2, UserTypes, StartTypes, QuitTypes DEF User
  <2>3. CASE UNCHANGED vars
    BY <2>3 DEF vars, choiceVars, scanVars, previewVars, formVars, installVars, quitVars, sessionVars, Types,
                FormTypes, ChoiceTypes, ScanTypes, PreviewTypes, RunTypes
  <2> QED BY <2>1, <2>2, <2>3 DEF Next
<1>3. Types /\ InstallInv => TypeOK
  BY DEF Types, FormTypes, ChoiceTypes, ScanTypes, PreviewTypes, RunTypes, InstallInv, Posted, TypeOK
<1> QED BY <1>1, <1>2, <1>3, AlwaysInstall, PTL DEF Spec
=============================================================================
