----------------------------- MODULE Installer -----------------------------
(***************************************************************************)
(* The steps of a bootc install (internal/steps) inside the step engine of *)
(* Pipeline, and what they do to the machine: mounts, the LUKS mapper, the *)
(* partition table, the redirected container store, the extracted image.   *)
(* One run; the recipe is a constant.                                      *)
(*                                                                         *)
(* A step is a sequence of operations, `todo` what is left of the current  *)
(* one.  Each operation is one call that can fail; a failing one replaces  *)
(* the rest of the step by the clean-up the code runs on that error path.  *)
(* The undos a step registers are run by the engine's Undo.                *)
(*                                                                         *)
(* The user may cancel at any time.  Commands run under the run's context  *)
(* fail from then on; those of the undos and of the steps' own clean-ups   *)
(* run under a background context and are not affected.                    *)
(***************************************************************************)
EXTENDS Naturals, Sequences, FiniteSets

CONSTANTS
    Me, None,
    Encryption, Bootloader,        \* as in the recipe
    Subvolumes,                    \* btrfs_subvolumes
    Mok,                           \* security.mok = "enroll"
    RamHost                        \* StorageSpaceConstrained()
ASSUME RecipeAssumption ==
    /\ Encryption \in {"none", "luks-passphrase", "tpm2-luks",
                       "tpm2-luks-passphrase"}
    /\ Bootloader \in {"systemd", "grub2"}
    /\ {Subvolumes, Mok, RamHost} \subseteq BOOLEAN
ASSUME NoneAssumption == None # Me

VARIABLES
    dry, lock, pc, step, stack, emitErr, err, code, failedStep, summary,
    fails, warned, orphan, last, index,      \* the engine: see Pipeline
    todo, outcome,       \* the step that is running
    cancelled,           \* the context: no, yes, or yes and late: the command
                         \* it killed had already done its work
    mounts,      \* places mounted
    mapper,      \* /dev/mapper/firn-root: closed, open, or stale: left open
                 \* on another device by an earlier run
    luks,        \* the root partition is a LUKS container with this key
    disclosed,   \* the generated recovery key has reached the consumer
    rootType,    \* type of the root partition
    frozen,      \* the target is frozen by fsfreeze
    override,    \* CONTAINERS_CONF_OVERRIDE is set
    image,       \* the secure image root: none, a directory, extracted
    blamed       \* what a warning or an error of its own says was left

engine  == <<dry, lock, pc, step, stack, emitErr, err, code, failedStep,
             summary, fails, warned, orphan, last, index>>
control == <<todo, outcome, cancelled>>
machine == <<mounts, mapper, luks, disclosed, rootType, frozen, override,
             image, blamed>>
vars    == <<engine, control, machine>>

Cancelled  == cancelled # "no"
Encrypted  == Encryption # "none"
Binds      == {"base", "store", "vartmp"}
TargetTree == {"root", "boot", "esp", "base"}   \* mounted under targetDir
RootFS     == {"root", "scratch"} \cup Binds    \* mounts of the root device
Places     == TargetTree \cup RootFS

-----------------------------------------------------------------------------
(* The steps.  An operation is <<what, on what>>.                          *)
When(condition, ops) == IF condition THEN ops ELSE <<>>

RunPreflight == << <<"check", "host">>, <<"report", "info">> >>

RunPartition == << <<"partition", "disk">> >>

RunFormatBoot == << <<"write", "fs">> >> \o When(Bootloader = "grub2", << <<"write", "fs">> >>)

(* luks.Open closes a stale mapper of the same name first.                 *)
OpenMapper == << <<"closeStale", "mapper">>, <<"luksOpen", "mapper">> >>

\* Fault: the key is shown once the partition has been formatted.
RunLuksFormatDisclosesLate ==
    << <<"luksFormat", "root">>,
       IF Encryption = "tpm2-luks" THEN <<"disclose", "key">> ELSE <<"check", "key">> >>
    \o OpenMapper \o << <<"defer", "mapper">> >>

RunLuksFormat ==
    << IF Encryption = "tpm2-luks" THEN <<"disclose", "key">> ELSE <<"check", "key">>,
       <<"luksFormat", "root">> >>
    \o OpenMapper \o << <<"defer", "mapper">> >>

RunFormatRoot ==
    << <<"write", "fs">> >>
    \o When(Subvolumes, << <<"mount", "scratch">>, <<"subvols", "scratch">>,
                           <<"umount", "scratch">> >>)

MountTarget ==
    << <<"mount", "root">> >>
    \o When(Bootloader = "grub2", << <<"mount", "boot">> >>)
    \o << <<"mount", "esp">> >>

RunMountTarget == MountTarget \o << <<"defer", "target">> >>

(* redirectBootcStorageToDisk and the teardown it returns.                 *)
Redirect ==
    << <<"bind", "base">>, <<"bind", "store">>, <<"bind", "vartmp">>,
       <<"announce", "redirect">>, <<"override", "on">> >>
Detaches == << <<"detach", "vartmp">>, <<"detach", "store">>, <<"detach", "base">> >>
Teardown ==
    << <<"override", "off">>, <<"detach", "vartmp">>, <<"detach", "store">>,
       <<"detach", "base">>, <<"remove", "base">> >>

ExtractImage ==
    << <<"mkdir", "image">>, <<"extract", "image">>, <<"defer", "image">> >>

RunBootcInstall ==
    When(RamHost, Redirect)
    \o << <<"install", "target">> >> \o When(Mok, ExtractImage)
    \o When(RamHost, Teardown)

RunTPMEnroll == << <<"enroll", "target">> >>

RunESPStage  == << <<"stage", "target">> >>

\* Fault: the target is not mounted again.
RunRetagRootNoRemount ==
    << <<"umountTree", "target">> >>
    \o When(Encrypted, << <<"luksClose", "mapper">> >>)
    \o << <<"setType", "root">>, <<"wait", "root">> >>
    \o When(Encrypted, OpenMapper)

RunRetagRoot ==
    << <<"umountTree", "target">> >>
    \o When(Encrypted, << <<"luksClose", "mapper">> >>)
    \o << <<"setType", "root">>, <<"wait", "root">> >>
    \o When(Encrypted, OpenMapper)
    \o MountTarget

RunConfigure == << <<"configure", "target">>, <<"report", "item">> >>

RunFinalize ==
    << <<"write", "trim">>, <<"write", "readonly">>, <<"freeze", "target">>,
       <<"thaw", "target">> >>

RunMOKStage == << <<"import", "image">> >>

(* Assemble: the steps of this recipe, in order.                           *)
StepsWith(retag) ==
    << "preflight-uefi", "preflight-tools", "preflight-image",
       "preflight-disk", "partition", "format-boot" >>
    \o When(Encrypted, << "luks-format" >>)
    \o << "format-root", "mount-target", "bootc-install" >>
    \o When(Encryption \in {"tpm2-luks", "tpm2-luks-passphrase"}, << "tpm-enroll" >>)
    \o When(Mok, << "esp-stage" >>)
    \o When(retag, << "retag-root" >>)
    \o << "flatpaks", "sysconfig", "finalize" >>
    \o When(Mok, << "mok-stage" >>)

\* Fault: an encrypted root is not retyped.
StepsRetagPlainOnly == StepsWith(Bootloader # "grub2" /\ ~Encrypted)

Steps == StepsWith(Bootloader # "grub2")

Body(name) ==
    CASE name = "partition"     -> RunPartition
      [] name = "format-boot"   -> RunFormatBoot
      [] name = "luks-format"   -> RunLuksFormat
      [] name = "format-root"   -> RunFormatRoot
      [] name = "mount-target"  -> RunMountTarget
      [] name = "bootc-install" -> RunBootcInstall
      [] name = "tpm-enroll"    -> RunTPMEnroll
      [] name = "esp-stage"     -> RunESPStage
      [] name = "retag-root"    -> RunRetagRoot
      [] name \in {"flatpaks", "sysconfig"} -> RunConfigure
      [] name = "finalize"      -> RunFinalize
      [] name = "mok-stage"     -> RunMOKStage
      [] OTHER                  -> RunPreflight

P == INSTANCE Pipeline WITH
        Runs <- {Me}, NumSteps <- Len(Steps), NumPreflight <- 4,
        DeferSteps <- {s \in DOMAIN Steps :
                         Steps[s] \in {"luks-format", "mount-target", "bootc-install"}}

(* What is left to do when the operation fails.  The redirect's undo knows *)
(* the binds that have been reported as made, the teardown's all of them.  *)
CleanUpOf(op, afterThaw) ==
    CASE op \in {<<"mount", "boot">>, <<"mount", "esp">>} -> << <<"unwindTree", "target">> >>
      [] op[1] = "subvols"                              -> << <<"umount", "scratch">> >>
      [] op = <<"bind", "store">>                       -> << <<"detach", "base">> >>
      [] op = <<"bind", "vartmp">>                      -> Tail(Detaches)
      [] op[1] = "announce" \/ op = <<"override", "on">> -> Detaches
      [] op[1] \in {"install", "mkdir", "extract"}      -> When(RamHost, Teardown)
      [] op[1] = "thaw"                                 -> afterThaw
      [] OTHER                                          -> <<>>

\* Fault: a failed thaw is not retried without the run's context.
CleanUpStaysFrozen == CleanUpOf(Head(todo), <<>>)

CleanUp == CleanUpOf(Head(todo), << <<"rescue", "target">> >>)

-----------------------------------------------------------------------------
Init ==
    /\ P!Init
    /\ todo = <<>> /\ outcome = "ok" /\ cancelled = "no"
    /\ mounts = {} /\ mapper \in {"closed", "stale"} /\ luks = FALSE
    /\ disclosed = FALSE /\ rootType = "unset" /\ frozen = FALSE
    /\ override = FALSE /\ image = "none" /\ blamed = {}

(* The operation about to run.                                             *)
At(what) ==
    /\ pc[Me] = "run" /\ todo # <<>> /\ Head(todo)[1] = what
Subject == Head(todo)[2]

Proceed == todo' = Tail(todo) /\ UNCHANGED <<outcome, cancelled>>
Abort   == todo' = CleanUp /\ outcome' = "failed"

\* Fault: the command does not run under the run's context.
CommandDetached ==
    /\ \/ Proceed
       \/ Abort /\ cancelled' = "late"
    /\ UNCHANGED engine

(* A command under the run's context, its effect given by the caller: it   *)
(* succeeds, or is killed when it is already too late to stop it.          *)
Command ==
    /\ ~Cancelled
    /\ \/ Proceed
       \/ Abort /\ cancelled' = "late"
    /\ UNCHANGED engine

(* ... and without its effect: it failed, or the context is done.          *)
Commands == {"check", "partition", "write", "luksFormat", "closeStale",
             "luksOpen", "mount", "subvols", "bind", "override", "install",
             "mkdir", "extract", "enroll", "stage", "umountTree", "luksClose",
             "setType", "wait", "configure", "freeze", "thaw", "import"}

CommandFails ==
    /\ \E what \in Commands : At(what)
    /\ Head(todo) # <<"override", "off">>
    /\ ~(At("closeStale") /\ mapper = "closed")
    /\ Abort
    /\ UNCHANGED <<engine, cancelled, machine>>

(* Operations whose effect on the machine no property looks at: commands,  *)
(* and code of firn's own that a cancellation does not stop.               *)
RunsCommand ==
    /\ \E what \in {"write", "subvols", "install", "enroll", "import"} : At(what)
    /\ Command
    /\ UNCHANGED machine

RunsCode ==
    /\ \E what \in {"check", "stage", "wait", "configure"} : At(what)
    /\ Proceed
    /\ UNCHANGED <<engine, machine>>

(* The retry with --force may write the table and then fail on partprobe.  *)
Partition ==
    /\ At("partition")
    /\ rootType' = "linux"
    /\ \/ Command
       \/ Abort /\ ~Cancelled /\ UNCHANGED <<engine, cancelled>>
    /\ UNCHANGED <<mounts, mapper, luks, disclosed, frozen, override, image, blamed>>

LuksFormat ==
    /\ At("luksFormat") /\ Command
    /\ luks' = TRUE
    /\ UNCHANGED <<mounts, mapper, disclosed, rootType, frozen, override, image, blamed>>

CloseStale ==
    /\ At("closeStale")
    /\ \/ mapper = "closed" /\ Proceed /\ UNCHANGED <<engine, mapper>>
       \/ mapper # "closed" /\ Command /\ mapper' = "closed"
    /\ UNCHANGED <<mounts, luks, disclosed, rootType, frozen, override, image, blamed>>

LuksOpen ==
    /\ At("luksOpen") /\ luks /\ Command
    /\ mapper' = "open"
    /\ UNCHANGED <<mounts, luks, disclosed, rootType, frozen, override, image, blamed>>

(* A mapper with a mounted filesystem is busy.                             *)
CanCloseMapper == mapper # "closed" /\ mounts \cap RootFS = {}

LuksClose ==
    /\ At("luksClose") /\ CanCloseMapper /\ Command
    /\ mapper' = "closed"
    /\ UNCHANGED <<mounts, luks, disclosed, rootType, frozen, override, image, blamed>>

(* mount; the root device is the mapper when the root is encrypted.        *)
Mount ==
    /\ At("mount") \/ At("bind")
    /\ Encrypted => mapper = "open"
    /\ Command
    /\ mounts' = mounts \cup {Subject}
    /\ UNCHANGED <<mapper, luks, disclosed, rootType, frozen, override, image, blamed>>

(* The scratch mount of format-root is taken down under the run's context, *)
(* and what goes wrong then is dropped when the subvolumes failed already. *)
UmountScratch ==
    /\ At("umount")
    /\ \/ Command /\ mounts' = mounts \ {Subject} /\ UNCHANGED blamed
       \/ /\ Abort /\ UNCHANGED <<engine, cancelled, mounts>>
          /\ blamed' = IF outcome = "ok" THEN blamed \cup {Subject} ELSE blamed
    /\ UNCHANGED <<mapper, luks, disclosed, rootType, frozen, override, image>>

(* umount -R.  One that fails may have taken some of the tree down; one of *)
(* something not mounted fails.                                            *)
PartOfTree == {mounts \ gone : gone \in SUBSET (TargetTree \ {"root"})}

UmountTree ==
    /\ At("umountTree") /\ "root" \in mounts
    /\ \/ Command /\ mounts' = mounts \ TargetTree
       \/ Abort /\ ~Cancelled /\ mounts' \in PartOfTree /\ UNCHANGED <<engine, cancelled>>
    /\ UNCHANGED <<mapper, luks, disclosed, rootType, frozen, override, image, blamed>>

(* MountTarget's own clean-up: background context, its error joined.       *)
UnwindTree ==
    /\ At("unwindTree") /\ Proceed
    /\ \/ mounts' = mounts \ TargetTree /\ UNCHANGED blamed
       \/ mounts' \in PartOfTree /\ blamed' = blamed \cup TargetTree
    /\ UNCHANGED <<engine, mapper, luks, disclosed, rootType, frozen, override, image>>

\* Fault: the root partition gets the type of the ESP.
SetTypeESP ==
    /\ At("setType") /\ Command
    /\ rootType' = "esp"
    /\ UNCHANGED <<mounts, mapper, luks, disclosed, frozen, override, image, blamed>>

SetType ==
    /\ At("setType") /\ Command
    /\ rootType' = "dps"
    /\ UNCHANGED <<mounts, mapper, luks, disclosed, frozen, override, image, blamed>>

Override ==
    /\ At("override") /\ Proceed
    /\ override' = (Subject = "on")
    /\ UNCHANGED <<engine, mounts, mapper, luks, disclosed, rootType, frozen, image, blamed>>

(* umount -R, then umount -R -l; when both fail a warning says so, and a   *)
(* sink that fails on that warning is ignored.                             *)
Detach ==
    /\ At("detach") /\ Proceed
    /\ \/ mounts' = mounts \ {Subject} /\ UNCHANGED <<engine, blamed>>
       \/ /\ Subject \in mounts
          /\ \E ok \in BOOLEAN : P!StepEmits(Me, ok)
          /\ blamed' = blamed \cup {Subject} /\ UNCHANGED mounts
    /\ UNCHANGED <<mapper, luks, disclosed, rootType, frozen, override, image>>

(* os.RemoveAll of the scratch base; it fails while base is mounted.       *)
RemoveBase ==
    /\ At("remove") /\ Proceed
    /\ \/ "base" \notin mounts /\ UNCHANGED engine
       \/ \E ok \in BOOLEAN : P!StepEmits(Me, ok)
    /\ UNCHANGED machine

MakeImageDir ==
    /\ At("mkdir") /\ Proceed
    /\ image' = "dir"
    /\ UNCHANGED <<engine, mounts, mapper, luks, disclosed, rootType, frozen, override, blamed>>

ExtractSecureImageRoot ==
    /\ At("extract") /\ Command
    /\ image' = "ready"
    /\ UNCHANGED <<mounts, mapper, luks, disclosed, rootType, frozen, override, blamed>>

Freeze ==
    /\ At("freeze") /\ Command
    /\ frozen' = TRUE
    /\ UNCHANGED <<mounts, mapper, luks, disclosed, rootType, override, image, blamed>>

Thaw ==
    /\ At("thaw") /\ Command
    /\ frozen' = FALSE
    /\ UNCHANGED <<mounts, mapper, luks, disclosed, rootType, override, image, blamed>>

(* The recovery thaw, detached from the cancellation.                      *)
Rescue ==
    /\ At("rescue") /\ Proceed
    /\ \/ frozen' = FALSE /\ UNCHANGED blamed
       \/ blamed' = blamed \cup {"frozen"} /\ UNCHANGED frozen
    /\ UNCHANGED <<engine, mounts, mapper, luks, disclosed, rootType, override, image>>

-----------------------------------------------------------------------------
(* Events of the steps themselves.  The step fails with the sink.          *)
Delivered(ok) == ok /\ Me \notin emitErr

(* An information or warning event, if there is anything to say; a warning *)
(* about the target also becomes an item of the summary.                   *)
Report ==
    /\ At("report") \/ At("announce")
    /\ \/ At("report") /\ Proceed /\ UNCHANGED engine
       \/ \E ok \in BOOLEAN :
             /\ P!StepEmits(Me, ok)
             /\ IF Delivered(ok)
                THEN /\ todo' = When(Subject = "item", << <<"summarize", "item">> >>) \o Tail(todo)
                     /\ UNCHANGED outcome
                ELSE Abort
             /\ UNCHANGED cancelled
    /\ UNCHANGED machine

Summarize ==
    /\ At("summarize") /\ Proceed
    /\ P!StepAddsSummary(Me)
    /\ UNCHANGED machine

Disclose ==
    /\ At("disclose")
    /\ \E ok \in BOOLEAN :
          /\ P!StepEmits(Me, ok)
          /\ IF Delivered(ok)
             THEN Proceed /\ disclosed' = TRUE
             ELSE Abort /\ UNCHANGED <<cancelled, disclosed>>
    /\ UNCHANGED <<mounts, mapper, luks, rootType, frozen, override, image, blamed>>

DeferUndo ==
    /\ At("defer") /\ Proceed
    /\ P!StepDefers(Me)
    /\ UNCHANGED machine

-----------------------------------------------------------------------------
(* The engine around the steps.                                            *)
StartStep ==
    /\ \E ok \in BOOLEAN :
          /\ P!StartStep(Me, ok)
          /\ todo' = IF ok /\ P!Executes(Me)' THEN Body(Steps[step[Me] + 1]) ELSE <<>>
    /\ outcome' = "ok"
    /\ UNCHANGED <<cancelled, machine>>

StepReturns ==
    /\ todo = <<>>
    /\ P!StepReturns(Me, outcome = "ok")
    /\ UNCHANGED <<control, machine>>

(* The undo registered last: luksClose, umount -R of the target, or the    *)
(* removal of the image root.                                              *)
CloseMapper(ok) ==
    /\ IF ok THEN CanCloseMapper /\ mapper' = "closed" ELSE UNCHANGED mapper
    /\ UNCHANGED <<mounts, image>>

UnmountTarget(ok) ==
    /\ IF ok THEN "root" \in mounts /\ mounts' = mounts \ TargetTree
             ELSE mounts' \in PartOfTree
    /\ UNCHANGED <<mapper, image>>

RemoveImageRoot(ok) ==
    /\ image' = IF ok THEN "none" ELSE image
    /\ UNCHANGED <<mounts, mapper>>

Undo ==
    /\ \E ok \in BOOLEAN :
          /\ P!Undo(Me, ok)
          /\ LET name == Steps[stack[Me][Len(stack[Me])]] IN
             \/ name = "luks-format"   /\ CloseMapper(ok)
             \/ name = "mount-target"  /\ UnmountTarget(ok)
             \/ name = "bootc-install" /\ RemoveImageRoot(ok)
    /\ UNCHANGED <<control, luks, disclosed, rootType, frozen, override, blamed>>

EngineStep ==
    /\ \/ \E ok \in BOOLEAN :
             \/ P!Begin(Me, ok) \/ P!DeprecationWarning(Me, ok)
             \/ P!SkipStep(Me, ok) \/ P!WarnCleanup(Me, ok)
             \/ P!EmitSummary(Me, ok) \/ P!EmitVerdict(Me, ok)
       \/ P!TakeLock(Me) \/ P!RefuseLock(Me) \/ P!SkipLock(Me)
       \/ P!StepsDone(Me) \/ P!Unwound(Me) \/ P!ReleaseLock(Me)
    /\ UNCHANGED <<control, machine>>

Cancel ==
    /\ ~Cancelled /\ pc[Me] \notin {"idle", "returned"}
    /\ cancelled' = "yes"
    /\ UNCHANGED <<engine, todo, outcome, machine>>

Operation ==
    \/ CommandFails \/ RunsCommand \/ RunsCode \/ Partition \/ LuksFormat
    \/ CloseStale \/ LuksOpen \/ LuksClose \/ Mount \/ UmountScratch \/ UmountTree
    \/ UnwindTree \/ SetType \/ Override \/ Detach \/ RemoveBase
    \/ MakeImageDir \/ ExtractSecureImageRoot \/ Freeze \/ Thaw \/ Rescue
    \/ Report \/ Summarize \/ Disclose \/ DeferUndo

Next == StartStep \/ Operation \/ StepReturns \/ Undo \/ EngineStep \/ Cancel

Spec == Init /\ [][Next]_vars

-----------------------------------------------------------------------------
TypeOK ==
    /\ P!TypeOK
    /\ outcome \in {"ok", "failed"} /\ cancelled \in {"no", "yes", "late"}
    /\ mounts \subseteq Places /\ mapper \in {"closed", "open", "stale"}
    /\ rootType \in {"unset", "linux", "dps"} /\ image \in {"none", "dir", "ready"}
    /\ {luks, disclosed, frozen, override} \subseteq BOOLEAN
    /\ blamed \subseteq Places \cup {"frozen"}

Unwound == pc[Me] \in {"report", "summary", "verdict", "returned"}

(* On a RAM-only host every podman command sees the redirected store, and  *)
(* the redirection is gone, or its remains are reported, before any other  *)
(* step runs and when none does; only a bind that was made although it was *)
(* cancelled escapes the undo.                                             *)
RedirectIsScoped ==
    /\ RamHost /\ (At("install") \/ At("extract")) => override /\ Binds \subseteq mounts
    /\ pc[Me] # "run" \/ (At("umountTree") \/ At("configure") \/ At("freeze")) =>
          ~override /\ (cancelled = "late" \/ mounts \cap Binds \subseteq blamed)

(* A step that works on the target finds it complete: the root and every   *)
(* other filesystem of the layout mounted, the root being the mapper when  *)
(* it is encrypted, before and after retag-root takes it all apart; the    *)
(* Secure Boot steps find the image root; and the partition is retyped     *)
(* while nothing uses it, but a bind whose failure to go has been said.    *)
(* The container store is where podman needs it, and nobody else has it.   *)
WorksOnTarget ==
    /\ RedirectIsScoped
    /\ At("setType") => mapper # "open" /\ mounts \subseteq blamed
    /\ \A what \in {"install", "extract", "enroll", "stage", "configure", "freeze"} :
          At(what) =>
             /\ {"root", "esp"} \subseteq mounts
             /\ Bootloader = "grub2" => "boot" \in mounts
             /\ Encrypted => luks /\ mapper = "open"
    /\ At("stage") \/ At("import") => image = "ready"

(* A root encrypted with a generated key has had that key disclosed: no    *)
(* failure after luksFormat can leave a disk nobody can open.              *)
KeyIsDisclosed == luks /\ Encryption = "tpm2-luks" => disclosed

(* Once cancelled, the run only gives things back.                         *)
CancelOnlyReleases ==
    [][Cancelled => /\ mounts' \subseteq mounts
                    /\ mapper' \in {mapper, "closed"}
                    /\ (luks' => luks) /\ rootType' = rootType
                    /\ (frozen' => frozen)]_vars

(* A successful install leaves an installed disk and nothing of the        *)
(* installer's own, except a store bind it has warned about.               *)
SuccessIsComplete ==
    pc[Me] = "returned" /\ Me \notin err /\ Me \notin dry =>
       /\ mounts \subseteq blamed \cap Binds /\ mapper # "open" /\ ~frozen
       /\ image = "none" /\ luks = Encrypted
       /\ rootType = IF Bootloader = "grub2" THEN "linux" ELSE "dps"

(* A failed install leaves no mount, no open mapper and no frozen target   *)
(* that its own events do not report (Env.Defer's comment), unless a       *)
(* killed command had already done what it then reported as undone.  The   *)
(* scratch mount has a property of its own.                                *)
NoSilentLeak ==
    Unwound /\ cancelled # "late" =>
       /\ mounts \subseteq {"scratch"} \cup blamed \/ fails[Me] > 0
       /\ mapper = "open" => fails[Me] > 0
       /\ frozen => "frozen" \in blamed

(* "A failed install leaves no mounts" (Env.Defer's comment): nor that of  *)
(* runFormatRoot, unless an event of the run reports it.                   *)
ScratchIsUnmounted ==
    Unwound /\ cancelled # "late" =>
       "scratch" \notin mounts \/ "scratch" \in blamed \/ fails[Me] > 0
=============================================================================
