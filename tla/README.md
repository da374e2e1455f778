# firn in TLA+

firn installs a bootc (image-based) Linux system on a disk. This directory is a
verification development kept beside its code: TLA+ modules that model the
installer's core, TLC configurations that check them on small instances, and
proofs about them for TLAPS. `PROJECT.json` maps every definition to the lines
it stands for and lists every run, mutant, finding, hazard and theorem.

    tlc -workers 2 -config MCPipeline.cfg MCPipeline.tla
    tlc -workers 2 -config MCFrontend.cfg MCFrontend.tla
    tlapm PipelineProofs.tla

A definition whose comment begins with "Fault:" is a plausible bug of the code
next to it. No specification uses it; replacing the definition that follows by
it must break the property `PROJECT.json` names under "mutants".

## 1. Inventory

| Component | State it keeps | Operations | Talks to |
|---|---|---|---|
| Step engine, `internal/pipeline` | the flock, the undo stack, the sticky emitter error, the run's error with code and step, the summary | `Run`, `runSteps`, `acquireInstallLock`, `unwind`, `Env.Emit/Defer/AddSummary` | steps (calls), an emitter (calls), other firn processes (lock) |
| Progress protocol, `internal/progress` | channel buffer, closed flag | `Emit`, `Close`, NDJSON encoding | engine to view, or to a parent process |
| Install steps, `internal/steps` | what of the target is set up: partitions, LUKS, mounts, store redirect, image root | one `Run` per step, `Assemble` | disk, luks, bootcimg, secureboot, flatpak, sysconfig; through the runner, the machine |
| Disk and LUKS, `internal/disk` `internal/luks` | none of their own; partition table, mapper, mounts | partition, format, mount, unmount, open, close, enroll, refuse a disk | runner |
| Image, `internal/bootcimg` | none; container store | inspect, probe, verify and pin, install, extract | podman, cosign, a registry |
| Secure Boot, `internal/secureboot` | ESP files, MOK request | `StageESPChain`, key staging | the image root and the ESP |
| Flatpaks, `internal/flatpak` | target's flatpak tree | `Provision`, `copyFlatpakTree` (two tars and a pipe) | runner |
| System configuration, `internal/sysconfig` | files of the target | atomic writes, users, secrets | the deployment root |
| Recipe, `internal/recipe` | none | load, validate, render | everything that installs |
| TUI, `internal/tui` and `cmd/firn/tui.go` | wizard's answers, session's secret files, install view | wizard, `runTUIInstall` | engine through the channel |
| Graphical installer, `gui/` | the application state of `app.go`: choices, page, disks, preview, reviewed recipe, install phase, session | page moves, rescans, inspections, confirm, start, cancel, retry, close, signals | `steps.Assemble(...).Run` in its own process, through a channel |
| Headless command, `cmd/firn` | none | flags, signals, deprecation notices | engine |
| Catalog, platform | none | reads | recipe, wizard |

What makes them hard:

- *Engine.* Several firn processes on one machine; a kill that drops the lock
  and not the commands; failures of a step, of undos and of the event sink that
  have to end in one truthful verdict; a dry run that shares every line.
- *Steps.* `retag-root` takes apart what earlier steps built and rebuilds it,
  under undos registered before; clean-ups that run outside the undo stack, some
  under the run's context and some not; a cancellation between any two commands.
- *Channel and view.* A bounded channel whose sender blocks holding a mutex; a
  reader that may be gated by the recovery key, quit, be signalled or die; a
  drain that must not compete with it.
- *Graphical installer.* Results of slow calls (disk scans, image previews) that come
  back to a model that has moved on; start, cancel, retry and close against the
  events of a running install.
- *Wizard.* Pages left in both directions with whatever was typed on them, an
  image changed after its defaults were taken, secrets written for a review that
  is then left, and a disk chosen from one listing and erased under another.
- *ESP, image, flatpak.* Files staged one at a time on a filesystem without
  journal; a tag that moves between inspection, signature check and install; a
  pipe whose reader may die first.

What makes each correct is stated with its module in section 3; the hazards, at
their lines, are in `PROJECT.json`.

## 2. Plan

The order is that of the damage a fault would do.

| | Modules | Composes | State |
|---|---|---|---|
| 1 | `ProgressStream`, `Pipeline`, `PipelineProofs` | `Pipeline` implements `ProgressStream` | done, all safety proved |
| 2 | `Installer`, `InstallerProofs` | the steps, inside an instance of `Pipeline` | done at the grain of one operation per call, all safety proved |
| 3 | `InstallView`, `InstallViewProofs` | channel, view and `runTUIInstall` | done, all invariants proved |
| 4 | `GuiApp`, `GuiAppProofs` | application, pipeline goroutine, window, signals | done, all safety proved |
| 5 | `ImagePin`, `ImagePinProofs` | preflight-image with a moving registry, up to bootc | done, all properties proved |
| 6 | `ESPChain`, `ESPChainProofs` | esp-stage, page cache and disk | done, its three invariants proved |
| 7 | `TarPipe`, `Flatpaks`, `Configure`, `ConfigureProofs` | `Flatpaks` runs the copy of `TarPipe`; `Configure` runs sysconfig after it | done, all invariants proved |
| 8 | `DiskRules`, `RecipeRules` | listing, resolution and refusal of a disk; `recipe/validate.go`: operators | done |
| 9 | `Wizard`, `Frontend`, `FrontendProofs` | `Wizard` over the rules; `Frontend` puts the wizard, its session, the headless command and preflight-disk together | done, all invariants proved |

No invariant or action property a run checks is left without a theorem. What is
left is a run of `Installer` on a `grub2` recipe (the theorems cover it, no run
does), and the catalog: what a broken or missing catalog file leaves of the
built-in one.

## 3. Modules

### ProgressStream and Pipeline

`ProgressStream` is what `docs/specs/progress-protocol.md` promises a consumer
of one run: a `start`, steps in rising order, a summary of what was collected, at
most one terminal event and nothing after it. `Pipeline` is `Pipeline.Run` for
several processes on one machine: the `flock`, the preflight steps, dry run, the
undo stack, the sticky emitter error, the clean-up warning, the summary and the
verdict, with the deprecation warning the headless command puts before it. `pc`
is the place in `Run`; a step's own work is `StepEmits`, `StepDefers`,
`StepAddsSummary` and `StepReturns` in any order. `Crash` drops the lock and
leaves what the process had started.

| Property | Hazard |
|---|---|
| `LockCoversDisk` | two runs write at once, or undo after the lock was dropped |
| `RefusedTouchesNothing` | a refused run unlocks the holder or reports a step |
| `DryRunIsHarmless` | dry run shares every line with the real thing |
| `VerdictIsHonest` | the event stream, the returned error and what happened disagree |
| `MuteAfterSinkFailure` | events go on after the sink failed, or a step starts |
| `StreamIsLegal` | refinement of `ProgressStream` |
| `RunEndsAndUnlocks` | a run neither ends nor gives up the lock |

### Installer

One run of the assembled bootc pipeline on one recipe (the constants). A step is
a sequence of operations, `todo`, one per call of the source that can fail; a
failing operation replaces the rest of the step by the clean-up the code runs on
that path. Steps are spliced by encryption, MOK and bootloader as `bootcSteps`
does. The engine is `Pipeline`'s, instantiated; its undo actions run the bodies
the steps registered. A cancellation fails every later command that runs under
the run's context, and a command it kills may have done its work all the same
(`cancelled = "late"`): the properties about leftovers leave that case out, since
the code cannot know either. Undos of what is already gone fail, as `umount` and
`luksClose` do. The redirect's undo detaches the binds recorded in `mounted`
(`bootc.go:354-430`): one that was made by a command killed too late is not
recorded, and stays.

`WorksOnTarget`: each step finds the mounts, the mapper, the image and the store
redirect it works with, through `retag-root`'s taking everything down and up
again; the partition is retyped while nothing uses it, and the redirect is gone,
or reported, when any step runs that is not to see it. `KeyIsDisclosed`: no
container is formatted with a generated key the user was not shown.
`SuccessIsComplete`: a `done` means everything the
recipe asked for. `NoSilentLeak`: what a failed run leaves is in an event of the
run. `CancelOnlyReleases`: after a cancellation nothing more is acquired.
`ScratchIsUnmounted`, that the scratch mount of `format-root` is gone after it or
its failing unmount is in an event, is refuted, see below.

### InstallView

`progress.Channel` with its mutex and buffer, the Bubble Tea view reading one
event per message, and `runTUIInstall` waiting for both. `NothingLost`,
`ReportIsTrue`, `KeyIsAcknowledged`, and `NobodyWaitsForEver`: the pipeline and
the command both end once the view does.
The drain starts only when the view has ended, whether a user, a signal or a
dead terminal ended it.

### GuiApp

`app.go`'s state machine on the UI thread, with the disk scans, image inspections
and the pipeline as things that answer later by posting to that thread.
Requests carry the image they were made for; results are dropped when the user
has moved on, as `setPreview` does. `InstallsWhatWasReviewed`: an install
starts only with the recipe last reviewed and a disk whose path was typed.
`OneInstallAtATime`. `NoInstallOutlivesWindow`: when the process ends, the context
of the last install has been cancelled (`finish` does it, or `shutdown`) and its
pipeline has returned; the window may be gone by the user's hand, a quit, a signal,
or an event loop that fails (`LoopFails`), which asks nobody. Then the liveness
of the app list and of a quit. `KeyOutlivesQuit` is refuted.

What the checks do not let happen arbitrarily often (`MayAsk` and `MayAct`, by way of
`MaxAsked` and the like) is a bound and not a guard of the code. Assumed of mygo (external): a quit asks `OnBeforeQuit`, then `OnClose`; dialogs
are modal; posted closures run in order.

### ImagePin

From the recipe's reference to what bootc deploys: inspection of the local copy
and of the registry, selection of source and digest, cosign with its retries, the
diagnosis of a failure, the label with the core set. `TagMoves` may act between
any two of them. `OnlySignedIsInstalled`, `CoreSetIsInstalledImages`,
`NoFalseNetworkVerdict`.

### ESPChain

`StageESPChain` file by file, each open, write, flush and close, on an ESP whose
cache and disk differ; the kernel writes back when it likes and the power may go
at any time. `ChainBeforeShim`: a disk with shim holds all shim loads.
`SuccessIsDurable`: a step that returned has it on the disk. `EntryBoots` is
refuted.

### TarPipe, Flatpaks, Configure

`TarPipe` is `copyFlatpakTree` down to what decides whether it ends: two child
processes, their OS pipes, the goroutines `os/exec` starts to copy between those
and the unbuffered `io.Pipe`. `Flatpaks` is `Provision` around it, with the
medium's apps and the target's layout; `Configure` adds `runSysconfig`: account,
home, keys, groups and regional files, in the code's order. A regional setting may
be absent from the recipe; `localtime` is removed and then linked, two operations
either of which may fail.

`WholeTree`: a copy without error has unpacked all of it. `AppsBoot`: apps only
land in the `/var` the booted system mounts. `AppsAccountedFor`: each is there or
reported. `AccessAsAsked`: account, password, home, keys and groups as asked once
the system has booted (`HomeAtBoot` is systemd-tmpfiles' part, external).
`CopyEndsIfReaderLives`: the copy ends when its producer dies. `CopyEnds` is
refuted.

### DiskRules, RecipeRules, Wizard, Frontend

`DiskRules` is what `lsblk` and `findmnt` may show at a moment, and the code's
judgement of it: `RefusalReason`, `CanonicalPath`, `Resolve`. Every caller lists
anew, from a set of listings (`Listings`) any of which may be the next. That a
disk carries the running system is not in a listing: the code knows mount points,
the disk `findmnt` names, RAID, LVM and the medium, and where these are not enough
is in section 6. `RecipeRules`
is `Validate`, as the set of fields complained about, with the files it looks at,
those with SSH keys among them.

`Wizard` is the page loop. `c` is `wizardChoices`; a page has the answers that may
be bound after a stay on it (`Answers`), the validators that guard going forward
(`Accepts`), what stays bound going back (`Left`) and what building its form
changes (`Form`). The review assembles the recipe, writes the secrets it refers
to, has the disk typed and validates; every error path of it is an action. The
clean-up of the secrets (`CleansUp`) may fail for any of the files in `Stuck`, on
every way out of the review: the error joins a quit's or an error's, and is dropped
when the page loop goes on (`Leaves`). `unremoved` remembers which files that left.
`Frontend` is `cmd/firn`: the session around the wizard, its removal, the error
held on the screen, the recipe written and loaded again; next to it the headless
command on any of `HandRecipes`; and preflight-disk, which both end in.

| Property | Hazard |
|---|---|
| `ErasesTheTypedDisk` | the disk listed, typed, linked to and erased differ; the one erased has been mounted or taken into a RAID since it was listed |
| `OnlyKeyFileRefused` | answers of a page that was left backwards, or for another machine's offers, end in a recipe that is refused after the disk was typed |
| `SecretsAreTheRecipes` | a secret of the recipe is missing or has an older content; one of a review that was left stays although it could be removed |
| `AnswersAreThisImages` | core apps of another image, or groups of an entry of another name, than the one selected |
| `InstallHasItsInputs` | a step finds a passphrase, the TPM, a password or a file with SSH keys missing once the disk is erased |

## 4. Runs and bounds

| Run | Instance | Why it is enough |
|---|---|---|
| `pipeline` | 2 processes; a preflight step and one with an undo | the lock has two parties; each kind of step once; every emission, undo and step may fail, either process may be killed |
| `install_full` | TPM-encrypted btrfs root, MOK, RAM-only host | the recipe with the most operations; every one of them fails or is cancelled |
| `subvols` (refuted) | a plain btrfs root | the shortest recipe with the scratch mount |
| `view` | a buffer of 2, up to 5 events | fewer slots than events: the sender blocks while the view is gated or gone |
| `gui` | 2 images, 1 disk, 2 signals, 2 installs, 5 scans or inspections (3 where there is an install or a signal), any 5 of all these | one image chosen, left and chosen again, with a rescan between and an inspection still to come back; a rescan under the review and the dialog; a late finish of the first install in the second; both signals |
| `gui_key` (refuted) | one install, one signal | |
| `image` | 2 images a tag moves between | one that is signed, one that is not; every recipe and host |
| `esp` | every image root, both kinds of ESP | the state is finite as it is |
| `esp_entry` (refuted) | the same | |
| `configure` | 2 apps, 2 groups, 3 chunks, pipes of 1 | one app present and one not; a chunk in each place and one more. Either apps or accounts vary (`OneAtATime`): they share only the layout and the cancellation |
| `configure_copy` (refuted) | the same | |
| `frontend` | 2 machines (Secure Boot and a TPM, and neither), and the first again for the secrets; 3 images of which one has lost its key file and two share a name, 2 disks in 5 listings, 29 recipes by hand | each rule of `Validate` is broken by some recipe; the running system on a disk, on a stick in either place, beside a RAID member; a disk that is free in one listing and taken in the next; an image changed for one of its own name and for one of another; a secret written, changed, abandoned and stuck. `OneAtATime` lets texts be ill-formed and names be shared on the machine with few secrets, secrets change and resist removal on the third only |

Bounds are constants: `MaxEvents`, `Cap`, `MaxAsked`, `MaxAskedBusy`, `MaxRequests`, `MaxSignals`,
`MaxInstalls`, `NumSteps`, `Chunks`, `Capacity`; in `frontend` what the user may do
is one, too: the filesystems picked (`Filesystems`: xfs, next to the initial
btrfs), what is typed for a secret (`Typed`: two passphrases, one of either
password, or nothing), the page on which a text may be ill-formed (`Slips`: the
user's) and the secrets that may resist removal (`Stuck`: all). Its theorems hold
for all of them. `Attempts` (three tries of cosign) is
the code's own. Deadlock checking is off in all runs: a run, a command and an
installer end.

The type invariants of `Pipeline`, `ESPChain`, `ImagePin` and `Frontend` are in no
run: they are proved. The `grub2` layout is modelled in `Installer`
and is in no run; the theorems about `Installer` hold for it as for every recipe.

## 5. Fairness

Weak fairness, on what goes on without anyone's help: `Pipeline`'s `Progress(r)`
(a process that has not been killed takes its next step: steps are assumed to
return), `InstallView`'s pipeline, Go runtime and the three continuations of
`runTUIInstall`, `GuiApp`'s inspections (each has a timeout), pipeline goroutine,
posted closures and shutdown, `Configure`'s own next operation. Never on the
user, on a signal, on a failure, on a cancellation, on a tag, on a crash. That
steps return is what `CopyEnds` refutes for one of them: `RunEndsAndUnlocks`,
`NobodyWaitsForEver` and `QuitEnds` hold as far as it holds.

## 6. What the checks found

Each is the result of a run that TLC finds violated; `PROJECT.json` quotes the
line it contradicts.

1. **A cancelled flatpak copy never returns** (`configure_copy`,
   `flatpak.go:55`). The cancellation kills both tars. The extractor's goroutine
   gets `EPIPE` and ends; the producer's still has what the OS pipe held, writes
   it to the `io.Pipe`, and nobody reads any more. `cmd.Wait` waits for that
   goroutine and `wg.Wait` for both: no undo runs, the lock stays held, and no
   further signal helps. The same after `tar xf` dies of its own. Closing `pr`
   with the extractor's error would end it.
2. **The scratch mount for subvolumes stays** (`subvols`, `bootc.go:169`): when
   creating them fails and the unmount behind it too, no undo is registered and
   the unmount's error is dropped. A cancellation, which fails both, is one way
   to get there.
3. **The key's window closes under a waiting quit** (`gui_key`, `app.go:649`): an
   install that succeeds after a quit was asked for closes the window over the
   unacknowledged recovery key.
4. **shim overwrites the working entry in place** (`esp_entry`,
   `espchain.go:154`): between open and flush the firmware's entry point is
   neither the old one nor the new.

Seen while modelling, without a run of their own:

- A `du` that fails makes `Provision` skip the copy; the apps the medium lists
  are then taken for delivered and neither downloaded nor reported
  (`flatpak.go:281`; `AppsAccountedFor` leaves this case out by name).
- `retag-root` takes down what earlier undos are about; when it fails half way,
  those undos fail and the run reports `cleanup_failed` with nothing left
  (`bootc.go:496`; `pipeline.go:127` asks for idempotent undos).
- A retry that cannot open a session goes on with the failed attempt's and
  forgets that it holds a recipe, so that closing the window removes what
  "stays for inspection" (`app.go:665-669`).
- A killed firn's commands live on without the lock
  (`progress-protocol.md:75` reads otherwise).
- A rescan that clears the disk under the open confirmation makes the empty
  typed text match; the recipe comparison in `startInstall` then refuses
  (`model.go:328-329` calls it a wizard bug).
- A registry that refused skopeo is counted as unreachable when cosign's last try
  ends in a transport failure (`verify.go:166-167`).
- A catalog's key file is looked at only by the validation after the disk's path
  was typed, and its absence is called a wizard bug and shown a second time before
  the wizard gives up (`catalog.go` looks at no file; `wizard.go:283-291`).
- `memberReason` knows RAID and LVM members (`disk.go:242`): the second disk of a
  mounted multi-device btrfs or of a ZFS pool shows no mount point and is offered,
  accepted and erased, though `disk.go:5-8` says "never the running system's own
  disk, never anything mounted". `ErasesTheTypedDisk` is about what a listing shows.
- An error of removing the secrets when the review is left backwards or started
  over is dropped (`wizard.go:205-225`). The session's removal tries again, but the
  session of a recipe accepted later is kept as it is, with a plaintext that recipe
  may not refer to. `SecretsAreTheRecipes` lets a secret stay whose removal failed
  (`unremoved`).
- Two catalog entries of one name are told apart by their reference only for the
  core apps: the groups are kept (`wizard_pages.go:79-88`; `AnswersAreThisImages`
  says so).
- `CreateUser` says the relocated home is chowned below; nothing there does, and
  nothing needs to: `mv` keeps the owner `useradd` gave it.

## 7. Proofs

All for every value of the constants, under the assumptions named in the modules
(`StepsAssumption`, `RecipeAssumption`, `DigestsAssumption`, `PipeAssumption`,
`CapAssumption`; of the wizard's side `NamesAssumption`, `ListingsAssumption`,
`CatalogAssumption`, `WizardAssumption`; that `None` is nothing else,
`NoneAssumption`). They say of what kind a constant is, but for one that says
more: `CatalogAssumption`, that an entry's reference and key pass the rules
`checkCatalog` applies (`ValidateImageSelection`; a key file need not be there, and
names may be the same). The two largest
inductive invariants were checked by TLC before they were proved: that of
`Configure` on the instance of its run, that of `Installer` on four recipes.

- `PipelineProofs`: `TypeCorrect`, `LockCovers`, `DryRunSafe`, `RefusalSafe`,
  `VerdictHonest`, `MuteOnceFailed`, `StreamLegal`. The stated invariants are not
  inductive. `LockInv` adds where in `Run` a holder may be and that whoever owes
  an undo holds the lock. `RefusalInv` adds how `err`, `code` and the place in
  `Run` go together, so that a refusal is told from a failure. `VerdictInv` says
  of every place in `Run` what has been emitted and failed so far, which is what
  makes the verdict at the end honest. `StreamInv` relates the last event to the
  place in `Run`; with it `StreamSimulation` maps each step to one of
  `ProgressStream` or to a stutter.
- `ESPChainProofs`: `TypeCorrect`, `ShimIsLast`, `ReturnedIsOnDisk` from `ChainInv`:
  the components before the one at hand are flushed (`Behind`), the entry is
  untouched until its turn (`Untouched`), and once it is touched, in the cache or
  by a writeback, all others are on the disk (`Chained`).
- `FrontendProofs`: `TypeCorrect`, `TypedDisk`, `ReviewIsValid`,
  `SecretsFollowReview`, `AnswersFollowImage`, `InputsAreThere` from `FrontInv`.
  Being on a page means that what the pages before it asked is settled (`Settled`),
  whatever was bound by leaving later ones backwards; with the image's defaults
  (`Kept`, `Ready`) and the secret files (`SecretsInv`: whatever a failing clean-up
  leaves, the review writes its own anew) this makes the recipe
  under review valid rule by rule (`ReviewedIsValid`). `CommandInv` carries the
  verdict and the typed disk through the session to the install.
- `InstallViewProofs`: `TypeCorrect`, `StreamIsWhole`, `VerdictIsReported`,
  `KeyIsRead`. The stream is whole because of `TurnsInv`: the view reads, handles
  and reads again, and nobody else takes from the channel while it is up. The
  verdict is true because of `VerdictInv`: a terminal event, in the buffer, in
  the inbox, in a blocked `Emit` or already handled, is the last one emitted.
- `GuiAppProofs`: `OneAtATime` and `NoneOutlivesWindow` from `InstallInv`:
  `cancelInstall` is set exactly as long as there is a pipeline that has not been
  reaped or its finish is the last thing posted, and a pipeline without it has been
  cancelled. What the form, the scans and the
  window do stands aside from it (`Aside`). `ReviewedIsInstalled` from
  `ChoiceInv`: the chosen disk is one the last scan did not refuse, and page,
  preview and open confirmation are about the same image. `TypeCorrect` part by
  part: form, choice, scans, preview, run.
- `ImagePinProofs`: `TypeCorrect`; `OnlySigned` from `PinInv` (past verification, the source is
  a digest cosign accepted), `CoreSetMatches` from `LabelsInv` (the label read is
  of the digest selected), `NetworkIsBlamedRightly` from `ProbeInv` (whoever probes
  has had no answer from the registry and asks for a reference to one) and from the
  probe being the only one that blames the network.
- `ConfigureProofs`: of the copy by itself `WholeTreeCopied`, from `PipeInv`: as
  long as the extractor runs, what was written is what was unpacked and what is in
  transit (`NoneLost`), and the `io.Pipe` is closed only behind the last chunk. Of
  the whole step `TypeCorrect`, `StepCopiesWholeTree`, `AppsLandWhereBooted`,
  `NoAppDropped` and `AccessGranted`, from `IInv`. An app's fate is not decided
  until the downloads are over, so `Accounted` says at each place where the apps
  are: promoted, found unreachable, or still in `todo`. `Placed` says that from the
  probe on the destination is the `/var` that boots. `HasAccount`, `HasHome` and
  `HasAccess` say what each place in sysconfig has behind it.
- `InstallerProofs`, for every recipe. `Implements`: the engine inside an install is
  `Pipeline`'s with these steps, whatever the steps do. What `PipelineProofs` has
  shown of the engine is thereby had by instantiation (`EngineInv`), and `LockHeld`
  is its `LockCovers`: every write of every step is covered by the lock. The rest,
  `TypeCorrect`, `TargetReady`, `KeyDisclosed`, `SuccessComplete`, `NoSilentLeaks`
  and `OnlyReleases`, is from `IInv`. None of them is inductive: a step's end says
  nothing of what the next one needs, unless it is known how far it has come. So
  every step has its points, each with what is left to do and what holds there
  (`On`), and between two steps stands what all done so far have made (`Between`:
  mounts, mapper, partition type, image, and who owes the undo of which). Once an
  operation has failed, `OnErrorPath` says what the clean-up in progress will still
  take away and that the rest is owed or has been said. `Unwinding` carries it
  through the undos: what is left is still owed, was said in an event, or an undo
  failed and was counted. A cancellation may come at every one of these points; only
  a command killed too late leaves what no place accounts for.

`InstallerProofs` takes tlapm some ten minutes, every other module far less.

Only model-checked, since liveness is beyond the prover: `RunEndsAndUnlocks`,
`NobodyWaitsForEver`, `AppListArrives`, `QuitEnds`, `CopyEndsIfReaderLives`.

## 8. Not modelled

The widgets of both interfaces and all texts; NDJSON; flag parsing; how the
catalog is read and merged and how the platform is probed (TPM, Secure Boot); the
grammars of a recipe's names and TOML itself: a text is well-formed or not; the
choice of bootloader, extra apps and edits to the list of groups in the wizard;
the graphical installer's own form rules, which are the recipe's; the password
hash and the formats of configuration files; device names that change between
preflight-disk and the install; what bootc, cryptsetup, podman and flatpak do
inside.
