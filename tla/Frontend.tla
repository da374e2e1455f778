------------------------------ MODULE Frontend ------------------------------
(***************************************************************************)
(* How an install comes to start, cmd/firn: the wizard's session and what  *)
(* becomes of it (tui.go), or a recipe and a typed --confirm (install.go); *)
(* then preflight-disk, which every install passes, on a listing of its    *)
(* own.  The engine around preflight-disk is Pipeline, the preflight of    *)
(* the image ImagePin; a dry run is Pipeline's too.                        *)
(***************************************************************************)
EXTENDS Wizard

CONSTANTS
    HandRecipes,  \* recipes written by hand
    NoRecipe

ASSUME HandAssumption ==
    /\ NoRecipe \notin HandRecipes
    /\ \A r \in HandRecipes : FilesOf(r) \subseteq DOMAIN StoredFiles

VARIABLES
    stage,        \* where the command is
    session,      \* "none", "open", "kept", "removed", "left": it could not be removed
    recipe,       \* env.Recipe
    typed,        \* the confirmation: the wizard's page, or --confirm
    target        \* env.TargetDisk, what the typed link led to, what the disk was

frontVars == <<stage, session, recipe, typed, target>>
vars == <<wizardVars, frontVars>>

Init ==
    /\ WizardInit
    /\ stage = "start" /\ session = "none" /\ recipe = NoRecipe
    /\ typed = None /\ target = None

-----------------------------------------------------------------------------
(* firn install, without a recipe.                                         *)

(* createTUISession; when it fails, the error is held on the screen.       *)
CreateSession ==
    /\ stage = "start"
    /\ \/ stage' = "wizard" /\ session' = "open"
       \/ stage' = "held" /\ UNCHANGED session
    /\ UNCHANGED <<wizardVars, recipe, typed, target>>

WizardStep ==
    /\ stage = "wizard" /\ WizardNext
    /\ UNCHANGED frontVars

(* writeRecipe: the accepted bytes are written, loaded and validated again.*)
(* From here on the session is kept.                                       *)
WriteRecipe ==
    /\ stage = "wizard" /\ result = "accepted"
    /\ Issues(review.recipe) = {}
    /\ recipe' = review.recipe /\ typed' = c.disk
    /\ session' = "kept" /\ stage' = "preflight"
    /\ UNCHANGED <<wizardVars, target>>

(* An error of the wizard, or of writing its recipe, is held on the screen *)
(* until it is dismissed; a cancelled wizard's is not.                     *)
HoldError ==
    /\ stage = "wizard" /\ result \in {"error", "accepted"}
    /\ stage' = "held"
    /\ UNCHANGED <<wizardVars, session, recipe, typed, target>>

(* The deferred removal of a session nobody keeps.                         *)
RemoveSession ==
    /\ stage = "held" \/ (stage = "wizard" /\ result \in {"quit", "cancelled"})
    /\ stage' = "over"
    /\ IF session = "open"
       THEN \/ session' = "removed" /\ files' = NoFiles /\ unremoved' = {}
            \/ session' = "left" /\ UNCHANGED <<files, unremoved>>
       ELSE UNCHANGED <<session, files, unremoved>>
    /\ UNCHANGED <<machine, page, c, preview, review, confirming, result, bugs,
                   recipe, typed, target>>

-----------------------------------------------------------------------------
(* firn install recipe.toml --confirm disk.                                *)

Headless ==
    /\ stage = "start"
    /\ \E r \in HandRecipes, confirm \in Disks \cup Links \cup {None} :
          /\ typed' = confirm
          /\ IF Issues(r) = {} /\ confirm = r.disk
             THEN recipe' = r /\ stage' = "preflight"
             ELSE stage' = "over" /\ UNCHANGED recipe
    /\ UNCHANGED <<wizardVars, session, target>>

-----------------------------------------------------------------------------
(* preflight-disk.                                                         *)
PreflightDisk ==
    /\ stage = "preflight"
    /\ \E l \in Listings, linked \in Linkings, answered \in BOOLEAN :
          LET dev == Resolve(l, linked, recipe.disk) IN
          IF dev # None /\ ~Refused(dev, l[dev], RootDevice(machine.root, answered))
          THEN /\ stage' = "install"
               /\ target' = [path |-> dev, device |-> l[dev],
                             link |-> IF recipe.disk \in Links THEN linked[recipe.disk] ELSE None]
          ELSE stage' = "over" /\ UNCHANGED target
    /\ UNCHANGED <<wizardVars, session, recipe, typed>>

Finish ==
    /\ stage = "install" /\ stage' = "over"
    /\ UNCHANGED <<wizardVars, session, recipe, typed, target>>

Next ==
    \/ CreateSession \/ WizardStep \/ WriteRecipe \/ HoldError \/ RemoveSession
    \/ Headless \/ PreflightDisk \/ Finish

Spec == Init /\ [][Next]_vars

-----------------------------------------------------------------------------
Choices == [entry : Catalog \cup {NoEntry}, advanced : BOOLEAN, targetRef : Texts,
    disk : Disks \cup {None}, filesystem : Filesystems \cup {None, "btrfs"},
    subvolumes : BOOLEAN, encryption : Encryptions \cup {None}, passphrase : Secrets("passphrase"),
    mok : {None, "enroll", "skip"}, mokPassword : Secrets("mok-password"), system : Texts,
    createUser : BOOLEAN, userText : Texts, password : Secrets("user-password"), userInitialized : BOOLEAN,
    groups : Catalog \cup {NoEntry}, core : BOOLEAN,
    coreInitialized : BOOLEAN, coreOf : Refs \cup {None}]

TypeOK ==
    /\ machine \in Machines /\ page \in PageWelcome..PageReview /\ c \in Choices
    /\ \A n \in SecretNames : files[n] \in Secrets(n)
    /\ unremoved \subseteq SecretNames
    /\ confirming \in BOOLEAN /\ (page # PageReview => review = None)
    /\ result \in {"running", "quit", "cancelled", "error", "accepted"}
    /\ stage \in {"start", "wizard", "held", "preflight", "install", "over"}
    /\ session \in {"none", "open", "kept", "removed", "left"}

(* The disk an install erases is the one whose path was typed, or the      *)
(* whole disk the typed link led to when preflight-disk followed it; and   *)
(* nothing of it, nor of what is stacked on it, was mounted then, part of  *)
(* a RAID or of LVM, or the installer's medium: not even when findmnt      *)
(* fails, and whatever came, went and was mounted since the wizard's       *)
(* listing.  (A disk of the running system that shows none of these, the   *)
(* second one of a btrfs or a ZFS pool, is accepted.)                      *)
ErasesTheTypedDisk ==
    stage = "install" =>
       /\ typed = recipe.disk /\ target.path \in Disks
       /\ target.path = (IF typed \in Links THEN target.link ELSE typed)
       /\ \A n \in {target.device.own} \cup target.device.below :
             n.fstype = "plain" /\ ~n.mounted /\ ~n.medium

(* "Neither interactive frontend may be able to produce a recipe that      *)
(* fails validation" (recipe-schema.md, rule 5): whatever path led to the  *)
(* review.  The one exception is a catalog whose key file is not there.    *)
OnlyKeyFileRefused ==
    /\ bugs \subseteq {"image.cosign_pub_key"}
    /\ result = "accepted" /\ session # "removed" => Issues(review.recipe) = {}

(* A secret that the recipe under review, or the accepted one, refers to   *)
(* lies on the disk with the content last typed.  Any other lies there     *)
(* only because its removal failed, and none does when a command that      *)
(* accepted no recipe ends without reporting a session it could not        *)
(* remove.                                                                 *)
SecretsAreTheRecipes ==
    /\ \A n \in SecretNames :
          IF page = PageReview /\ session # "removed" /\ n \in Wanted(c)
          THEN files[n] = Answered(c)[n]
          ELSE files[n] = None \/ n \in unremoved
    /\ stage = "over" /\ session \notin {"kept", "left"} => files = NoFiles

(* Under review, the groups are the defaults, kept or edited, of an entry  *)
(* with the name of the one under review (the wizard tells entries apart   *)
(* by their names), the core apps what was answered for the image under    *)
(* review or its default, and no core apps are asked for that were not     *)
(* offered (core-flatpaks-label.md, rule 7).                               *)
AnswersAreThisImages ==
    review # None =>
       /\ c.groups \in {e \in Catalog : e.name = c.entry.name}
       /\ c.coreOf = c.entry.ref /\ review.recipe.ref = c.entry.ref
       /\ review.recipe.core => preview.ref \in {None, c.entry.ref} /\ toggleOffered

(* What a recipe names and a step reads only after the disk has been       *)
(* erased is there when the install starts (recipe-schema.md, rule 4): the *)
(* passphrase of luks-format, the TPM, MokManager's password, the          *)
(* account's password, the files with SSH keys (resolveKey), and a         *)
(* filesystem that has subvolumes.                                         *)
InstallHasItsInputs ==
    stage = "install" =>
       LET there(f, states) == f # None /\ FileState(files)[f] \in states IN
       /\ needsPassphrase(recipe.encryption) =>
             recipe.inline \/ there(recipe.passphraseFile, {"private"})
       /\ recipe.encryption \in TPMModes => machine.tpm
       /\ recipe.mok = "enroll" => machine.secureBoot /\ there(recipe.mokFile, {"private"})
       /\ recipe.user # None => recipe.user.hash \/ there(recipe.user.file, {"private"})
       /\ \A f \in recipe.sshFiles : f \in KeyFiles /\ there(f, {"private", "world"})
       /\ recipe.subvolumes => recipe.filesystem = "btrfs"
=============================================================================
