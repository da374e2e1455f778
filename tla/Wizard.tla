------------------------------- MODULE Wizard -------------------------------
(***************************************************************************)
(* internal/tui's wizard: the page loop of wizard.run, what each page asks *)
(* (wizard_pages.go), the preview of the image's core flatpaks, and the    *)
(* review loop, which assembles the recipe, writes the secrets it refers   *)
(* to, has the disk's path typed and validates.                            *)
(*                                                                         *)
(* A form's fields are bound to the answers, so that leaving a page        *)
(* backwards keeps whatever was typed, ill-formed or not; going forward    *)
(* takes an answer every shown field accepts.  A text is "ok" or "bad";    *)
(* the bootloader, of which every offered value is accepted, extra apps    *)
(* and what the user does to a list of groups are left out.                *)
(***************************************************************************)
EXTENDS RecipeRules, Naturals

CONSTANTS
    Catalog,      \* entries [name, ref, key]
    StoredFiles,  \* files of the machine -> what checkFile says of them
    Machines,     \* [secureBoot, tpm, expired, root]
    Filesystems,  \* those the user may pick
    Typed,        \* secret name -> what the user may type for it
    Slips,        \* the texts the user may get wrong: "advanced", "system", "user"
    Stuck         \* secret files whose removal may fail

SecretNames == {"passphrase", "mok-password", "user-password"}  \* generatedSecretNames

(* checkCatalog: every entry can be selected.  It looks at no file, and    *)
(* two entries may have one name.                                          *)
ASSUME CatalogAssumption ==
    /\ \A e \in Catalog :
          ImageSelectionIssues([ref |-> e.ref, key |-> e.key, targetRef |-> "ok"]) = {}
    /\ \A e \in Catalog : e.name # None /\ e.ref # None /\ e.key \in DOMAIN StoredFiles \cup {None}
ASSUME WizardAssumption ==
    /\ StoredFiles \in [DOMAIN StoredFiles -> FileStates]
    /\ SecretNames \cap DOMAIN StoredFiles = {}
    /\ Filesystems \subseteq {"btrfs", "xfs", "ext4"}
    /\ Slips \subseteq {"advanced", "system", "user"}
    /\ Stuck \subseteq SecretNames
    /\ DOMAIN Typed = SecretNames /\ \A n \in SecretNames : None \notin Typed[n]
    /\ None \notin SecretNames \cup DOMAIN StoredFiles \cup Refs
    /\ Machines \subseteq [secureBoot : BOOLEAN, tpm : BOOLEAN, expired : BOOLEAN, root : Roots]

VARIABLES
    machine,      \* opts.Machine
    page,         \* wizardPage
    c,            \* wizardChoices
    preview,      \* corePreview: of which image, and what it says
    review,       \* reviewLoop's recipe, issues and retried, or None
    confirming,   \* the typed confirmation is up
    files,        \* the session's secret files: their content, or None
    unremoved,    \* history: those whose last removal failed
    result,       \* "running", or how RunWizard returned
    bugs          \* what was ever shown as a "wizard bug"

wizardVars ==
    <<machine, page, c, preview, review, confirming, files, unremoved, result, bugs>>

PageWelcome == 0
PageImage == 1
PageAdvancedImage == 2
PageDisk == 3
PageFilesystem == 4
PageSecurity == 5
PageSystem == 6
PageUser == 7
PageFlatpaks == 8
PageReview == 9

NoFiles  == [n \in SecretNames |-> None]
NoEntry  == [name |-> None, ref |-> None, key |-> None]
NoChoices == [entry |-> NoEntry, advanced |-> FALSE, targetRef |-> "ok",
    disk |-> None, filesystem |-> None, subvolumes |-> FALSE,
    encryption |-> None, passphrase |-> None, mok |-> None, mokPassword |-> None,
    system |-> "bad", createUser |-> FALSE, userText |-> "bad", password |-> None,
    userInitialized |-> FALSE, groups |-> NoEntry,  \* the entry they are the defaults of
    core |-> FALSE, coreInitialized |-> FALSE,
    coreOf |-> None]                                \* the image `core` was first set for
NoPreview == [ref |-> None, state |-> "unavailable"]

WizardInit ==
    /\ machine \in Machines
    /\ page = PageWelcome /\ c = NoChoices /\ preview = NoPreview
    /\ review = None /\ confirming = FALSE /\ files = NoFiles
    /\ unremoved = {} /\ result = "running" /\ bugs = {}

-----------------------------------------------------------------------------
(* What a page asks.                                                       *)

\* Fault: what was answered for another image stays.
setEntryKeepsAnswers(d, entry) == [d EXCEPT !.entry = entry]

setEntry(d, entry) ==
    [d EXCEPT !.entry = entry,
              !.userInitialized = @ /\ entry.name = d.entry.name,
              !.coreInitialized = @ /\ entry.ref = d.entry.ref]

\* Fault: the TPM modes are offered on every machine.
OfferedWithoutTPM == Encryptions

Offered == Encryptions \ (IF machine.tpm THEN {} ELSE TPMModes)

(* A disk that a listing showed and did not refuse.                        *)
AcceptedDisks ==
    {d \in Disks : \E l \in Listings, answered \in BOOLEAN :
        d \in DOMAIN l /\ ~Refused(d, l[d], RootDevice(machine.root, answered))}

toggleOffered == preview.state \in {"available", "unavailable"}

Texts == {"ok", "bad"}
Entered(field) == IF field \in Slips THEN Texts ELSE {"ok"}
Secrets(name)  == Typed[name] \cup {None}

(* Everything that can be bound after a stay on a page.                    *)
ImageAnswers == {setEntry(c, e) : e \in Catalog}

AdvancedAnswers ==
    {[c EXCEPT !.advanced = a.on, !.targetRef = a.targetRef] :
       a \in [on : IF "advanced" \in Slips THEN BOOLEAN ELSE {FALSE},
              targetRef : Entered("advanced")]}

DiskAnswers == {[c EXCEPT !.disk = d] : d \in AcceptedDisks}

FilesystemAnswers ==
    {[c EXCEPT !.filesystem = a.type, !.subvolumes = a.subvolumes] :
       a \in [type : Filesystems, subvolumes : BOOLEAN]}

EncryptionAnswers ==
    {[c EXCEPT !.encryption = a.mode, !.passphrase = a.passphrase] :
       a \in [mode : Offered, passphrase : Secrets("passphrase")]}

SecurityAnswers ==
    IF ~machine.secureBoot THEN EncryptionAnswers
    ELSE {[a.answered EXCEPT !.mok = a.mok, !.mokPassword = a.password] :
            a \in [answered : EncryptionAnswers, mok : {"enroll", "skip"},
                   password : Secrets("mok-password")]}

SystemAnswers == {[c EXCEPT !.system = t] : t \in Entered("system")}

UserAnswers ==
    {[c EXCEPT !.createUser = a.create, !.userText = a.text, !.password = a.password] :
       a \in [create : BOOLEAN, text : Entered("user"), password : Secrets("user-password")]}

FlatpakAnswers == {c} \cup (IF toggleOffered THEN {[c EXCEPT !.core = ~@]} ELSE {})

Answers(p) ==
    CASE p = PageImage         -> ImageAnswers
      [] p = PageAdvancedImage -> AdvancedAnswers
      [] p = PageDisk          -> DiskAnswers
      [] p = PageFilesystem    -> FilesystemAnswers
      [] p = PageSecurity      -> SecurityAnswers
      [] p = PageSystem        -> SystemAnswers
      [] p = PageUser          -> UserAnswers
      [] p = PageFlatpaks      -> FlatpakAnswers
      [] OTHER                 -> {c}

(* The validators of the groups that are shown.                            *)
Accepts(p, d) ==
    CASE p = PageAdvancedImage -> d.advanced => d.targetRef = "ok"
      [] p = PageSecurity -> /\ needsPassphrase(d.encryption) => d.passphrase # None
                             /\ d.mok = "enroll" => d.mokPassword # None
      [] p = PageSystem -> d.system = "ok"
      [] p = PageUser -> d.createUser => d.userText = "ok" /\ d.password # None
      [] OTHER -> TRUE

(* The image and disk pages keep what is selected to themselves until      *)
(* they are accepted.                                                      *)
Left(p) == IF p \in {PageImage, PageDisk} THEN {c} ELSE Answers(p)

-----------------------------------------------------------------------------
(* Building a page's form sets what it initially selects.                  *)

IfNone(value, default) == IF value = None THEN default ELSE value

securityForm(d) ==
    [d EXCEPT !.encryption = IfNone(@, "none"),
              !.mok = IF machine.secureBoot THEN IfNone(@, "enroll") ELSE @]

userForm(d) ==
    IF d.userInitialized THEN d
    ELSE [d EXCEPT !.createUser = TRUE, !.groups = d.entry, !.userInitialized = TRUE]

(* flatpaksForm: on at first, and off when there is nothing to offer.      *)
flatpaksForm(d, state) ==
    [d EXCEPT !.core = (~d.coreInitialized \/ @) /\ state \notin {"none", "invalid"},
              !.coreInitialized = TRUE,
              !.coreOf = IF d.coreInitialized THEN @ ELSE d.entry.ref]

Form(p, d) ==
    CASE p = PageFilesystem -> [d EXCEPT !.filesystem = IfNone(@, "btrfs")]
      [] p = PageSecurity   -> securityForm(d)
      [] p = PageUser       -> userForm(d)
      [] OTHER              -> d

(* inspectCorePreview: an answer that tells nothing is forgotten at once.  *)
Inspections(ref) ==
    {NoPreview} \cup [ref : {ref}, state : {"none", "invalid", "available"}]

(* refreshCorePreview, before the flatpaks page.                           *)
refreshCorePreview(ref) ==
    IF preview.ref = ref THEN preview' = preview ELSE preview' \in Inspections(ref)

-----------------------------------------------------------------------------
(* Assembly.                                                               *)

assembleRecipe(d) ==
    [version |-> "2", family |-> "bootc", ref |-> d.entry.ref, key |-> d.entry.key,
     targetRef |-> IF d.advanced THEN d.targetRef ELSE "ok",
     disk |-> d.disk, filesystem |-> d.filesystem,
     subvolumes |-> d.subvolumes /\ d.filesystem = "btrfs",
     encryption |-> d.encryption, inline |-> FALSE,
     passphraseFile |-> IF needsPassphrase(d.encryption) THEN "passphrase" ELSE None,
     mok |-> d.mok, mokFile |-> IF d.mok = "enroll" THEN "mok-password" ELSE None,
     system |-> d.system, sshFiles |-> {}, core |-> d.core,
     user |-> IF d.createUser
              THEN [text |-> d.userText, file |-> "user-password", hash |-> FALSE]
              ELSE None]

(* The files a recipe refers to.                                           *)
FilesOf(r) ==
    ({r.key, r.passphraseFile, r.mokFile, IF r.user = None THEN None ELSE r.user.file}
       \cup r.sshFiles) \ {None}

Answered(d) ==
    [n \in SecretNames |-> CASE n = "passphrase"    -> d.passphrase
                             [] n = "mok-password"  -> d.mokPassword
                             [] n = "user-password" -> d.password]

Wanted(d) == FilesOf(assembleRecipe(d)) \cap SecretNames

(* writeSecretFile for some of the secrets; the others are left.           *)
Writing(d, names) == [n \in SecretNames |-> IF n \in names THEN Answered(d)[n] ELSE files[n]]

(* How far assembly may have come; a file cut short counts as written.     *)
BegunWrites(d) ==
    {first \cap Wanted(d) :
       first \in {{}, {"passphrase"}, {"passphrase", "mok-password"}, SecretNames}}

(* What checkFile will find.                                               *)
FileState(contents) ==
    [f \in SecretNames \cup DOMAIN StoredFiles |->
        IF f \in DOMAIN StoredFiles THEN StoredFiles[f]
        ELSE IF contents[f] = None THEN "absent" ELSE "private"]

Issues(r) == Validate(r, machine, FileState(files))

(* cleanupSecretFiles: it tries to remove every secret file.               *)
CleansUp(contents) ==
    \E kept \in SUBSET {n \in Stuck : contents[n] # None} :
       /\ files' = [n \in SecretNames |-> IF n \in kept THEN contents[n] ELSE None]
       /\ unremoved' = kept

(* RunWizard returns without a recipe.                                     *)
Ends(how) ==
    /\ result' = how
    /\ c' = NoChoices /\ preview' = NoPreview /\ page' = PageWelcome
    /\ review' = None /\ confirming' = FALSE
    /\ UNCHANGED machine

(* The deferred clean-up is the review loop's; if it fails, a quit becomes *)
(* an error.                                                               *)
Returns(how) ==
    /\ IF page = PageReview THEN CleansUp(files) ELSE UNCHANGED <<files, unremoved>>
    /\ Ends(IF page = PageReview /\ how = "quit" /\ unremoved' # {} THEN "error" ELSE how)

(* The top of the review loop.  assembleRecipe calls a secret that is not  *)
(* there a wizard bug; here it is a file that is not, which Validate sees. *)
Assembles(d, issues, retried) ==
    /\ files' = Writing(d, Wanted(d)) /\ unremoved' = unremoved \ Wanted(d)
    /\ review' = [recipe |-> assembleRecipe(d), issues |-> issues, retried |-> retried]

-----------------------------------------------------------------------------
(* The page loop.                                                          *)

Running == result = "running"
OnPage  == Running /\ page < PageReview

Shows(p, d) ==
    /\ page' = p /\ c' = Form(p, d)
    /\ UNCHANGED preview

ShowsFlatpaks(d) ==
    /\ page' = PageFlatpaks
    /\ refreshCorePreview(d.entry.ref)
    /\ c' = flatpaksForm(d, preview'.state)

NextPage ==
    /\ OnPage /\ page \notin {PageUser, PageFlatpaks}
    /\ \E d \in Answers(page) : Accepts(page, d) /\ Shows(page + 1, d)
    /\ UNCHANGED <<machine, review, confirming, files, unremoved, result, bugs>>

ToFlatpaks ==
    /\ OnPage /\ page = PageUser
    /\ \E d \in Answers(page) : Accepts(page, d) /\ ShowsFlatpaks(d)
    /\ UNCHANGED <<machine, review, confirming, files, unremoved, result, bugs>>

ToReview ==
    /\ OnPage /\ page = PageFlatpaks
    /\ \E d \in Answers(page) : c' = d /\ Assembles(d, {}, FALSE)
    /\ page' = PageReview
    /\ UNCHANGED <<machine, preview, confirming, result, bugs>>

previousPage(p) == IF p <= PageWelcome THEN PageWelcome ELSE p - 1

Back ==
    /\ OnPage
    /\ \E d \in Left(page) : Shows(previousPage(page), d)
    /\ UNCHANGED <<machine, review, confirming, files, unremoved, result, bugs>>

(* lsblk fails.                                                            *)
DiskListFails ==
    /\ OnPage /\ page = PageDisk /\ Returns("error")
    /\ UNCHANGED bugs

(* Esc or Ctrl+C, or a signal, on any page and while an image is inspected.*)
Quit ==
    /\ Running /\ Returns("quit")
    /\ UNCHANGED bugs
Cancelled ==
    /\ Running /\ Returns("cancelled")
    /\ UNCHANGED bugs

-----------------------------------------------------------------------------
(* The review loop.                                                        *)

OnReview == Running /\ page = PageReview

(* A secret cannot be written, or the recipe not marshalled: what was      *)
(* written goes too.                                                       *)
WriteFails ==
    /\ Running /\ (page = PageFlatpaks \/ confirming)
    /\ \E names \in BegunWrites(c) : CleansUp(Writing(c, names))
    /\ Ends("error")
    /\ UNCHANGED bugs

\* Fault: what was written for a review that was left stays.
LeavesKeeping ==
    /\ OnReview /\ ~confirming
    /\ review' = None
    /\ UNCHANGED <<files, unremoved>>

(* The review page is left for another: run drops the clean-up's error.    *)
Leaves ==
    /\ OnReview /\ ~confirming
    /\ review' = None
    /\ CleansUp(files)

ReviewBack ==
    /\ Leaves /\ ShowsFlatpaks(c)
    /\ UNCHANGED <<machine, confirming, result, bugs>>

StartOver ==
    /\ Leaves
    /\ c' = NoChoices /\ page' = PageImage
    /\ UNCHANGED <<machine, preview, confirming, result, bugs>>

Install ==
    /\ OnReview /\ ~confirming
    /\ confirming' = TRUE
    /\ UNCHANGED <<machine, page, c, preview, review, files, unremoved, result, bugs>>

ConfirmBack ==
    /\ OnReview /\ confirming
    /\ Assembles(c, review.issues, review.retried)
    /\ confirming' = FALSE
    /\ UNCHANGED <<machine, page, c, preview, result, bugs>>

(* The disk's path is typed: validateAssembled decides.                    *)
Accepted ==
    /\ OnReview /\ confirming /\ Issues(review.recipe) = {}
    /\ result' = "accepted" /\ confirming' = FALSE
    /\ UNCHANGED <<machine, page, c, preview, review, files, unremoved, bugs>>

ShowIssues ==
    /\ OnReview /\ confirming /\ Issues(review.recipe) # {} /\ ~review.retried
    /\ Assembles(c, Issues(review.recipe), TRUE)
    /\ confirming' = FALSE
    /\ bugs' = bugs \cup Issues(review.recipe)
    /\ UNCHANGED <<machine, page, c, preview, result>>

IssuesPersist ==
    /\ OnReview /\ confirming /\ Issues(review.recipe) # {} /\ review.retried
    /\ Returns("error")
    /\ bugs' = bugs \cup Issues(review.recipe)

WizardNext ==
    \/ NextPage \/ ToFlatpaks \/ ToReview \/ Back \/ DiskListFails \/ Quit \/ Cancelled
    \/ WriteFails \/ ReviewBack \/ StartOver \/ Install \/ ConfirmBack
    \/ Accepted \/ ShowIssues \/ IssuesPersist
=============================================================================
