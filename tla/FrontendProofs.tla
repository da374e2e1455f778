--------------------------- MODULE FrontendProofs ---------------------------
(***************************************************************************)
(* Proofs about Frontend, for every catalog, every history of disk         *)
(* listings and links, every machine and whatever the user types: its      *)
(* TypeOK and the five invariants its run checks.                          *)
(*                                                                         *)
(* A page is left forwards only with answers its validators accept, so     *)
(* being on page p means that what the pages before p asked is settled     *)
(* (Settled).  Leaving backwards may bind anything to the page left, but   *)
(* nothing to an earlier one.  With what setEntry and the forms keep of    *)
(* the image (Kept, Ready) this gives, at the review, a recipe Validate    *)
(* accepts up to the catalog's key file.                                   *)
(***************************************************************************)
EXTENDS Frontend, TLAPS

USE DEF PageWelcome, PageImage, PageAdvancedImage, PageDisk, PageFilesystem,
        PageSecurity, PageSystem, PageUser, PageFlatpaks, PageReview

-----------------------------------------------------------------------------
(* What going forward from each page settles.                              *)

ImageOk(d)      == d.entry \in Catalog
AdvancedOk(d)   == d.advanced => d.targetRef = "ok"
DiskOk(d)       == d.disk \in Disks
FilesystemOk(d) == d.filesystem \in {"btrfs", "xfs", "ext4"}
SecurityOk(d) ==
    /\ d.encryption \in Offered
    /\ needsPassphrase(d.encryption) => d.passphrase # None
    /\ machine.secureBoot => d.mok \in {"enroll", "skip"}
    /\ d.mok = "enroll" => d.mokPassword # None
SystemOk(d)     == d.system = "ok"
UserOk(d)       == d.createUser => d.userText = "ok" /\ d.password # None

Settled(p, d) ==
    /\ p > PageImage => ImageOk(d)
    /\ p > PageAdvancedImage => AdvancedOk(d)
    /\ p > PageDisk => DiskOk(d)
    /\ p > PageFilesystem => FilesystemOk(d)
    /\ p > PageSecurity => SecurityOk(d)
    /\ p > PageSystem => SystemOk(d)
    /\ p > PageUser => UserOk(d)

(* What no page loses: MOK is not mentioned without Secure Boot, and the   *)
(* defaults taken from an image are the selected one's.                    *)
Kept(d) ==
    /\ d \in Choices
    /\ ~machine.secureBoot => d.mok = None
    /\ d.userInitialized => d.groups \in Catalog /\ d.groups.name = d.entry.name
    /\ d.coreInitialized => d.coreOf = d.entry.ref

(* The forms that take defaults from the image have been built.            *)
Ready(p, d) ==
    /\ p >= PageUser => d.userInitialized
    /\ p >= PageFlatpaks => d.coreInitialized

-----------------------------------------------------------------------------
(* One lemma per page: what may be bound after a stay on it.               *)

LEMMA EnteredIsText == \A f : Entered(f) \subseteq Texts
BY DEF Entered, Texts

LEMMA ImageStep ==
    ASSUME Kept(c), NEW d \in ImageAnswers
    PROVE  Kept(d) /\ ImageOk(d)
<1>1. PICK e \in Catalog : d = setEntry(c, e)
  BY DEF ImageAnswers
<1>2. d \in Choices
  <2> DEFINE u == c.userInitialized /\ e.name = c.entry.name
             f == c.coreInitialized /\ e.ref = c.entry.ref
  <2>1. u \in BOOLEAN /\ f \in BOOLEAN
    OBVIOUS
  <2>2. d = [c EXCEPT !.entry = e, !.userInitialized = u, !.coreInitialized = f]
    BY <1>1 DEF setEntry, Kept, Choices
  <2> HIDE DEF u, f
  <2> QED BY <2>1, <2>2 DEF Kept, Choices
<1>3. /\ d.entry = e /\ d.mok = c.mok /\ d.groups = c.groups /\ d.coreOf = c.coreOf
      /\ d.userInitialized => c.userInitialized /\ e.name = c.entry.name
      /\ d.coreInitialized => c.coreInitialized /\ e.ref = c.entry.ref
  BY <1>1 DEF setEntry, Kept, Choices
<1> QED BY <1>2, <1>3 DEF Kept, ImageOk

LEMMA AdvancedStep ==
    ASSUME Kept(c), Settled(PageAdvancedImage, c), NEW d \in AdvancedAnswers
    PROVE  Kept(d) /\ Settled(PageAdvancedImage, d)
<1>1. PICK a \in BOOLEAN, t \in Texts : d = [c EXCEPT !.advanced = a, !.targetRef = t]
  BY EnteredIsText DEF AdvancedAnswers
<1>2. d \in Choices
  BY <1>1 DEF Kept, Choices
<1>3. /\ d.entry = c.entry /\ d.mok = c.mok /\ d.groups = c.groups /\ d.coreOf = c.coreOf
      /\ d.userInitialized = c.userInitialized /\ d.coreInitialized = c.coreInitialized
  BY <1>1 DEF Kept, Choices
<1> QED BY <1>2, <1>3 DEF Kept, Settled, ImageOk

LEMMA DiskStep ==
    ASSUME Kept(c), Settled(PageDisk, c), NEW d \in DiskAnswers
    PROVE  Kept(d) /\ Settled(PageDisk, d) /\ DiskOk(d)
BY DEF Kept, DiskAnswers, AcceptedDisks, Settled, ImageOk, AdvancedOk, DiskOk, Choices

LEMMA FilesystemStep ==
    ASSUME Kept(c), Settled(PageFilesystem, c), NEW d \in FilesystemAnswers
    PROVE  Kept(d) /\ Settled(PageFilesystem, d) /\ FilesystemOk(d)
<1>1. PICK f \in Filesystems, s \in BOOLEAN : d = [c EXCEPT !.filesystem = f, !.subvolumes = s]
  BY DEF FilesystemAnswers
<1>2. d \in Choices
  BY <1>1 DEF Kept, Choices
<1>3. /\ d.entry = c.entry /\ d.mok = c.mok /\ d.groups = c.groups /\ d.coreOf = c.coreOf
      /\ d.userInitialized = c.userInitialized /\ d.coreInitialized = c.coreInitialized
      /\ d.advanced = c.advanced /\ d.targetRef = c.targetRef /\ d.disk = c.disk
      /\ d.filesystem = f
  BY <1>1 DEF Kept, Choices
<1> QED BY <1>2, <1>3, WizardAssumption DEF Kept, Settled, ImageOk, AdvancedOk, DiskOk, FilesystemOk

LEMMA EncryptionStep ==
    ASSUME Kept(c), Settled(PageSecurity, c), NEW d \in EncryptionAnswers
    PROVE  Kept(d) /\ Settled(PageSecurity, d) /\ d.mok = c.mok /\ d.encryption \in Offered
<1>1. PICK e \in Offered, s \in Secrets("passphrase") : d = [c EXCEPT !.encryption = e, !.passphrase = s]
  BY DEF EncryptionAnswers
<1>2. d \in Choices
  BY <1>1 DEF Kept, Choices, Offered
<1>3. /\ d.entry = c.entry /\ d.mok = c.mok /\ d.groups = c.groups /\ d.coreOf = c.coreOf
      /\ d.userInitialized = c.userInitialized /\ d.coreInitialized = c.coreInitialized
      /\ d.advanced = c.advanced /\ d.targetRef = c.targetRef /\ d.disk = c.disk
      /\ d.filesystem = c.filesystem /\ d.encryption = e
  BY <1>1 DEF Kept, Choices
<1> QED BY <1>2, <1>3 DEF Kept, Settled, ImageOk, AdvancedOk, DiskOk, FilesystemOk

LEMMA SystemStep ==
    ASSUME Kept(c), Settled(PageSystem, c), NEW d \in SystemAnswers
    PROVE  Kept(d) /\ Settled(PageSystem, d)
<1>1. PICK t \in Texts : d = [c EXCEPT !.system = t]
  BY EnteredIsText DEF SystemAnswers
<1> QED BY <1>1 DEF Kept, Settled, ImageOk, AdvancedOk, DiskOk, FilesystemOk, SecurityOk, Choices

LEMMA UserStep ==
    ASSUME Kept(c), Settled(PageUser, c), NEW d \in UserAnswers
    PROVE  Kept(d) /\ Settled(PageUser, d) /\ d.userInitialized = c.userInitialized
<1>1. PICK u \in BOOLEAN, t \in Texts, w \in Secrets("user-password") :
         d = [c EXCEPT !.createUser = u, !.userText = t, !.password = w]
  BY EnteredIsText DEF UserAnswers
<1>2. d \in Choices
  BY <1>1 DEF Kept, Choices
<1>3. /\ d.entry = c.entry /\ d.mok = c.mok /\ d.groups = c.groups /\ d.coreOf = c.coreOf
      /\ d.userInitialized = c.userInitialized /\ d.coreInitialized = c.coreInitialized
      /\ d.advanced = c.advanced /\ d.targetRef = c.targetRef /\ d.disk = c.disk
      /\ d.filesystem = c.filesystem /\ d.encryption = c.encryption /\ d.passphrase = c.passphrase
      /\ d.mokPassword = c.mokPassword /\ d.system = c.system
  BY <1>1 DEF Kept, Choices
<1> QED BY <1>2, <1>3 DEF Kept, Settled, ImageOk, AdvancedOk, DiskOk, FilesystemOk, SecurityOk, SystemOk

LEMMA SecurityStep ==
    ASSUME Kept(c), Settled(PageSecurity, c), NEW d \in SecurityAnswers
    PROVE  Kept(d) /\ Settled(PageSecurity, d) /\ (Accepts(PageSecurity, d) => SecurityOk(d))
<1>1. CASE ~machine.secureBoot
  <2>1. d \in EncryptionAnswers
    BY <1>1 DEF SecurityAnswers
  <2>2. d.mok # "enroll"
    BY <1>1, <2>1, EncryptionStep, NoneAssumption DEF Kept
  <2> QED BY <1>1, <2>1, <2>2, EncryptionStep DEF Accepts, SecurityOk
<1>2. CASE machine.secureBoot
  <2>1. PICK f \in EncryptionAnswers, k \in {"enroll", "skip"}, w \in Secrets("mok-password") :
           d = [f EXCEPT !.mok = k, !.mokPassword = w]
    BY <1>2 DEF SecurityAnswers
  <2>2. Kept(f) /\ Settled(PageSecurity, f) /\ f.encryption \in Offered
    BY EncryptionStep
  <2>3. d \in Choices
    BY <2>1, <2>2 DEF Kept, Choices
  <2>4. /\ d.entry = f.entry /\ d.groups = f.groups /\ d.coreOf = f.coreOf
        /\ d.userInitialized = f.userInitialized /\ d.coreInitialized = f.coreInitialized
        /\ d.advanced = f.advanced /\ d.targetRef = f.targetRef /\ d.disk = f.disk
        /\ d.filesystem = f.filesystem /\ d.encryption = f.encryption /\ d.mok = k
    BY <2>1, <2>2 DEF Kept, Choices
  <2>5. Kept(d) /\ Settled(PageSecurity, d)
    BY <1>2, <2>2, <2>3, <2>4 DEF Kept, Settled, ImageOk, AdvancedOk, DiskOk, FilesystemOk
  <2> QED BY <2>2, <2>4, <2>5 DEF Accepts, SecurityOk
<1> QED BY <1>1, <1>2

LEMMA FlatpakStep ==
    ASSUME Kept(c), Settled(PageFlatpaks, c), NEW d \in FlatpakAnswers, c.core => toggleOffered
    PROVE  /\ Kept(d) /\ Settled(PageFlatpaks, d) /\ d.userInitialized = c.userInitialized
           /\ d.coreInitialized = c.coreInitialized /\ d.entry = c.entry
           /\ d.core => toggleOffered
<1>1. CASE d = c
  BY <1>1
<1>2. CASE toggleOffered /\ d = [c EXCEPT !.core = ~@]
  <2>0. d = [c EXCEPT !.core = ~c.core]
    BY <1>2
  <2>1. d \in Choices
    BY <2>0 DEF Kept, Choices
  <2>2. /\ d.entry = c.entry /\ d.mok = c.mok /\ d.groups = c.groups /\ d.coreOf = c.coreOf
        /\ d.userInitialized = c.userInitialized /\ d.coreInitialized = c.coreInitialized
        /\ d.advanced = c.advanced /\ d.targetRef = c.targetRef /\ d.disk = c.disk
        /\ d.filesystem = c.filesystem /\ d.encryption = c.encryption /\ d.passphrase = c.passphrase
        /\ d.mokPassword = c.mokPassword /\ d.system = c.system
        /\ d.createUser = c.createUser /\ d.userText = c.userText /\ d.password = c.password
    BY <2>0 DEF Kept, Choices
  <2> QED BY <1>2, <2>1, <2>2 DEF Kept, Settled, ImageOk, AdvancedOk, DiskOk, FilesystemOk,
                                   SecurityOk, SystemOk, UserOk
<1> QED BY <1>1, <1>2 DEF FlatpakAnswers

Pages == PageWelcome..PageFlatpaks

(* A stay on any page keeps what was settled before it; the page's         *)
(* validators settle the page itself.                                      *)
LEMMA AnswersKeep ==
    ASSUME NEW p \in Pages, NEW d \in Answers(p), Kept(c), Settled(p, c), Ready(p, c),
           p = PageFlatpaks => (c.core => toggleOffered)
    PROVE  /\ Kept(d) /\ Settled(p, d) /\ Ready(p, d)
           /\ Accepts(p, d) => Settled(p + 1, d)
           /\ p = PageFlatpaks => d.entry = c.entry /\ (d.core => toggleOffered)
<1> p \in {0, 1, 2, 3, 4, 5, 6, 7, 8}
  BY DEF Pages
<1>0. CASE p = 0
  <2>1. d = c
    BY <1>0 DEF Answers
  <2> QED BY <1>0, <2>1 DEF Settled, Ready
<1>1. CASE p = 1
  <2>1. d \in ImageAnswers
    BY <1>1 DEF Answers
  <2> QED BY <1>1, <2>1, ImageStep DEF Settled, Ready
<1>2. CASE p = 2
  <2>1. d \in AdvancedAnswers
    BY <1>2 DEF Answers
  <2> QED BY <1>2, <2>1, AdvancedStep DEF Settled, Ready, Accepts, AdvancedOk
<1>3. CASE p = 3
  <2>1. d \in DiskAnswers
    BY <1>3 DEF Answers
  <2> QED BY <1>3, <2>1, DiskStep DEF Settled, Ready
<1>4. CASE p = 4
  <2>1. d \in FilesystemAnswers
    BY <1>4 DEF Answers
  <2> QED BY <1>4, <2>1, FilesystemStep DEF Settled, Ready
<1>5. CASE p = 5
  <2>1. d \in SecurityAnswers
    BY <1>5 DEF Answers
  <2> QED BY <1>5, <2>1, SecurityStep DEF Settled, Ready
<1>6. CASE p = 6
  <2>1. d \in SystemAnswers
    BY <1>6 DEF Answers
  <2> QED BY <1>6, <2>1, SystemStep DEF Settled, Ready, Accepts, SystemOk
<1>7. CASE p = 7
  <2>1. d \in UserAnswers
    BY <1>7 DEF Answers
  <2> QED BY <1>7, <2>1, UserStep DEF Settled, Ready, Accepts, UserOk
<1>8. CASE p = 8
  <2>1. d \in FlatpakAnswers
    BY <1>8 DEF Answers
  <2> QED BY <1>8, <2>1, FlatpakStep DEF Settled, Ready
<1> QED BY <1>0, <1>1, <1>2, <1>3, <1>4, <1>5, <1>6, <1>7, <1>8

(* Leaving backwards settles nothing new and loses nothing older.          *)
LEMMA LeftKeeps ==
    ASSUME NEW p \in Pages, NEW d \in Left(p), Kept(c), Settled(p, c), Ready(p, c),
           p = PageFlatpaks => (c.core => toggleOffered)
    PROVE  Kept(d) /\ Settled(p, d) /\ Ready(p, d)
<1>1. CASE d = c
  BY <1>1
<1>2. CASE d \in Answers(p)
  BY <1>2, AnswersKeep
<1> QED BY <1>1, <1>2 DEF Left

-----------------------------------------------------------------------------
(* What building a page's form changes.                                    *)

LEMMA CatalogRefs == \A e \in Catalog : e.ref \in Refs
BY CatalogAssumption DEF ImageSelectionIssues, Complaint

LEMMA FormKeeps ==
    ASSUME NEW q \in PageWelcome..PageUser, NEW d, Kept(d), Settled(q, d)
    PROVE  Kept(Form(q, d)) /\ Settled(q, Form(q, d)) /\ Ready(q, Form(q, d))
<1> q \in {0, 1, 2, 3, 4, 5, 6, 7}
  OBVIOUS
<1>1. CASE q = 4
  <2> DEFINE f == [d EXCEPT !.filesystem = IfNone(d.filesystem, "btrfs")]
  <2>1. Form(q, d) = f
    BY <1>1 DEF Form
  <2>2. f \in Choices
    BY DEF Kept, Choices, IfNone
  <2>3. /\ f.entry = d.entry /\ f.mok = d.mok /\ f.groups = d.groups /\ f.coreOf = d.coreOf
        /\ f.userInitialized = d.userInitialized /\ f.coreInitialized = d.coreInitialized
        /\ f.advanced = d.advanced /\ f.targetRef = d.targetRef /\ f.disk = d.disk
    BY DEF Kept, Choices
  <2> HIDE DEF f
  <2> QED BY <1>1, <2>1, <2>2, <2>3 DEF Kept, Settled, ImageOk, AdvancedOk, DiskOk, Ready
<1>2. CASE q = 5
  <2> DEFINE k == IF machine.secureBoot THEN IfNone(d.mok, "enroll") ELSE d.mok
             f == [d EXCEPT !.encryption = IfNone(d.encryption, "none"), !.mok = k]
  <2>1. Form(q, d) = f
    BY <1>2 DEF Form, securityForm, Kept, Choices
  <2>2. k \in {None, "enroll", "skip"} /\ (~machine.secureBoot => k = None)
    BY DEF Kept, Choices, IfNone
  <2>3. IfNone(d.encryption, "none") \in Encryptions \cup {None}
    BY DEF Kept, Choices, IfNone, Encryptions
  <2> HIDE DEF k
  <2>4. f \in Choices
    BY <2>2, <2>3 DEF Kept, Choices
  <2>5. /\ f.entry = d.entry /\ f.mok = k /\ f.groups = d.groups /\ f.coreOf = d.coreOf
        /\ f.userInitialized = d.userInitialized /\ f.coreInitialized = d.coreInitialized
        /\ f.advanced = d.advanced /\ f.targetRef = d.targetRef /\ f.disk = d.disk
        /\ f.filesystem = d.filesystem
    BY DEF Kept, Choices
  <2> HIDE DEF f
  <2> QED BY <1>2, <2>1, <2>2, <2>4, <2>5 DEF Kept, Settled, ImageOk, AdvancedOk, DiskOk, FilesystemOk, Ready
<1>3. CASE q = 7
  <2>1. CASE d.userInitialized
    BY <1>3, <2>1 DEF Form, userForm, Ready
  <2>2. CASE ~d.userInitialized
    <3> DEFINE f == [d EXCEPT !.createUser = TRUE, !.groups = d.entry, !.userInitialized = TRUE]
    <3>1. Form(q, d) = f
      BY <1>3, <2>2 DEF Form, userForm
    <3>2. d.entry \in Catalog
      BY <1>3 DEF Settled, ImageOk
    <3>3. f \in Choices
      BY <3>2 DEF Kept, Choices
    <3>4. /\ f.entry = d.entry /\ f.mok = d.mok /\ f.groups = d.entry /\ f.coreOf = d.coreOf
          /\ f.userInitialized /\ f.coreInitialized = d.coreInitialized
          /\ f.advanced = d.advanced /\ f.targetRef = d.targetRef /\ f.disk = d.disk
          /\ f.filesystem = d.filesystem /\ f.encryption = d.encryption /\ f.passphrase = d.passphrase
          /\ f.mokPassword = d.mokPassword /\ f.system = d.system
      BY DEF Kept, Choices
    <3> HIDE DEF f
    <3> QED BY <1>3, <3>1, <3>2, <3>3, <3>4 DEF Kept, Settled, ImageOk, AdvancedOk, DiskOk, FilesystemOk,
                                         SecurityOk, SystemOk, Ready
  <2> QED BY <2>1, <2>2
<1>4. CASE q \notin {4, 5, 7}
  BY <1>4 DEF Form, Ready
<1> QED BY <1>1, <1>2, <1>3, <1>4

LEMMA FlatpaksFormKeeps ==
    ASSUME NEW d, Kept(d), Settled(PageFlatpaks, d), d.userInitialized, NEW state
    PROVE  LET f == flatpaksForm(d, state) IN
           /\ Kept(f) /\ Settled(PageFlatpaks, f) /\ Ready(PageFlatpaks, f)
           /\ f.entry = d.entry /\ (f.core => state \notin {"none", "invalid"})
<1> DEFINE on == (~d.coreInitialized \/ d.core) /\ state \notin {"none", "invalid"}
           of == IF d.coreInitialized THEN d.coreOf ELSE d.entry.ref
           f  == [d EXCEPT !.core = on, !.coreInitialized = TRUE, !.coreOf = of]
<1>1. flatpaksForm(d, state) = f
  BY DEF flatpaksForm, Kept, Choices
<1>2. on \in BOOLEAN /\ (on => state \notin {"none", "invalid"})
  OBVIOUS
<1>3. of \in Refs \cup {None} /\ of = d.entry.ref
  BY CatalogRefs DEF Kept, Choices, Settled, ImageOk
<1> HIDE DEF on, of
<1>4. f \in Choices
  <2>1. on \in BOOLEAN
    BY <1>2
  <2>2. of \in Refs \cup {None}
    BY <1>3
  <2> QED BY <2>1, <2>2 DEF Kept, Choices
<1>5. /\ f.entry = d.entry /\ f.mok = d.mok /\ f.groups = d.groups /\ f.coreOf = of
      /\ f.userInitialized = d.userInitialized /\ f.coreInitialized
      /\ f.advanced = d.advanced /\ f.targetRef = d.targetRef /\ f.disk = d.disk
      /\ f.filesystem = d.filesystem /\ f.encryption = d.encryption /\ f.passphrase = d.passphrase
      /\ f.mokPassword = d.mokPassword /\ f.system = d.system
      /\ f.createUser = d.createUser /\ f.userText = d.userText /\ f.password = d.password
  BY DEF Kept, Choices
<1>6. f.core = on
  BY <1>2 DEF Kept, Choices
<1> HIDE DEF f
<1> QED BY <1>1, <1>2, <1>3, <1>4, <1>5, <1>6 DEF Kept, Settled, ImageOk, AdvancedOk, DiskOk, FilesystemOk,
                                         SecurityOk, SystemOk, UserOk, Ready

-----------------------------------------------------------------------------
(* The inductive invariant: where the wizard is and what is settled; what  *)
(* the review shows; which secrets are on the disk; what was accepted; and *)
(* what the command made of it.                                            *)

PagesInv ==
    /\ machine \in Machines /\ page \in PageWelcome..PageReview
    /\ Kept(c) /\ Settled(page, c) /\ Ready(page, c)
    /\ preview.state \in {"unavailable", "none", "invalid", "available"}
    /\ page >= PageFlatpaks =>
          preview.ref \in {None, c.entry.ref} /\ (c.core => toggleOffered)

ReviewInv ==
    /\ page = PageReview => review.recipe = assembleRecipe(c)
    /\ page # PageReview => review = None /\ confirming = FALSE /\ result # "accepted"
    /\ confirming \in BOOLEAN
    /\ result \in {"running", "quit", "cancelled", "error", "accepted"}
    /\ bugs \subseteq {"image.cosign_pub_key"}

SecretsInv ==
    /\ unremoved \subseteq SecretNames
    /\ \A n \in SecretNames :
          /\ files[n] \in Secrets(n)
          /\ page = PageReview /\ n \in Wanted(c) => files[n] = Answered(c)[n]
          /\ page # PageReview \/ n \notin Wanted(c) => files[n] = None \/ n \in unremoved

AcceptedInv == result = "accepted" => Issues(review.recipe) = {}

WizardInv == PagesInv /\ ReviewInv /\ SecretsInv /\ AcceptedInv

CommandInv ==
    /\ stage \in {"start", "wizard", "held", "preflight", "install", "over"}
    /\ session \in {"none", "open", "kept", "removed", "left"}
    /\ stage = "start" => session = "none"
    /\ stage = "wizard" => session = "open"
    /\ session = "removed" => stage = "over"
    /\ session \in {"none", "removed"} => files = NoFiles /\ unremoved = {}
    /\ stage \in {"preflight", "install", "over"} => session # "open"
    /\ stage \in {"preflight", "install"} => typed = recipe.disk /\ Issues(recipe) = {}
    /\ ErasesTheTypedDisk

FrontInv ==
    /\ PagesInv /\ ReviewInv /\ CommandInv
    /\ session # "removed" => SecretsInv /\ AcceptedInv

-----------------------------------------------------------------------------
(* The page loop keeps PagesInv.                                           *)

LEMMA Moves ==
    ASSUME machine' = machine, Kept(c'), Settled(page', c'), Ready(page', c')
    PROVE  (Kept(c) /\ Settled(page, c) /\ Ready(page, c))'
BY DEF Kept, Settled, Ready, ImageOk, AdvancedOk, DiskOk, FilesystemOk, SecurityOk, SystemOk, UserOk, Offered

LEMMA WelcomeAgain ==
    ASSUME machine' = machine, machine \in Machines, c' = NoChoices, page' \in {PageWelcome, PageImage},
           preview'.state \in {"unavailable", "none", "invalid", "available"}
    PROVE  PagesInv'
<1>1. NoChoices \in Choices
  BY DEF NoChoices, Choices, NoEntry, Texts, Secrets
<1>2. Kept(c') /\ Settled(page', c') /\ Ready(page', c')
  BY <1>1 DEF Kept, Settled, Ready, NoChoices
<1> QED BY <1>2, Moves DEF PagesInv

LEMMA ShowsFlatpaksKeeps ==
    ASSUME NEW d, Kept(d), Settled(PageFlatpaks, d), d.userInitialized,
           preview.state \in {"unavailable", "none", "invalid", "available"},
           machine' = machine, machine \in Machines, ShowsFlatpaks(d)
    PROVE  PagesInv' /\ c'.entry = d.entry
<1>1. /\ Kept(c') /\ Settled(page', c') /\ Ready(page', c') /\ c'.entry = d.entry
      /\ c'.core => preview'.state \notin {"none", "invalid"}
  BY FlatpaksFormKeeps DEF ShowsFlatpaks
<1>2. /\ preview'.state \in {"unavailable", "none", "invalid", "available"}
      /\ preview'.ref \in {None, d.entry.ref}
  BY DEF ShowsFlatpaks, refreshCorePreview, Inspections, NoPreview
<1>3. page' = PageFlatpaks
  BY DEF ShowsFlatpaks
<1>4. c'.core => toggleOffered'
  BY <1>1, <1>2 DEF toggleOffered
<1> QED BY <1>1, <1>2, <1>3, <1>4, Moves DEF PagesInv

LEMMA WizardPages == PagesInv /\ WizardNext => PagesInv'
<1> SUFFICES ASSUME PagesInv, WizardNext PROVE PagesInv'
  OBVIOUS
<1> USE DEF PagesInv
<1>k. page = PageFlatpaks => (c.core => toggleOffered)
  OBVIOUS
<1>1. CASE NextPage
  <2>1. PICK d \in Answers(page) : Accepts(page, d) /\ Shows(page + 1, d)
    BY <1>1 DEF NextPage
  <2>2. page \in PageWelcome..PageSystem
    BY <1>1 DEF NextPage, OnPage
  <2>3. page \in Pages /\ page # PageFlatpaks
    BY <2>2 DEF Pages
  <2>4. Kept(d) /\ Settled(page + 1, d)
    BY <2>1, <2>3, AnswersKeep
  <2>5. page + 1 \in PageWelcome..PageUser
    BY <2>2
  <2>6. page' = page + 1 /\ c' = Form(page + 1, d) /\ preview' = preview
    BY <2>1 DEF Shows
  <2>7. Kept(c') /\ Settled(page', c') /\ Ready(page', c')
    BY <2>4, <2>5, <2>6, FormKeeps
  <2>8. machine' = machine
    BY <1>1 DEF NextPage
  <2> QED BY <2>5, <2>6, <2>7, <2>8, Moves
<1>2. CASE ToFlatpaks
  <2>1. PICK d \in Answers(page) : Accepts(page, d) /\ ShowsFlatpaks(d)
    BY <1>2 DEF ToFlatpaks
  <2>2. page = PageUser /\ page \in Pages /\ machine' = machine
    BY <1>2 DEF ToFlatpaks, Pages
  <2>3. Kept(d) /\ Settled(page + 1, d) /\ Ready(page, d)
    BY <2>1, <2>2, AnswersKeep
  <2>4. Settled(PageFlatpaks, d) /\ d.userInitialized
    BY <2>2, <2>3 DEF Ready
  <2> QED BY <2>1, <2>2, <2>3, <2>4, ShowsFlatpaksKeeps
<1>3. CASE ToReview
  <2>1. PICK d \in Answers(page) : c' = d
    BY <1>3 DEF ToReview
  <2>2. page = PageFlatpaks /\ page \in Pages /\ machine' = machine /\ preview' = preview /\ page' = page + 1
    BY <1>3 DEF ToReview, Pages
  <2>3. /\ Kept(d) /\ Settled(page + 1, d) /\ Ready(page, d) /\ d.entry = c.entry
        /\ d.core => toggleOffered
    BY <1>k, <2>1, <2>2, AnswersKeep DEF Accepts
  <2>4. Ready(page', c')
    BY <2>1, <2>2, <2>3 DEF Ready
  <2>5. (Kept(c) /\ Settled(page, c) /\ Ready(page, c))'
    BY <2>1, <2>2, <2>3, <2>4, Moves
  <2> QED BY <2>1, <2>2, <2>3, <2>5 DEF toggleOffered
<1>4. CASE Back
  <2>1. PICK d \in Left(page) : Shows(previousPage(page), d)
    BY <1>4 DEF Back
  <2>2. page \in Pages /\ machine' = machine
    BY <1>4 DEF Back, OnPage, Pages
  <2>3. Kept(d) /\ Settled(page, d)
    BY <1>k, <2>1, <2>2, LeftKeeps
  <2>4. previousPage(page) \in PageWelcome..PageUser /\ previousPage(page) <= page
    BY <2>2 DEF previousPage, Pages
  <2>5. Settled(previousPage(page), d)
    BY <2>2, <2>3, <2>4 DEF Settled, Pages
  <2>6. page' = previousPage(page) /\ c' = Form(previousPage(page), d) /\ preview' = preview
    BY <2>1 DEF Shows
  <2>7. Kept(c') /\ Settled(page', c') /\ Ready(page', c')
    BY <2>3, <2>4, <2>5, <2>6, FormKeeps
  <2> QED BY <2>2, <2>4, <2>6, <2>7, Moves
<1>5. CASE DiskListFails \/ Quit \/ Cancelled \/ IssuesPersist \/ WriteFails
  <2>1. machine' = machine /\ c' = NoChoices /\ page' = PageWelcome /\ preview' = NoPreview
    BY <1>5 DEF DiskListFails, Quit, Cancelled, IssuesPersist, WriteFails, Returns, Ends
  <2> QED BY <2>1, WelcomeAgain DEF NoPreview
<1>6. CASE ReviewBack
  <2>1. page = PageReview /\ ShowsFlatpaks(c) /\ machine' = machine
    BY <1>6 DEF ReviewBack, Leaves, OnReview
  <2>2. Settled(PageFlatpaks, c) /\ c.userInitialized
    BY <2>1 DEF Settled, Ready
  <2> QED BY <2>1, <2>2, ShowsFlatpaksKeeps
<1>7. CASE StartOver
  BY <1>7, WelcomeAgain DEF StartOver
<1>8. CASE Install \/ ConfirmBack \/ Accepted \/ ShowIssues
  <2>1. machine' = machine /\ page' = page /\ c' = c /\ preview' = preview
    BY <1>8 DEF Install, ConfirmBack, Accepted, ShowIssues
  <2>2. (Kept(c) /\ Settled(page, c) /\ Ready(page, c))'
    BY <2>1, Moves
  <2> QED BY <2>1, <2>2 DEF toggleOffered
<1> QED BY <1>1, <1>2, <1>3, <1>4, <1>5, <1>6, <1>7, <1>8 DEF WizardNext

-----------------------------------------------------------------------------
(* At the review.                                                          *)

LEMMA AnswersTyped == \A d \in Choices : \A n \in SecretNames : Answered(d)[n] \in Secrets(n)
BY DEF SecretNames, Answered, Choices

LEMMA WritingTyped ==
    ASSUME SecretsInv, NEW d \in Choices, NEW names, NEW n \in SecretNames
    PROVE  Writing(d, names)[n] \in Secrets(n)
BY AnswersTyped DEF Writing, SecretsInv

LEMMA AssembledSecrets ==
    ASSUME SecretsInv, page # PageReview \/ c' = c, page' = PageReview, c' \in Choices,
           files' = Writing(c', Wanted(c')), unremoved' = unremoved \ Wanted(c')
    PROVE  SecretsInv'
<1>1. unremoved' \subseteq SecretNames
  BY DEF SecretsInv
<1>2. ASSUME NEW n \in SecretNames PROVE files'[n] \in Secrets(n)'
  BY WritingTyped DEF Secrets
<1>3. ASSUME NEW n \in SecretNames PROVE n \in Wanted(c') => files'[n] = Answered(c')[n]
  BY DEF Writing
<1>4. ASSUME NEW n \in SecretNames, n \notin Wanted(c') PROVE files'[n] = None \/ n \in unremoved'
  <2>1. files'[n] = files[n]
    BY <1>4 DEF Writing
  <2>2. page # PageReview \/ n \notin Wanted(c)
    BY <1>4
  <2> QED BY <1>4, <2>1, <2>2 DEF SecretsInv
<1> QED BY <1>1, <1>2, <1>3, <1>4 DEF SecretsInv, Wanted

(* Whatever cleanupSecretFiles leaves, its failure is on record.           *)
LEMMA CleanedSecrets ==
    ASSUME NEW contents, \A n \in SecretNames : contents[n] \in Secrets(n),
           CleansUp(contents), page' # PageReview
    PROVE  SecretsInv'
<1>1. PICK kept \in SUBSET {n \in Stuck : contents[n] # None} :
         /\ files' = [n \in SecretNames |-> IF n \in kept THEN contents[n] ELSE None]
         /\ unremoved' = kept
  BY DEF CleansUp
<1>2. kept \subseteq SecretNames
  BY WizardAssumption
<1>3. ASSUME NEW n \in SecretNames PROVE files'[n] \in Secrets(n)
  BY <1>1 DEF Secrets
<1>4. ASSUME NEW n \in SecretNames PROVE files'[n] = None \/ n \in unremoved'
  BY <1>1
<1> QED BY <1>1, <1>2, <1>3, <1>4 DEF SecretsInv, Secrets

LEMMA SecretReady ==
    ASSUME PagesInv, SecretsInv, page = PageReview, NEW n \in Wanted(c), Answered(c)[n] # None
    PROVE  FileState(files)[n] = "private"
<1>1. n \in SecretNames
  BY DEF Wanted
<1>2. n \notin DOMAIN StoredFiles
  BY <1>1, WizardAssumption
<1>3. files[n] = Answered(c)[n]
  BY <1>1 DEF SecretsInv
<1> QED BY <1>1, <1>2, <1>3 DEF FileState

(* The recipe assembled from settled answers breaks no rule, but for a     *)
(* catalog key that is not there: checkCatalog looks at no file.           *)
LEMMA ReviewedIsValid ==
    ASSUME PagesInv, SecretsInv, page = PageReview
    PROVE  Issues(assembleRecipe(c)) \subseteq {"image.cosign_pub_key"}
<1> DEFINE r == assembleRecipe(c)
           F == FileState(files)
<1>1. /\ r.version = "2" /\ r.family = "bootc" /\ r.ref = c.entry.ref /\ r.key = c.entry.key
      /\ r.targetRef = (IF c.advanced THEN c.targetRef ELSE "ok")
      /\ r.disk = c.disk /\ r.filesystem = c.filesystem
      /\ r.subvolumes = (c.subvolumes /\ c.filesystem = "btrfs")
      /\ r.encryption = c.encryption /\ r.inline = FALSE
      /\ r.passphraseFile = (IF needsPassphrase(c.encryption) THEN "passphrase" ELSE None)
      /\ r.mok = c.mok /\ r.mokFile = (IF c.mok = "enroll" THEN "mok-password" ELSE None)
      /\ r.system = c.system
      /\ r.user = (IF c.createUser
                   THEN [text |-> c.userText, file |-> "user-password", hash |-> FALSE]
                   ELSE None)
  BY DEF assembleRecipe
<1>2. /\ ImageOk(c) /\ AdvancedOk(c) /\ DiskOk(c) /\ FilesystemOk(c) /\ SecurityOk(c)
      /\ SystemOk(c) /\ UserOk(c)
  BY DEF PagesInv, Settled
<1>3. machine \in [secureBoot : BOOLEAN, tpm : BOOLEAN, expired : BOOLEAN, root : Roots]
  BY WizardAssumption DEF PagesInv
<1>4. None \notin SecretNames /\ "passphrase" \in SecretNames /\ "mok-password" \in SecretNames
      /\ "user-password" \in SecretNames
  BY WizardAssumption DEF SecretNames
<1>5. FilesOf(r) = {r.key, r.passphraseFile, r.mokFile, IF r.user = None THEN None ELSE r.user.file} \ {None}
  <2>1. r.sshFiles = {}
    BY DEF assembleRecipe
  <2> HIDE DEF r
  <2> QED BY <2>1 DEF FilesOf
<1>k. r.sshFiles = {}
  BY DEF assembleRecipe
<1>w. Wanted(c) = FilesOf(r) \cap SecretNames
  BY DEF Wanted
<1>a. /\ Answered(c)["passphrase"] = c.passphrase
      /\ Answered(c)["mok-password"] = c.mokPassword
      /\ Answered(c)["user-password"] = c.password
  BY <1>4 DEF Answered
<1> HIDE DEF r
<1>6. needsPassphrase(c.encryption) => F["passphrase"] = "private"
  BY <1>1, <1>2, <1>4, <1>5, <1>w, <1>a, SecretReady DEF SecurityOk
<1>7. c.mok = "enroll" => F["mok-password"] = "private"
  BY <1>1, <1>2, <1>4, <1>5, <1>w, <1>a, SecretReady DEF SecurityOk
<1>8. c.createUser => r.user # None /\ F["user-password"] = "private"
  <2> SUFFICES ASSUME c.createUser PROVE r.user # None /\ F["user-password"] = "private"
    OBVIOUS
  <2>1. r.user = [text |-> c.userText, file |-> "user-password", hash |-> FALSE]
    BY <1>1
  <2>2. r.user # None
    <3>1. c.userText \in {"ok", "bad"}
      BY DEF PagesInv, Kept, Choices, Texts
    <3>2. r.user \in [text : {"ok", "bad"}, file : {"user-password"}, hash : BOOLEAN]
      BY <2>1, <3>1
    <3> QED BY <3>2, NoneAssumption
  <2>3. "user-password" \in Wanted(c)
    BY <1>4, <1>5, <1>w, <2>1, <2>2
  <2> QED BY <1>2, <1>a, <2>2, <2>3, SecretReady DEF UserOk
<1> HIDE DEF F
<1>11. ImageIssues(r, F) \subseteq {"image.cosign_pub_key"}
  <2>1. ImageSelectionIssues([ref |-> c.entry.ref, key |-> c.entry.key, targetRef |-> "ok"]) = {}
    BY <1>2, CatalogAssumption DEF ImageOk
  <2>2. r.targetRef = "ok"
    BY <1>1, <1>2 DEF AdvancedOk
  <2>3. ImageSelectionIssues(r) = {}
    BY <1>1, <2>1, <2>2 DEF ImageSelectionIssues
  <2>4. FileIssue(r.key, FALSE, F, "image.cosign_pub_key") \subseteq {"image.cosign_pub_key"}
    BY DEF FileIssue, Complaint
  <2> QED BY <1>1, <2>3, <2>4 DEF ImageIssues, Complaint
<1>12. TargetIssues(r) = {}
  BY <1>1, <1>2 DEF TargetIssues, Complaint, DiskOk, FilesystemOk
<1>13. SecurityIssues(r, machine, F) = {}
  <2>1. r.encryption \in Encryptions /\ (r.encryption \in TPMModes => machine.tpm)
    BY <1>1, <1>2 DEF SecurityOk, Offered
  <2>2. PassphraseIssue(r) = {} /\ FileIssue(r.passphraseFile, TRUE, F, "security.passphrase_file") = {}
    BY <1>1, <1>4, <1>6 DEF PassphraseIssue, FileIssue, Complaint
  <2>3. MokIssues(r, machine, F) = {}
    BY <1>1, <1>2, <1>3, <1>4, <1>7, NoneAssumption DEF MokIssues, FileIssue, Complaint, SecurityOk, PagesInv, Kept
  <2> QED BY <2>1, <2>2, <2>3 DEF SecurityIssues, Complaint
<1>14. SystemIssues(r, F) = {}
  <2>0. SSHKeyIssues(r, F) = {}
    BY <1>k DEF SSHKeyIssues
  <2>1. CASE c.createUser
    <3>1. r.user = [text |-> c.userText, file |-> "user-password", hash |-> FALSE]
      BY <1>1, <2>1
    <3>2. UserIssues(r.user, F) = {}
      BY <1>2, <1>4, <1>8, <2>1, <3>1 DEF UserIssues, FileIssue, Complaint, UserOk
    <3>3. r.user # None /\ r.system = "ok"
      BY <1>1, <1>2, <1>8, <2>1 DEF SystemOk
    <3> QED BY <2>0, <3>2, <3>3 DEF SystemIssues, Complaint
  <2>2. CASE ~c.createUser
    BY <1>1, <1>2, <2>0, <2>2 DEF SystemIssues, Complaint, SystemOk
  <2> QED BY <2>1, <2>2
<1>15. Validate(r, machine, F) \subseteq {"image.cosign_pub_key"}
  BY <1>1, <1>11, <1>12, <1>13, <1>14 DEF Validate, Complaint
<1> QED BY <1>15 DEF Issues, F, r

-----------------------------------------------------------------------------
(* The wizard keeps the other parts.                                       *)

LEMMA WizardReview == WizardInv /\ WizardNext => ReviewInv'
<1> SUFFICES ASSUME WizardInv, WizardNext PROVE ReviewInv'
  OBVIOUS
<1> USE DEF OnPage, OnReview, Running
<1>0. page \in PageWelcome..PageReview
  BY DEF WizardInv, PagesInv
<1>r. ReviewInv
  BY DEF WizardInv
<1>1. CASE NextPage \/ ToFlatpaks \/ Back
  <2>1. page' # PageReview /\ page # PageReview
    BY <1>0, <1>1 DEF NextPage, ToFlatpaks, Back, Shows, ShowsFlatpaks, previousPage
  <2>2. review' = review /\ confirming' = confirming /\ result' = result /\ bugs' = bugs
    BY <1>1 DEF NextPage, ToFlatpaks, Back
  <2> QED BY <1>r, <2>1, <2>2 DEF ReviewInv
<1>2. CASE ToReview
  <2>1. /\ page # PageReview /\ page' = PageReview /\ review'.recipe = assembleRecipe(c')
        /\ confirming' = confirming /\ result' = result /\ bugs' = bugs
    BY <1>2 DEF ToReview, Assembles
  <2> QED BY <1>r, <2>1 DEF ReviewInv
<1>3. CASE DiskListFails \/ Quit \/ Cancelled \/ WriteFails
  <2>1. /\ page' = PageWelcome /\ review' = None /\ confirming' = FALSE /\ bugs' = bugs
        /\ result' \in {"quit", "cancelled", "error"}
    BY <1>3 DEF DiskListFails, Quit, Cancelled, WriteFails, Returns, Ends
  <2>2. result' \in {"running", "quit", "cancelled", "error", "accepted"} /\ result' # "accepted"
    BY <2>1
  <2>3. bugs' \subseteq {"image.cosign_pub_key"}
    BY <1>r, <2>1 DEF ReviewInv
  <2>4. confirming' \in BOOLEAN
    BY <2>1
  <2> QED BY <2>1, <2>2, <2>3, <2>4 DEF ReviewInv
<1>4. CASE ReviewBack \/ StartOver
  <2>1. /\ page' # PageReview /\ review' = None /\ confirming' = FALSE
        /\ result' = "running" /\ bugs' = bugs
    BY <1>r, <1>4 DEF ReviewBack, StartOver, Leaves, ShowsFlatpaks, ReviewInv
  <2>2. result' \in {"running", "quit", "cancelled", "error", "accepted"} /\ result' # "accepted"
    BY <2>1
  <2>3. bugs' \subseteq {"image.cosign_pub_key"}
    BY <1>r, <2>1 DEF ReviewInv
  <2>4. confirming' \in BOOLEAN
    BY <2>1
  <2> QED BY <2>1, <2>2, <2>3, <2>4 DEF ReviewInv
<1>5. CASE Install \/ ConfirmBack \/ Accepted
  <2>1. page = PageReview /\ page' = page /\ c' = c /\ bugs' = bugs
    BY <1>5 DEF Install, ConfirmBack, Accepted
  <2>2. review'.recipe = assembleRecipe(c')
    BY <1>r, <1>5, <2>1 DEF Install, ConfirmBack, Accepted, Assembles, ReviewInv
  <2>3. confirming' \in {TRUE, FALSE} /\ result' \in {result, "accepted"}
    BY <1>5 DEF Install, ConfirmBack, Accepted
  <2> QED BY <1>r, <2>1, <2>2, <2>3 DEF ReviewInv
<1>6. CASE ShowIssues \/ IssuesPersist
  <2>1. Issues(review.recipe) \subseteq {"image.cosign_pub_key"}
    BY <1>6, <1>r, ReviewedIsValid DEF ShowIssues, IssuesPersist, WizardInv, ReviewInv
  <2>2. bugs' \subseteq {"image.cosign_pub_key"}
    BY <1>6, <1>r, <2>1 DEF ShowIssues, IssuesPersist, ReviewInv
  <2>3. CASE ShowIssues
    <3>1. /\ page' = PageReview /\ c' = c /\ review'.recipe = assembleRecipe(c')
          /\ confirming' = FALSE /\ result' = result
      BY <2>3 DEF ShowIssues, Assembles
    <3> QED BY <1>r, <2>2, <3>1 DEF ReviewInv
  <2>4. CASE IssuesPersist
    <3>1. page' = PageWelcome /\ review' = None /\ confirming' = FALSE /\ result' = "error"
      BY <2>4 DEF IssuesPersist, Returns, Ends
    <3>2. result' \in {"running", "quit", "cancelled", "error", "accepted"} /\ result' # "accepted"
      BY <3>1
    <3>3. confirming' \in BOOLEAN
      BY <3>1
    <3> QED BY <2>2, <3>1, <3>2, <3>3 DEF ReviewInv
  <2> QED BY <1>6, <2>3, <2>4
<1> QED BY <1>1, <1>2, <1>3, <1>4, <1>5, <1>6 DEF WizardNext

LEMMA WizardSecrets == WizardInv /\ WizardNext => SecretsInv'
<1> SUFFICES ASSUME WizardInv, WizardNext PROVE SecretsInv'
  OBVIOUS
<1> USE DEF WizardInv, ReviewInv, OnPage, OnReview, Running
<1>0. page \in PageWelcome..PageReview /\ c \in Choices /\ c' \in Choices
  BY WizardPages DEF PagesInv, Kept
<1>t. \A n \in SecretNames : files[n] \in Secrets(n)
  BY DEF SecretsInv
<1>1. CASE NextPage \/ ToFlatpaks \/ Back
  <2>1. page' # PageReview /\ page # PageReview /\ files' = files /\ unremoved' = unremoved
    BY <1>0, <1>1 DEF NextPage, ToFlatpaks, Back, Shows, ShowsFlatpaks, previousPage
  <2> QED BY <2>1 DEF SecretsInv, Secrets
<1>2. CASE ToReview
  <2>1. /\ page # PageReview /\ page' = PageReview
        /\ files' = Writing(c', Wanted(c')) /\ unremoved' = unremoved \ Wanted(c')
    BY <1>2 DEF ToReview, Assembles
  <2> QED BY <1>0, <2>1, AssembledSecrets
<1>3. CASE DiskListFails \/ Quit \/ Cancelled \/ IssuesPersist
  <2>1. /\ page' = PageWelcome
        /\ IF page = PageReview THEN CleansUp(files) ELSE UNCHANGED <<files, unremoved>>
    BY <1>3 DEF DiskListFails, Quit, Cancelled, IssuesPersist, Returns, Ends
  <2>2. CASE page = PageReview
    BY <1>t, <2>1, <2>2, CleanedSecrets
  <2>3. CASE page # PageReview
    BY <2>1, <2>3 DEF SecretsInv, Secrets
  <2> QED BY <2>2, <2>3
<1>4. CASE WriteFails
  <2>1. page' # PageReview /\ \E names \in BegunWrites(c) : CleansUp(Writing(c, names))
    BY <1>4 DEF WriteFails, Ends
  <2>2. PICK names \in BegunWrites(c) : CleansUp(Writing(c, names))
    BY <2>1
  <2>3. \A n \in SecretNames : Writing(c, names)[n] \in Secrets(n)
    BY <1>0, WritingTyped
  <2> QED BY <2>1, <2>2, <2>3, CleanedSecrets
<1>5. CASE ReviewBack \/ StartOver
  <2>1. page' # PageReview /\ CleansUp(files)
    BY <1>5 DEF ReviewBack, StartOver, Leaves, ShowsFlatpaks
  <2> QED BY <1>t, <2>1, CleanedSecrets
<1>6. CASE Install \/ Accepted
  <2>1. page' = page /\ files' = files /\ c' = c /\ unremoved' = unremoved
    BY <1>6 DEF Install, Accepted
  <2> QED BY <2>1 DEF SecretsInv, Secrets
<1>7. CASE ConfirmBack \/ ShowIssues
  <2>1. /\ page' = PageReview /\ c' = c
        /\ files' = Writing(c', Wanted(c')) /\ unremoved' = unremoved \ Wanted(c')
    BY <1>7 DEF ConfirmBack, ShowIssues, Assembles
  <2> QED BY <1>0, <2>1, AssembledSecrets
<1> QED BY <1>1, <1>2, <1>3, <1>4, <1>5, <1>6, <1>7 DEF WizardNext

LEMMA WizardAccepted == WizardInv /\ WizardNext => AcceptedInv'
<1> SUFFICES ASSUME WizardInv, WizardNext, result' = "accepted" PROVE Issues(review.recipe)' = {}
  BY DEF AcceptedInv
<1>1. Accepted
  BY DEF WizardNext, NextPage, ToFlatpaks, ToReview, Back, DiskListFails, Quit, Cancelled,
         WriteFails, ReviewBack, StartOver, Install, ConfirmBack, ShowIssues, IssuesPersist,
         Returns, Ends, OnPage, OnReview, Leaves, Running
<1>2. Issues(review.recipe) = {} /\ review' = review /\ machine' = machine /\ files' = files
  BY <1>1 DEF Accepted
<1> QED BY <1>2 DEF Issues

LEMMA WizardKeeps == WizardInv /\ WizardNext => WizardInv'
BY WizardPages, WizardReview, WizardSecrets, WizardAccepted DEF WizardInv

-----------------------------------------------------------------------------
(* The command around the wizard.                                          *)

LEMMA StartIsGood == Init => FrontInv
<1> SUFFICES ASSUME Init PROVE FrontInv
  OBVIOUS
<1>1. NoChoices \in Choices
  BY DEF NoChoices, Choices, NoEntry, Texts, Secrets
<1>2. PagesInv
  BY <1>1 DEF Init, WizardInit, PagesInv, Kept, Settled, Ready, NoChoices, NoPreview
<1>3. ReviewInv
  <2>1. page # PageReview /\ review = None /\ bugs = {}
    BY DEF Init, WizardInit
  <2>2. confirming = FALSE /\ result = "running"
    BY DEF Init, WizardInit
  <2>3. confirming \in BOOLEAN
    BY <2>2
  <2>4. result \in {"running", "quit", "cancelled", "error", "accepted"} /\ result # "accepted"
    BY <2>2
  <2>5. bugs \subseteq {"image.cosign_pub_key"}
    BY <2>1
  <2> QED BY <2>1, <2>2, <2>3, <2>4, <2>5 DEF ReviewInv
<1>4. SecretsInv
  BY DEF Init, WizardInit, SecretsInv, NoFiles, Secrets
<1>5. AcceptedInv /\ CommandInv
  BY DEF Init, WizardInit, AcceptedInv, CommandInv, ErasesTheTypedDisk
<1> QED BY <1>2, <1>3, <1>4, <1>5 DEF FrontInv

LEMMA WizardStands ==
    ASSUME FrontInv, UNCHANGED wizardVars, session # "removed"
    PROVE  PagesInv' /\ ReviewInv' /\ SecretsInv' /\ AcceptedInv'
<1>1. /\ machine' = machine /\ page' = page /\ c' = c /\ preview' = preview /\ review' = review
      /\ confirming' = confirming /\ files' = files /\ unremoved' = unremoved
      /\ result' = result /\ bugs' = bugs
  BY DEF wizardVars
<1>2. PagesInv'
  BY <1>1, Moves DEF FrontInv, PagesInv, toggleOffered
<1>3. ReviewInv'
  BY <1>1 DEF FrontInv, ReviewInv
<1>4. SecretsInv'
  BY <1>1 DEF FrontInv, SecretsInv, Secrets
<1>5. AcceptedInv'
  BY <1>1 DEF FrontInv, AcceptedInv, Issues
<1> QED BY <1>2, <1>3, <1>4, <1>5

(* A target that Resolve finds in a listing and that is not refused is the *)
(* typed path, or what the typed link led to, and shows no use.            *)
LEMMA ErasesAcceptable ==
    ASSUME stage = "preflight", PreflightDisk, typed = recipe.disk
    PROVE  stage' \in {"install", "over"} /\ ErasesTheTypedDisk'
<1>1. PICK l \in Listings, linked \in Linkings, answered \in BOOLEAN :
         LET dev == Resolve(l, linked, recipe.disk) IN
         IF dev # None /\ ~Refused(dev, l[dev], RootDevice(machine.root, answered))
         THEN /\ stage' = "install"
              /\ target' = [path |-> dev, device |-> l[dev],
                            link |-> IF recipe.disk \in Links THEN linked[recipe.disk] ELSE None]
         ELSE stage' = "over" /\ UNCHANGED target
  BY DEF PreflightDisk
<1> DEFINE dev == Resolve(l, linked, recipe.disk)
<1>0. recipe' = recipe /\ typed' = typed
  BY DEF PreflightDisk
<1>2. CASE dev # None /\ ~Refused(dev, l[dev], RootDevice(machine.root, answered))
  <2>1. /\ stage' = "install" /\ target'.path = dev /\ target'.device = l[dev]
        /\ target'.link = IF recipe.disk \in Links THEN linked[recipe.disk] ELSE None
    BY <1>1, <1>2
  <2>2. dev \in DOMAIN l
    BY <1>2 DEF Resolve
  <2>3. dev \in Disks /\ l[dev] \in Device
    BY <2>2, ListingsAssumption
  <2>4. \A n \in {l[dev].own} \cup l[dev].below : n.fstype = "plain" /\ ~n.mounted /\ ~n.medium
    <3> SUFFICES ASSUME NEW n \in {l[dev].own} \cup l[dev].below
                 PROVE  n.fstype = "plain" /\ ~n.mounted /\ ~n.medium
      OBVIOUS
    <3>1. n \in Node /\ n \in Nodes(l[dev])
      BY <2>3 DEF Device, Nodes
    <3>2. /\ ~mountedAnywhere(l[dev]) /\ ~memberReason(l[dev]) /\ ~installerLabel(l[dev])
      BY <1>2 DEF Refused
    <3> QED BY <3>1, <3>2 DEF mountedAnywhere, memberReason, installerLabel, Node
  <2>5. dev = IF typed \in Links THEN linked[typed] ELSE typed
    BY <1>2 DEF Resolve
  <2> QED BY <1>0, <2>1, <2>3, <2>4, <2>5 DEF ErasesTheTypedDisk
<1>3. CASE ~(dev # None /\ ~Refused(dev, l[dev], RootDevice(machine.root, answered)))
  BY <1>1, <1>3 DEF ErasesTheTypedDisk
<1> QED BY <1>2, <1>3

LEMMA StepIsGood == FrontInv /\ [Next]_vars => FrontInv'
<1> SUFFICES ASSUME FrontInv, [Next]_vars PROVE FrontInv'
  OBVIOUS
<1>1. CASE CreateSession
  <2>1. /\ UNCHANGED wizardVars /\ session # "removed" /\ session' # "removed"
        /\ stage' \in {"wizard", "held"} /\ session' \in {"none", "open"}
        /\ stage' = "wizard" => session' = "open"
        /\ session = "none" /\ files' = files /\ unremoved' = unremoved
    BY <1>1 DEF CreateSession, FrontInv, CommandInv, wizardVars
  <2>2. CommandInv'
    BY <2>1 DEF FrontInv, CommandInv, ErasesTheTypedDisk
  <2> QED BY <2>1, <2>2, WizardStands DEF FrontInv
<1>2. CASE WizardStep
  <2>1. /\ WizardNext /\ stage = "wizard" /\ session = "open"
        /\ stage' = stage /\ session' = session
    BY <1>2 DEF WizardStep, frontVars, FrontInv, CommandInv
  <2>2. WizardInv'
    BY <2>1, WizardKeeps DEF FrontInv, WizardInv
  <2>3. CommandInv'
    BY <2>1 DEF CommandInv, ErasesTheTypedDisk
  <2> QED BY <2>2, <2>3 DEF FrontInv, WizardInv
<1>3. CASE WriteRecipe
  <2>1. /\ UNCHANGED wizardVars /\ session = "open" /\ session' = "kept" /\ stage' = "preflight"
        /\ Issues(review.recipe) = {} /\ recipe' = review.recipe /\ typed' = c.disk
        /\ result = "accepted"
    BY <1>3 DEF WriteRecipe, FrontInv, CommandInv
  <2>2. typed' = recipe'.disk
    BY <2>1 DEF FrontInv, ReviewInv, assembleRecipe
  <2>3. Issues(recipe)' = {}
    BY <2>1 DEF Issues, wizardVars
  <2>4. CommandInv'
    BY <2>1, <2>2, <2>3 DEF CommandInv, ErasesTheTypedDisk
  <2> QED BY <2>1, <2>4, WizardStands DEF FrontInv
<1>4. CASE HoldError
  <2>1. UNCHANGED wizardVars /\ session = "open" /\ session' = session /\ stage' = "held"
    BY <1>4 DEF HoldError, FrontInv, CommandInv
  <2>2. CommandInv'
    BY <2>1 DEF CommandInv, ErasesTheTypedDisk
  <2> QED BY <2>1, <2>2, WizardStands DEF FrontInv
<1>5. CASE RemoveSession
  <2>1. /\ stage' = "over" /\ session # "removed"
        /\ machine' = machine /\ page' = page /\ c' = c /\ preview' = preview /\ review' = review
        /\ confirming' = confirming /\ result' = result /\ bugs' = bugs
    BY <1>5 DEF RemoveSession, FrontInv, CommandInv
  <2>2. CASE session' = "removed" /\ files' = NoFiles /\ unremoved' = {}
    <3>1. CommandInv'
      BY <2>1, <2>2 DEF CommandInv, ErasesTheTypedDisk
    <3>2. PagesInv'
      BY <2>1, Moves DEF FrontInv, PagesInv, toggleOffered
    <3>3. ReviewInv'
      BY <2>1 DEF FrontInv, ReviewInv
    <3> QED BY <2>2, <3>1, <3>2, <3>3 DEF FrontInv
  <2>3. CASE /\ session' = "left" \/ (session # "open" /\ session' = session)
             /\ files' = files /\ unremoved' = unremoved
    <3>1. CommandInv'
      BY <2>1, <2>3 DEF FrontInv, CommandInv, ErasesTheTypedDisk
    <3>2. UNCHANGED wizardVars
      BY <2>1, <2>3 DEF wizardVars
    <3> QED BY <2>1, <2>3, <3>1, <3>2, WizardStands DEF FrontInv
  <2>4. /\ session = "open" =>
              \/ session' = "removed" /\ files' = NoFiles /\ unremoved' = {}
              \/ session' = "left" /\ files' = files /\ unremoved' = unremoved
        /\ session # "open" => session' = session /\ files' = files /\ unremoved' = unremoved
    BY <1>5 DEF RemoveSession
  <2> QED BY <2>2, <2>3, <2>4
<1>6. CASE Headless
  <2>1. PICK r \in HandRecipes, confirm \in Disks \cup Links \cup {None} :
           /\ typed' = confirm
           /\ IF Issues(r) = {} /\ confirm = r.disk
              THEN recipe' = r /\ stage' = "preflight"
              ELSE stage' = "over" /\ UNCHANGED recipe
    BY <1>6 DEF Headless
  <2>2. /\ UNCHANGED wizardVars /\ session = "none" /\ session' = session
        /\ files' = files /\ unremoved' = unremoved
    BY <1>6 DEF Headless, FrontInv, CommandInv, wizardVars
  <2>3. stage' = "over" \/ (stage' = "preflight" /\ typed' = recipe'.disk /\ Issues(recipe)' = {})
    BY <2>1, <2>2 DEF Issues, wizardVars
  <2>4. CommandInv'
    BY <2>2, <2>3 DEF FrontInv, CommandInv, ErasesTheTypedDisk
  <2> QED BY <2>2, <2>4, WizardStands DEF FrontInv
<1>7. CASE PreflightDisk
  <2>1. /\ UNCHANGED wizardVars /\ stage = "preflight" /\ session' = session /\ session # "removed"
        /\ recipe' = recipe /\ typed' = typed /\ typed = recipe.disk /\ Issues(recipe) = {}
        /\ session # "open" /\ files' = files /\ unremoved' = unremoved
    BY <1>7 DEF PreflightDisk, FrontInv, CommandInv, wizardVars
  <2>2. stage' \in {"install", "over"} /\ ErasesTheTypedDisk'
    BY <1>7, <2>1, ErasesAcceptable
  <2>3. Issues(recipe)' = {}
    BY <2>1 DEF Issues, wizardVars
  <2>4. CommandInv'
    BY <2>1, <2>2, <2>3 DEF FrontInv, CommandInv
  <2> QED BY <2>1, <2>4, WizardStands DEF FrontInv
<1>8. CASE Finish
  <2>1. /\ UNCHANGED wizardVars /\ stage' = "over" /\ session' = session /\ session # "removed"
        /\ session # "open" /\ files' = files /\ unremoved' = unremoved
    BY <1>8 DEF Finish, FrontInv, CommandInv, wizardVars
  <2>2. CommandInv'
    BY <2>1 DEF FrontInv, CommandInv, ErasesTheTypedDisk
  <2> QED BY <2>1, <2>2, WizardStands DEF FrontInv
<1>9. CASE UNCHANGED vars
  <2>1. UNCHANGED wizardVars /\ stage' = stage /\ session' = session /\ recipe' = recipe
        /\ typed' = typed /\ target' = target
    BY <1>9 DEF vars, frontVars
  <2>2. CommandInv'
    BY <2>1 DEF FrontInv, CommandInv, Issues, wizardVars, ErasesTheTypedDisk
  <2>3. CASE session # "removed"
    BY <2>1, <2>2, <2>3, WizardStands DEF FrontInv
  <2>4. CASE session = "removed"
    <3>1. PagesInv'
      BY <2>1, Moves DEF FrontInv, PagesInv, toggleOffered, wizardVars
    <3>2. ReviewInv'
      BY <2>1 DEF FrontInv, ReviewInv, wizardVars
    <3> QED BY <2>1, <2>2, <2>4, <3>1, <3>2 DEF FrontInv
  <2> QED BY <2>3, <2>4
<1> QED BY <1>1, <1>2, <1>3, <1>4, <1>5, <1>6, <1>7, <1>8, <1>9 DEF Next

LEMMA AlwaysGood == Spec => []FrontInv
BY StartIsGood, StepIsGood, PTL DEF Spec

-----------------------------------------------------------------------------
(* Every answer keeps its type on every path through the pages.            *)
THEOREM TypeCorrect == Spec => []TypeOK
<1>1. FrontInv => TypeOK
  <2> SUFFICES ASSUME FrontInv PROVE TypeOK
    OBVIOUS
  <2>1. machine \in Machines /\ page \in PageWelcome..PageReview /\ c \in Choices
    BY DEF FrontInv, PagesInv, Kept
  <2>2. unremoved \subseteq SecretNames /\ \A n \in SecretNames : files[n] \in Secrets(n)
    <3>1. \A n \in SecretNames : NoFiles[n] \in Secrets(n)
      BY DEF NoFiles, Secrets
    <3>2. CASE session = "removed"
      BY <3>1, <3>2 DEF FrontInv, CommandInv
    <3>3. CASE session # "removed"
      BY <3>3 DEF FrontInv, SecretsInv
    <3> QED BY <3>2, <3>3
  <2>3. /\ confirming \in BOOLEAN /\ (page # PageReview => review = None)
        /\ result \in {"running", "quit", "cancelled", "error", "accepted"}
    BY DEF FrontInv, ReviewInv
  <2>4. /\ stage \in {"start", "wizard", "held", "preflight", "install", "over"}
        /\ session \in {"none", "open", "kept", "removed", "left"}
    BY DEF FrontInv, CommandInv
  <2> QED BY <2>1, <2>2, <2>3, <2>4 DEF TypeOK
<1> QED BY <1>1, AlwaysGood, PTL

(* Whatever was listed, linked or mounted at each moment, preflight-disk   *)
(* lets an install erase only the disk typed, or the one the typed link    *)
(* led to, and that with nothing mounted on it, no RAID or LVM member, and *)
(* no installer's medium.                                                  *)
THEOREM TypedDisk == Spec => []ErasesTheTypedDisk
<1>1. FrontInv => ErasesTheTypedDisk
  BY DEF FrontInv, CommandInv
<1> QED BY <1>1, AlwaysGood, PTL

(* Whatever order the pages are walked, left and walked again in, the      *)
(* review shows a recipe validate.go accepts, or one whose catalog key     *)
(* file is missing.                                                        *)
THEOREM ReviewIsValid == Spec => []OnlyKeyFileRefused
<1>1. FrontInv => OnlyKeyFileRefused
  BY DEF FrontInv, ReviewInv, AcceptedInv, OnlyKeyFileRefused
<1> QED BY <1>1, AlwaysGood, PTL

(* The secrets the recipe under review refers to are there as last typed,  *)
(* whichever of the secret files cannot be removed; any other is there     *)
(* only because its removal failed.                                        *)
THEOREM SecretsFollowReview == Spec => []SecretsAreTheRecipes
<1>1. FrontInv => SecretsAreTheRecipes
  <2> SUFFICES ASSUME FrontInv PROVE SecretsAreTheRecipes
    OBVIOUS
  <2>1. stage = "over" /\ session \notin {"kept", "left"} => files = NoFiles
    BY DEF FrontInv, CommandInv
  <2>2. CASE session = "removed"
    <3>1. \A n \in SecretNames : files[n] = None
      BY <2>2 DEF FrontInv, CommandInv, NoFiles
    <3> QED BY <2>1, <2>2, <3>1 DEF SecretsAreTheRecipes
  <2>3. CASE session # "removed"
    BY <2>1, <2>3 DEF FrontInv, SecretsInv, SecretsAreTheRecipes
  <2> QED BY <2>2, <2>3
<1> QED BY <1>1, AlwaysGood, PTL

(* Going back to the image page never leaves another image's core apps in  *)
(* the recipe, nor the groups of an entry with another name.               *)
THEOREM AnswersFollowImage == Spec => []AnswersAreThisImages
<1>1. FrontInv => AnswersAreThisImages
  <2> SUFFICES ASSUME FrontInv, review # None PROVE AnswersAreThisImages
    BY DEF AnswersAreThisImages
  <2>1. page = PageReview /\ review.recipe = assembleRecipe(c)
    BY DEF FrontInv, ReviewInv
  <2>2. /\ c.groups \in Catalog /\ c.groups.name = c.entry.name /\ c.coreOf = c.entry.ref
        /\ preview.ref \in {None, c.entry.ref} /\ (c.core => toggleOffered)
    BY <2>1 DEF FrontInv, PagesInv, Kept, Ready
  <2>3. review.recipe.ref = c.entry.ref /\ review.recipe.core = c.core
    BY <2>1 DEF assembleRecipe
  <2> QED BY <2>2, <2>3 DEF AnswersAreThisImages
<1> QED BY <1>1, AlwaysGood, PTL

(* Validate's rules, passed at the last moment before the install, are     *)
(* enough for the steps that read secrets, SSH keys, the TPM and the       *)
(* filesystem's kind once the disk is erased.                              *)
THEOREM InputsAreThere == Spec => []InstallHasItsInputs
<1>1. FrontInv => InstallHasItsInputs
  <2> DEFINE F == FileState(files)
  <2> SUFFICES ASSUME FrontInv, stage = "install" PROVE InstallHasItsInputs
    BY DEF InstallHasItsInputs
  <2>1. Validate(recipe, machine, F) = {}
    BY DEF FrontInv, CommandInv, Issues
  <2> HIDE DEF F
  <2>2. /\ TargetIssues(recipe) = {} /\ SecurityIssues(recipe, machine, F) = {}
        /\ SystemIssues(recipe, F) = {}
    BY <2>1 DEF Validate
  <2>3. recipe.subvolumes => recipe.filesystem = "btrfs"
    BY <2>2 DEF TargetIssues, Complaint
  <2>4. /\ recipe.encryption \in TPMModes => machine.tpm
        /\ PassphraseIssue(recipe) = {} /\ MokIssues(recipe, machine, F) = {}
        /\ FileIssue(recipe.passphraseFile, TRUE, F, "security.passphrase_file") = {}
    BY <2>2 DEF SecurityIssues, Complaint
  <2>5. needsPassphrase(recipe.encryption) =>
           recipe.inline \/ (recipe.passphraseFile # None /\ F[recipe.passphraseFile] = "private")
    BY <2>4 DEF PassphraseIssue, FileIssue, Complaint
  <2>6. recipe.mok = "enroll" =>
           machine.secureBoot /\ recipe.mokFile # None /\ F[recipe.mokFile] = "private"
    BY <2>4, NoneAssumption DEF MokIssues, FileIssue, Complaint
  <2>7. recipe.user # None =>
           recipe.user.hash \/ (recipe.user.file # None /\ F[recipe.user.file] = "private")
    BY <2>2 DEF SystemIssues, UserIssues, FileIssue, Complaint
  <2>8. \A f \in recipe.sshFiles : f \in KeyFiles /\ f # None /\ F[f] \in {"private", "world"}
    <3> SUFFICES ASSUME NEW f \in recipe.sshFiles
                 PROVE  f \in KeyFiles /\ f # None /\ F[f] \in {"private", "world"}
      OBVIOUS
    <3>1. SSHKeyIssues(recipe, F) = {}
      BY <2>2 DEF SystemIssues
    <3>2. \A x \in FileIssue(f, FALSE, F, "system.ssh_authorized_key_file")
                   \cup Complaint(f \notin KeyFiles, "system.ssh_authorized_key_file") :
             x \in SSHKeyIssues(recipe, F)
      BY DEF SSHKeyIssues
    <3>4. /\ FileIssue(f, FALSE, F, "system.ssh_authorized_key_file") = {}
          /\ Complaint(f \notin KeyFiles, "system.ssh_authorized_key_file") = {}
      BY <3>1, <3>2
    <3>3. f \in KeyFiles /\ f # None
      BY <3>4, NoneAssumption DEF Complaint
    <3> QED BY <3>4, <3>3 DEF FileIssue, Complaint
  <2> QED BY <2>3, <2>4, <2>5, <2>6, <2>7, <2>8 DEF InstallHasItsInputs, F
<1> QED BY <1>1, AlwaysGood, PTL
=============================================================================
