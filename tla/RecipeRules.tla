----------------------------- MODULE RecipeRules ----------------------------
(***************************************************************************)
(* What internal/recipe/validate.go accepts.  A recipe is a record of what *)
(* its rules tell apart: a field is absent (None), names something, or is  *)
(* ill-formed ("bad").  The texts of [system] (hostname, locale, timezone, *)
(* keyboard, the root key) share one field, and so do those of             *)
(* [system.user]; the files with SSH keys, root's and the user's, are one  *)
(* set.  The result is the set of fields complained about.                 *)
(*                                                                         *)
(* A file is what checkFile finds at its path at that moment: "absent",    *)
(* "irregular", "world" (readable by everyone) or "private".               *)
(***************************************************************************)
EXTENDS DiskRules

CONSTANTS
    Refs, RegistryRefs,   \* images, those in a registry
    KeyFiles              \* files whose every line is an SSH key

ASSUME NoneAssumption ==
    /\ None \notin {"enroll", "skip"}
    /\ None \notin [text : {"ok", "bad"}, file : {"user-password"}, hash : BOOLEAN]
    /\ None \notin KeyFiles

FileStates == {"absent", "irregular", "world", "private"}

Encryptions == {"none", "luks-passphrase", "tpm2-luks", "tpm2-luks-passphrase"}
TPMModes    == {"tpm2-luks", "tpm2-luks-passphrase"}

needsPassphrase(encryption) ==
    encryption \in {"luks-passphrase", "tpm2-luks-passphrase"}

Complaint(broken, field) == IF broken THEN {field} ELSE {}

\* checkFile
FileIssue(file, secret, files, field) ==
    Complaint(file # None /\ files[file] \notin
                 (IF secret THEN {"private"} ELSE {"private", "world"}), field)

(* validateImageSelection: what the catalog checks as well.                *)
ImageSelectionIssues(image) ==
    Complaint(\/ image.ref \notin Refs
              \/ image.key # None /\ image.ref \notin RegistryRefs, "image.ref")
    \cup Complaint(image.targetRef = "bad", "image.target_ref")

ImageIssues(r, files) ==
    Complaint(r.family # "bootc", "image.family")
    \cup (IF r.family = "bootc" THEN ImageSelectionIssues(r) ELSE {})
    \cup FileIssue(r.key, FALSE, files, "image.cosign_pub_key")

TargetIssues(r) ==
    Complaint(r.disk \notin Disks \cup Links \cup Others, "target.disk")
    \cup Complaint(r.filesystem \notin {"btrfs", "xfs", "ext4"}, "target.filesystem")
    \cup Complaint(r.subvolumes /\ r.filesystem # "btrfs", "target.btrfs_subvolumes")

\* Fault: only a passphrase given twice is an error, not a missing one.
PassphraseIssueNotMissing(r) ==
    Complaint(IF needsPassphrase(r.encryption)
              THEN r.inline /\ r.passphraseFile # None
              ELSE r.inline \/ r.passphraseFile # None, "security.passphrase")

(* One source of the passphrase exactly when the mode needs one.           *)
PassphraseIssue(r) ==
    Complaint(IF needsPassphrase(r.encryption)
              THEN r.inline <=> r.passphraseFile # None
              ELSE r.inline \/ r.passphraseFile # None, "security.passphrase")

(* Under Secure Boot the key's enrolment is explicit; elsewhere it is not  *)
(* to be mentioned.                                                        *)
MokIssues(r, m, files) ==
    IF ~m.secureBoot
    THEN Complaint(r.mok # None \/ r.mokFile # None, "security.mok")
    ELSE Complaint(r.mok \notin {"enroll", "skip"}, "security.mok")
         \cup Complaint(\/ r.mok = "enroll" /\ r.mokFile = None
                        \/ r.mok = "skip" /\ r.mokFile # None, "security.mok_password_file")
         \cup (IF r.mok = "enroll"
               THEN FileIssue(r.mokFile, TRUE, files, "security.mok_password_file") ELSE {})

SecurityIssues(r, m, files) ==
    Complaint(\/ r.encryption \notin Encryptions
              \/ r.encryption \in TPMModes /\ ~m.tpm, "security.encryption")
    \cup PassphraseIssue(r)
    \cup FileIssue(r.passphraseFile, TRUE, files, "security.passphrase_file")
    \cup MokIssues(r, m, files)

UserIssues(u, files) ==
    Complaint(u.text # "ok", "system.user.name")
    \cup Complaint((u.file # None) <=> u.hash, "system.user.password_file")
    \cup FileIssue(u.file, TRUE, files, "system.user.password_file")

(* checkSSHKey, of a _file variant.                                        *)
SSHKeyIssues(r, files) ==
    UNION {FileIssue(f, FALSE, files, "system.ssh_authorized_key_file")
           \cup Complaint(f \notin KeyFiles, "system.ssh_authorized_key_file") : f \in r.sshFiles}

SystemIssues(r, files) ==
    Complaint(r.system # "ok", "system.hostname")
    \cup SSHKeyIssues(r, files)
    \cup (IF r.user = None THEN {} ELSE UserIssues(r.user, files))

(* Validate: a recipe of the A/B installer, and version 1 after its end    *)
(* date, are turned away before any other rule.                            *)
Validate(r, m, files) ==
    IF r.version = "1" /\ r.family = "ab" THEN {"image.family"}
    ELSE IF r.version = "1" /\ m.expired THEN {"version"}
    ELSE Complaint(r.version \notin {"1", "2"}, "version")
         \cup ImageIssues(r, files) \cup TargetIssues(r)
         \cup SecurityIssues(r, m, files) \cup SystemIssues(r, files)
=============================================================================
