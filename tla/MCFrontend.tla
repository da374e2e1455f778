----------------------------- MODULE MCFrontend -----------------------------
(***************************************************************************)
(* Frontend on two machines: one with Secure Boot and a TPM, booted from a *)
(* partition, and one with neither whose root is in memory; and again on   *)
(* the first, to change secrets and to fail to remove them.                *)
(***************************************************************************)
EXTENDS Frontend, TLC

CONSTANTS sda, sdb, sda1, byid, overlay, snow, floe, snowRef, floeRef, p1, p2,
          spinRef, pubKey, gone, secret, open, keys

Secure    == [secureBoot |-> TRUE,  tpm |-> TRUE,  expired |-> TRUE,  root |-> sda1]
Bare      == [secureBoot |-> FALSE, tpm |-> FALSE, expired |-> FALSE, root |-> overlay]
OfSecrets == [Secure EXCEPT !.expired = FALSE]

MCMachines == {Secure, Bare, OfSecrets}

MCPathsBefore == [r \in Roots |-> IF r = sda1 THEN {sda} ELSE {}]

plain == [mounted |-> FALSE, fstype |-> "plain", medium |-> FALSE]
disk(below) == [own |-> plain, below |-> below]

blank  == disk({})
raid   == disk({[plain EXCEPT !.fstype = "linux_raid_member"]})
rooted == disk({plain, [plain EXCEPT !.mounted = TRUE]})
stick  == disk({[plain EXCEPT !.medium = TRUE]})

(* The system on sda, or on a stick in either place, and a RAID's member   *)
(* beside it: of the two disks only sdb is ever accepted.                  *)
MCListings ==
    {(sda :> rooted) @@ (sdb :> blank), (sda :> rooted) @@ (sdb :> raid),
     (sda :> stick) @@ (sdb :> blank), (sda :> raid) @@ (sdb :> stick), sdb :> stick}

MCTyped == ("passphrase" :> {p1, p2}) @@ ("mok-password" :> {p1}) @@ ("user-password" :> {p1})

MCCatalog ==
    {[name |-> snow, ref |-> snowRef, key |-> pubKey],
     [name |-> floe, ref |-> floeRef, key |-> gone],
     [name |-> snow, ref |-> spinRef, key |-> None]}      \* of the same name

MCStoredFiles ==
    (pubKey :> "world") @@ (gone :> "absent") @@ (secret :> "private") @@ (open :> "world")
    @@ (keys :> "world")

(* A recipe by hand, good for a machine without Secure Boot, and others    *)
(* that differ from it.                                                    *)
Hand == [version |-> "1", family |-> "bootc", ref |-> snowRef, key |-> pubKey,
         targetRef |-> "ok", disk |-> byid, filesystem |-> "ext4", subvolumes |-> FALSE,
         encryption |-> "luks-passphrase", inline |-> FALSE, passphraseFile |-> secret,
         mok |-> None, mokFile |-> None, system |-> "ok", sshFiles |-> {}, core |-> FALSE, user |-> None]

User(file, hash) == [text |-> "ok", file |-> file, hash |-> hash]

MCHandRecipes ==
    {Hand,
     [Hand EXCEPT !.family = "ab"], [Hand EXCEPT !.version = "3"],
     [Hand EXCEPT !.ref = None], [Hand EXCEPT !.targetRef = "bad"],
     [Hand EXCEPT !.disk = sda], [Hand EXCEPT !.disk = sdb], [Hand EXCEPT !.disk = None],
     [Hand EXCEPT !.filesystem = "zfs"],
     [Hand EXCEPT !.subvolumes = TRUE], [Hand EXCEPT !.filesystem = "btrfs", !.subvolumes = TRUE],
     [Hand EXCEPT !.passphraseFile = open], [Hand EXCEPT !.passphraseFile = None],
     [Hand EXCEPT !.passphraseFile = None, !.inline = TRUE], [Hand EXCEPT !.inline = TRUE],
     [Hand EXCEPT !.encryption = "tpm2-luks-passphrase"],
     [Hand EXCEPT !.encryption = "tpm2-luks", !.passphraseFile = None],
     [Hand EXCEPT !.version = "2", !.mok = "enroll", !.mokFile = secret],
     [Hand EXCEPT !.version = "2", !.mok = "enroll"],
     [Hand EXCEPT !.version = "2", !.mok = "skip", !.encryption = "tpm2-luks-passphrase"],
     [Hand EXCEPT !.version = "2", !.mok = "skip", !.mokFile = secret],
     [Hand EXCEPT !.sshFiles = {keys, secret}], [Hand EXCEPT !.sshFiles = {keys, gone}],
     [Hand EXCEPT !.sshFiles = {keys, open}],
     [Hand EXCEPT !.user = User(None, FALSE)], [Hand EXCEPT !.user = User(open, FALSE)],
     [Hand EXCEPT !.user = User(secret, FALSE)], [Hand EXCEPT !.user = User(None, TRUE)],
     [Hand EXCEPT !.user = [User(secret, FALSE) EXCEPT !.text = "bad"]]}

(* What varies on which machine: texts that are ill-formed and the entries *)
(* of one name where there are few secrets, those where nothing else does. *)
Slipped == c.userText = "bad" /\ c.password # None
OneAtATime ==
    /\ machine # Bare => ~Slipped /\ c.entry.ref # spinRef
    /\ machine = OfSecrets => c.entry.ref # floeRef
    /\ machine # OfSecrets => unremoved = {} /\ c.passphrase # p2
=============================================================================
