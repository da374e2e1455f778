------------------------------ MODULE ESPChain ------------------------------
(***************************************************************************)
(* esp-stage: the Secure Boot chain is checked in the extracted image root *)
(* and copied, file by file, onto the installed ESP, whose page cache and  *)
(* disk differ until a file is flushed.                                    *)
(*                                                                         *)
(* A file's content is absent, plain (bootc's own systemd-boot), signed or *)
(* unsigned (a component of the image, complete), or torn (empty, or cut   *)
(* short).  A component that is empty cannot pass sbverify: it counts as   *)
(* missing.                                                                *)
(***************************************************************************)
EXTENDS Naturals, Sequences

VARIABLES
    contract,    \* bootc-secure.json: missing (or malformed), foreign, ok
    image,       \* the components in the image root: missing, unsigned, signed
    cache, disk, \* the ESP's files as the system sees them, and after a crash
    pc,          \* load, stat, verify, list, open, write, sync, close,
                 \* returned, failed or crashed
    at           \* the component listed or copied

vars == <<contract, image, cache, disk, pc, at>>

Entry   == "BOOTX64.EFI"
Targets == {Entry, "grubx64.efi", "mmx64.efi"}

\* Fault: shim first.
ComponentsShimFirst ==
    << [source |-> "shim", target |-> Entry],
       [source |-> "secondStage", target |-> "grubx64.efi"],
       [source |-> "mokManager", target |-> "mmx64.efi"] >>

(* The copies, in their order.                                             *)
Components ==
    << [source |-> "secondStage", target |-> "grubx64.efi"],
       [source |-> "mokManager", target |-> "mmx64.efi"],
       [source |-> "shim", target |-> Entry] >>

Listed == << "shim", "mokManager" >>

FreshESP    == [t \in Targets |-> IF t = Entry THEN "plain" ELSE "absent"]
ExistingESP == [t \in Targets |-> "signed"]

Init ==
    /\ contract \in {"missing", "foreign", "ok"}
    /\ image \in [{"secondStage", "mokManager", "shim"} ->
                     {"missing", "unsigned", "signed"}]
    /\ disk \in {FreshESP, ExistingESP} /\ cache = disk
    /\ pc = "load" /\ at = 1

-----------------------------------------------------------------------------
Rest == UNCHANGED <<contract, image>>
Goto(label) == pc' = label
Files == <<cache, disk>>

(* Load: the contract's shape, or the image is not the secure one.         *)
Load ==
    /\ pc = "load"
    /\ IF contract = "ok" THEN Goto("stat") ELSE Goto("failed")
    /\ Rest /\ UNCHANGED <<Files, at>>

(* StageESPChain: a chain that is there is left alone.                     *)
StatChain ==
    /\ pc = "stat"
    /\ IF \A t \in Targets : cache[t] # "absent" THEN Goto("returned") ELSE Goto("verify")
    /\ Rest /\ UNCHANGED <<Files, at>>

(* Any command may also fail, or be cancelled.                             *)
VerifySecondStage ==
    /\ pc = "verify"
    /\ \/ image["secondStage"] = "signed" /\ Goto("list")
       \/ Goto("failed")
    /\ Rest /\ UNCHANGED <<Files, at>>

\* Fault: sbverify --list succeeded, and that is taken for a signature.
AssertPESignedByExit ==
    /\ pc = "list"
    /\ \/ /\ image[Listed[at]] # "missing"
          /\ IF at < Len(Listed) THEN at' = at + 1 /\ UNCHANGED pc
             ELSE at' = 1 /\ Goto("open")
       \/ Goto("failed") /\ UNCHANGED at
    /\ Rest /\ UNCHANGED Files

(* assertPESigned: sbverify --list succeeds on an unsigned binary as well; *)
(* its output is read.                                                     *)
AssertPESigned ==
    /\ pc = "list"
    /\ \/ /\ image[Listed[at]] = "signed"
          /\ IF at < Len(Listed) THEN at' = at + 1 /\ UNCHANGED pc
             ELSE at' = 1 /\ Goto("open")
       \/ Goto("failed") /\ UNCHANGED at
    /\ Rest /\ UNCHANGED Files

(* copyESPComponent: O_TRUNC, write, sync, close.                          *)
Target == Components[at].target
Put(files, content) == files' = [files EXCEPT ![Target] = content]

OpenTarget ==
    /\ pc = "open"
    /\ \/ Put(cache, "torn") /\ Goto("write")
       \/ Goto("failed") /\ UNCHANGED cache
    /\ Rest /\ UNCHANGED <<disk, at>>

WriteData ==
    /\ pc = "write"
    /\ \/ Put(cache, image[Components[at].source]) /\ Goto("sync")
       \/ Goto("failed") /\ UNCHANGED cache
    /\ Rest /\ UNCHANGED <<disk, at>>

\* Fault: the file is closed without being flushed.
NoSync ==
    /\ pc = "sync" /\ Goto("close")
    /\ Rest /\ UNCHANGED <<Files, at>>

Sync ==
    /\ pc = "sync"
    /\ \/ Put(disk, cache[Target]) /\ Goto("close")
       \/ Goto("failed") /\ UNCHANGED disk
    /\ Rest /\ UNCHANGED <<cache, at>>

\* Fault: one component too few.
CloseEarly ==
    /\ pc = "close"
    /\ IF at + 1 < Len(Components) THEN at' = at + 1 /\ Goto("open")
       ELSE Goto("returned") /\ UNCHANGED at
    /\ Rest /\ UNCHANGED Files

Close ==
    /\ pc = "close"
    /\ \/ Goto("failed") /\ UNCHANGED at
       \/ at < Len(Components) /\ at' = at + 1 /\ Goto("open")
       \/ at = Len(Components) /\ Goto("returned") /\ UNCHANGED at
    /\ Rest /\ UNCHANGED Files

(* The kernel writes a file back when it likes, a part of it at first; FAT *)
(* keeps no journal.                                                       *)
WriteBack ==
    /\ pc # "crashed"
    /\ \E t \in Targets :
          /\ disk[t] # cache[t]
          /\ disk' \in {[disk EXCEPT ![t] = "torn"], [disk EXCEPT ![t] = cache[t]]}
    /\ Rest /\ UNCHANGED <<cache, pc, at>>

(* Power is lost, at any time after esp-stage has begun.                   *)
Crash ==
    /\ pc # "crashed" /\ Goto("crashed")
    /\ cache' = disk
    /\ Rest /\ UNCHANGED <<disk, at>>

Next ==
    \/ Load \/ StatChain \/ VerifySecondStage \/ AssertPESigned
    \/ OpenTarget \/ WriteData \/ Sync \/ Close \/ WriteBack \/ Crash

Spec == Init /\ [][Next]_vars

-----------------------------------------------------------------------------
Contents == {"absent", "plain", "signed", "unsigned", "torn"}

TypeOK ==
    /\ {cache, disk} \subseteq [Targets -> Contents]
    /\ at \in 1..Len(Components)
    /\ pc \in {"load", "stat", "verify", "list", "open", "write", "sync", "close",
               "returned", "failed", "crashed"}

(* Whenever the power goes, an ESP that starts shim also holds, complete   *)
(* and signed, the two files shim needs: its second stage and MokManager   *)
(* ("shim LAST").                                                          *)
ChainBeforeShim ==
    disk[Entry] \in {"signed", "unsigned"} => \A t \in Targets : disk[t] = "signed"

(* Once esp-stage has returned, the whole chain is on the disk: a crash    *)
(* later in the install or right after it changes nothing ("an unflushed   *)
(* write is a brick").                                                     *)
SuccessIsDurable ==
    pc = "returned" => \A t \in Targets : disk[t] = "signed"

(* "Until it is in place the firmware entry point is still bootc's plain   *)
(* systemd-boot, which at least boots".                                    *)
EntryBoots == disk[Entry] \in {"plain", "signed"}
=============================================================================
