--------------------------- MODULE ESPChainProofs ---------------------------
(* Theorems about ESPChain, whatever the image root holds, whatever fails, *)
(* however the kernel writes back and whenever the power goes.             *)
EXTENDS ESPChain, TLAPS

(* A file that is on the disk as it is in the cache, complete and signed.  *)
Settled(t) == cache[t] = "signed" /\ disk[t] = "signed"

Others == Targets \ {Entry}

Copying == pc \in {"open", "write", "sync", "close"}

(* The strengthening.  A file is only ever signed, torn or as it was found *)
(* (Clean); the checks have covered what is copied (Checked); the          *)
(* components before `at` are settled (Behind); the entry is untouched     *)
(* until its own turn (Untouched); and once it is touched, in the cache or *)
(* on the disk, all the others are settled (Chained).                      *)
Clean ==
    {cache, disk} \subseteq [Targets -> {"absent", "plain", "signed", "torn"}]

Checked ==
    /\ DOMAIN image = {"secondStage", "mokManager", "shim"}
    /\ pc = "list" \/ Copying => image["secondStage"] = "signed"
    /\ pc = "list" => at \in 1..2 /\ (at = 2 => image["shim"] = "signed")
    /\ Copying => image["shim"] = "signed" /\ image["mokManager"] = "signed"

Behind ==
    /\ Copying => \A i \in 1..3 : i < at => Settled(Components[i].target)
    /\ pc = "sync" => cache[Target] = "signed"
    /\ pc = "close" => Settled(Target)
    /\ pc = "returned" => \A t \in Targets : Settled(t)

Untouched ==
    /\ pc \in {"load", "stat"} => cache = disk /\ disk \in {FreshESP, ExistingESP}
    /\ pc \in {"load", "stat", "verify"} => at = 1
    /\ pc \in {"verify", "list"} \/ (Copying /\ at < 3) =>
          cache[Entry] = "plain" /\ disk[Entry] = "plain"

Chained ==
    cache[Entry] # "plain" \/ disk[Entry] # "plain" => \A t \in Others : Settled(t)

ChainInv == TypeOK /\ Clean /\ Checked /\ Behind /\ Untouched /\ Chained

(* The copies and their targets.                                           *)
LEMMA ThreeComponents ==
    /\ Len(Components) = 3 /\ Len(Listed) = 2
    /\ Listed[1] = "shim" /\ Listed[2] = "mokManager"
    /\ Components[1] = [source |-> "secondStage", target |-> "grubx64.efi"]
    /\ Components[2] = [source |-> "mokManager", target |-> "mmx64.efi"]
    /\ Components[3] = [source |-> "shim", target |-> Entry]
    /\ Others = {"grubx64.efi", "mmx64.efi"} /\ Entry \in Targets /\ Others \subseteq Targets
BY DEF Components, Listed, Others, Targets, Entry

(* The component at hand: shim is the third, and only shim is the entry.   *)
LEMMA TheTarget ==
    ASSUME at \in 1..3
    PROVE  /\ Target \in Targets /\ (Target = Entry <=> at = 3)
           /\ Components[at].source \in {"secondStage", "mokManager", "shim"}
           /\ \A i \in 1..3 : Components[i].target = Target => i = at
<1>1. CASE at = 1
  BY <1>1, ThreeComponents DEF Target, Targets, Entry
<1>2. CASE at = 2
  BY <1>2, ThreeComponents DEF Target, Targets, Entry
<1>3. CASE at = 3
  BY <1>3, ThreeComponents DEF Target, Targets, Entry
<1> QED BY <1>1, <1>2, <1>3

LEMMA ChainInit == Init => ChainInv
<1> SUFFICES ASSUME Init PROVE ChainInv
  OBVIOUS
<1>1. TypeOK
  BY ThreeComponents DEF Init, TypeOK, FreshESP, ExistingESP, Contents, Targets
<1>2. Clean
  BY DEF Init, Clean, FreshESP, ExistingESP, Targets
<1>3. Checked /\ Behind /\ Untouched
  BY DEF Init, Checked, Behind, Untouched, Copying
<1>4. Chained
  BY DEF Init, Chained, FreshESP, ExistingESP, Settled, Others, Targets, Entry
<1> QED BY <1>1, <1>2, <1>3, <1>4 DEF ChainInv

(* The checks touch no file: what is known of the files stays.             *)
LEMMA CheckStep ==
    ASSUME ChainInv, Load \/ StatChain \/ VerifySecondStage \/ AssertPESigned
    PROVE  ChainInv'
<1> USE ThreeComponents DEF ChainInv, Rest, Files, Goto, Copying
<1>1. cache' = cache /\ disk' = disk /\ image' = image
  BY DEF Load, StatChain, VerifySecondStage, AssertPESigned
<1>2. Clean' /\ Chained'
  BY <1>1 DEF Clean, Chained, Settled
<1>3. CASE Load
  <2>1. pc = "load" /\ at' = at /\ pc' \in {"stat", "failed"}
    BY <1>3 DEF Load
  <2> QED
    BY <1>1, <1>2, <2>1 DEF TypeOK, Checked, Behind, Untouched
<1>4. CASE StatChain
  <2>1. /\ pc = "stat" /\ at' = at
        /\ \/ pc' = "returned" /\ \A t \in Targets : cache[t] # "absent"
           \/ pc' = "verify" /\ \E t \in Targets : cache[t] = "absent"
    BY <1>4 DEF StatChain
  <2>2. cache = disk /\ disk \in {FreshESP, ExistingESP} /\ at = 1
    BY <2>1 DEF Untouched
  <2>3. CASE pc' = "returned"
    <3>1. "mmx64.efi" \in Targets /\ FreshESP["mmx64.efi"] = "absent"
      BY DEF Targets, FreshESP, Entry
    <3>2. \A t \in Targets : Settled(t)
      BY <2>1, <2>2, <2>3, <3>1 DEF Settled, ExistingESP
    <3> QED
      BY <1>1, <1>2, <2>1, <2>3, <3>2 DEF TypeOK, Checked, Behind, Untouched, Settled
  <2>4. CASE pc' = "verify"
    <3>1. disk = FreshESP
      BY <2>1, <2>2, <2>4 DEF ExistingESP
    <3>2. cache[Entry] = "plain" /\ disk[Entry] = "plain"
      BY <2>2, <3>1 DEF FreshESP, Targets
    <3> QED
      BY <1>1, <1>2, <2>1, <2>2, <2>4, <3>2 DEF TypeOK, Checked, Behind, Untouched
  <2> QED BY <2>1, <2>3, <2>4
<1>5. CASE VerifySecondStage
  <2>1. /\ pc = "verify" /\ at' = at
        /\ \/ pc' = "list" /\ image["secondStage"] = "signed"
           \/ pc' = "failed"
    BY <1>5 DEF VerifySecondStage
  <2> QED
    BY <1>1, <1>2, <2>1 DEF TypeOK, Checked, Behind, Untouched
<1>6. CASE AssertPESigned
  <2>1. pc = "list" /\ at \in 1..2
    BY <1>6 DEF AssertPESigned, Checked
  <2>2. CASE pc' = "failed" /\ at' = at
    BY <1>1, <1>2, <2>1, <2>2 DEF TypeOK, Checked, Behind, Untouched
  <2>3. CASE at = 1 /\ pc' = "list" /\ at' = 2 /\ image["shim"] = "signed"
    BY <1>1, <1>2, <2>1, <2>3 DEF TypeOK, Checked, Behind, Untouched
  <2>4. CASE at = 2 /\ pc' = "open" /\ at' = 1 /\ image["mokManager"] = "signed"
    BY <1>1, <1>2, <2>1, <2>4 DEF TypeOK, Checked, Behind, Untouched
  <2> QED
    BY <1>6, <2>1, <2>2, <2>3, <2>4 DEF AssertPESigned
<1> QED BY <1>3, <1>4, <1>5, <1>6

(* The file at hand is opened or written: nothing behind it moves, and if  *)
(* it is the entry, everything is behind it.                               *)
LEMMA WriteStep ==
    ASSUME ChainInv, OpenTarget \/ WriteData PROVE ChainInv'
<1> USE DEF ChainInv, Copying
<1>1. /\ Copying /\ pc \in {"open", "write"} /\ pc' \in {"write", "sync", "failed"}
      /\ disk' = disk /\ image' = image /\ at' = at /\ at \in 1..3
  BY ThreeComponents DEF OpenTarget, WriteData, Rest, Goto, TypeOK
<1>2. /\ Target \in Targets /\ (Target = Entry <=> at = 3)
      /\ \A i \in 1..3 : Components[i].target = Target => i = at
      /\ image[Components[at].source] = "signed" /\ Target' = Target
  BY <1>1, TheTarget, ThreeComponents DEF Checked, Target
<1>3. \/ cache' = cache /\ pc' = "failed"
      \/ cache' = [cache EXCEPT ![Target] = "torn"] /\ pc' = "write"
      \/ cache' = [cache EXCEPT ![Target] = "signed"] /\ pc' = "sync"
  BY <1>2 DEF OpenTarget, WriteData, Put, Goto
<1>4. cache' \in [Targets -> {"absent", "plain", "signed", "torn"}] /\ Clean'
  BY <1>1, <1>2, <1>3 DEF Clean
<1>5. \A t \in Targets : t # Target => cache'[t] = cache[t]
  BY <1>2, <1>3 DEF Clean
<1>6. TypeOK'
  BY <1>1, <1>3, <1>4, ThreeComponents DEF TypeOK, Clean, Contents
<1>7. Checked'
  BY <1>1, <1>3 DEF Checked
<1>8. \A i \in 1..3 : i < at => Settled(Components[i].target)'
  <2>1. \A i \in 1..3 : i < at => Settled(Components[i].target) /\ Components[i].target # Target
    BY <1>1, <1>2 DEF Behind
  <2>2. \A i \in 1..3 : Components[i].target \in Targets
    BY ThreeComponents DEF Targets
  <2> QED BY <1>1, <1>5, <2>1, <2>2 DEF Settled
<1>9. Behind'
  <2>1. pc' = "sync" => cache'[Target] = "signed"
    BY <1>1, <1>2, <1>3 DEF Clean
  <2> QED BY <1>1, <1>2, <1>8, <2>1 DEF Behind
<1>10. Untouched'
  BY <1>1, <1>2, <1>5, ThreeComponents DEF Untouched
<1>11. Chained'
  <2>1. CASE at = 3
    <3>1. Settled(Components[1].target)' /\ Settled(Components[2].target)'
      BY <1>8, <2>1
    <3> QED BY <3>1, ThreeComponents DEF Chained
  <2>2. CASE at # 3
    BY <1>1, <1>2, <1>5, <2>2, ThreeComponents DEF Chained, Untouched
  <2> QED BY <2>1, <2>2
<1> QED BY <1>4, <1>6, <1>7, <1>9, <1>10, <1>11

(* Flushing settles the file at hand, and closing moves on from it.        *)
LEMMA FlushStep ==
    ASSUME ChainInv, Sync \/ Close PROVE ChainInv'
<1> USE DEF ChainInv, Copying
<1>1. Copying /\ cache' = cache /\ image' = image /\ at \in 1..3
  BY ThreeComponents DEF Sync, Close, Rest, Files, TypeOK
<1>2. Target \in Targets /\ (Target = Entry <=> at = 3)
  BY <1>1, TheTarget
<1>3. CASE Sync /\ pc' = "failed"
  <2>1. disk' = disk /\ at' = at
    BY <1>3 DEF Sync, Put, Goto
  <2> QED
    BY <1>1, <1>3, <2>1 DEF TypeOK, Clean, Checked, Behind, Untouched, Chained, Settled
<1>4. CASE Sync /\ pc' = "close"
  <2>1. /\ disk' = [disk EXCEPT ![Target] = "signed"] /\ cache[Target] = "signed"
        /\ pc = "sync" /\ at' = at /\ Target' = Target
    BY <1>4 DEF Sync, Put, Goto, Behind, Target
  <2>2. /\ disk' \in [Targets -> {"absent", "plain", "signed", "torn"}]
        /\ disk'[Target] = "signed"
        /\ \A t \in Targets : t # Target => disk'[t] = disk[t]
    BY <1>2, <2>1 DEF Clean
  <2>3. \A t \in Targets : Settled(t) => Settled(t)'
    BY <1>1, <2>1, <2>2 DEF Settled
  <2>4. Settled(Target)'
    BY <1>1, <2>1, <2>2 DEF Settled
  <2>5. TypeOK' /\ Clean'
    BY <1>1, <1>4, <2>1, <2>2, ThreeComponents DEF TypeOK, Clean, Contents
  <2>6. Checked'
    BY <1>1, <1>4, <2>1 DEF Checked
  <2>7. Behind'
    <3>1. \A i \in 1..3 : Components[i].target \in Targets
      BY ThreeComponents DEF Targets
    <3> QED BY <1>1, <1>4, <2>1, <2>3, <2>4, <3>1 DEF Behind
  <2>8. Untouched'
    BY <1>1, <1>2, <1>4, <2>1, <2>2, ThreeComponents DEF Untouched
  <2>9. Chained'
    <3>1. at = 3 => \A t \in Others : Settled(t)
      BY <2>1, ThreeComponents DEF Behind
    <3>2. at # 3 => cache'[Entry] = "plain" /\ disk'[Entry] = "plain"
      BY <1>1, <1>2, <2>2, ThreeComponents DEF Untouched
    <3> QED BY <2>3, <3>1, <3>2, ThreeComponents DEF Chained
  <2> QED BY <2>5, <2>6, <2>7, <2>8, <2>9
<1>5. CASE Close
  <2>1. pc = "close" /\ disk' = disk
    BY <1>5 DEF Close, Rest, Files
  <2>2. Clean' /\ Chained'
    BY <1>1, <2>1 DEF Clean, Chained, Settled
  <2>3. CASE pc' = "failed" /\ at' = at
    BY <1>1, <2>1, <2>2, <2>3 DEF TypeOK, Checked, Behind, Untouched
  <2>4. CASE at < 3 /\ at' = at + 1 /\ pc' = "open"
    <3>1. Settled(Components[at].target)
      BY <2>1 DEF Behind, Target
    <3>2. \A i \in 1..3 : i < at' => Settled(Components[i].target)'
      BY <1>1, <2>1, <2>4, <3>1 DEF Behind, Settled
    <3>3. Untouched'
      BY <1>1, <2>1, <2>4 DEF Untouched
    <3> QED
      BY <1>1, <2>1, <2>2, <2>4, <3>2, <3>3, ThreeComponents DEF TypeOK, Checked, Behind
  <2>5. CASE at = 3 /\ pc' = "returned" /\ at' = at
    <3>1. Settled("grubx64.efi") /\ Settled("mmx64.efi") /\ Settled(Entry)
      BY <2>1, <2>5, ThreeComponents DEF Behind, Target
    <3>2. \A t \in Targets : Settled(t)'
      BY <1>1, <2>1, <3>1 DEF Settled, Targets
    <3> QED
      BY <1>1, <2>1, <2>2, <2>5, <3>2 DEF TypeOK, Checked, Behind, Untouched
  <2> QED BY <1>1, <1>5, <2>3, <2>4, <2>5, ThreeComponents DEF Close, Goto
<1> QED BY <1>3, <1>4, <1>5 DEF Sync, Goto

(* A file is written back only if it is not settled.                       *)
LEMMA WriteBackStep ==
    ASSUME ChainInv, WriteBack PROVE ChainInv'
<1> USE DEF ChainInv, Copying
<1>1. cache' = cache /\ image' = image /\ pc' = pc /\ at' = at /\ Target' = Target
  BY DEF WriteBack, Rest, Target
<1>2. PICK t \in Targets :
        /\ disk[t] # cache[t]
        /\ disk' \in {[disk EXCEPT ![t] = "torn"], [disk EXCEPT ![t] = cache[t]]}
  BY DEF WriteBack
<1>3. /\ disk' \in [Targets -> {"absent", "plain", "signed", "torn"}]
      /\ \A u \in Targets : u # t => disk'[u] = disk[u]
  BY <1>2 DEF Clean
<1>4. \A u \in Targets : Settled(u) => Settled(u)'
  BY <1>1, <1>2, <1>3 DEF Settled
<1>5. TypeOK' /\ Clean' /\ Checked'
  BY <1>1, <1>3 DEF TypeOK, Clean, Checked, Contents
<1>6. Behind'
  <2>1. \A i \in 1..3 : Components[i].target \in Targets
    BY ThreeComponents DEF Targets
  <2>2. pc = "close" => Target \in Targets
    BY TheTarget, ThreeComponents DEF TypeOK
  <2> QED BY <1>1, <1>4, <2>1, <2>2 DEF Behind
<1>7. Untouched'
  <2>1. t = Entry => ~(cache[Entry] = "plain" /\ disk[Entry] = "plain")
    BY <1>2
  <2> QED BY <1>1, <1>2, <1>3, <2>1, ThreeComponents DEF Untouched
<1>8. Chained'
  <2>1. cache[Entry] # "plain" \/ disk'[Entry] # "plain"
        => cache[Entry] # "plain" \/ disk[Entry] # "plain"
    BY <1>2, <1>3, ThreeComponents
  <2> QED BY <1>1, <1>4, <2>1, ThreeComponents DEF Chained
<1> QED BY <1>5, <1>6, <1>7, <1>8

(* A crash leaves what is on the disk.                                     *)
LEMMA CrashStep ==
    ASSUME ChainInv, Crash PROVE ChainInv'
<1> USE DEF ChainInv, Copying
<1>1. /\ cache' = disk /\ disk' = disk /\ image' = image /\ at' = at
      /\ pc' = "crashed"
  BY DEF Crash, Rest, Goto
<1>2. TypeOK' /\ Clean' /\ Checked' /\ Behind' /\ Untouched'
  BY <1>1 DEF TypeOK, Clean, Checked, Behind, Untouched
<1>3. Chained'
  BY <1>1 DEF Chained, Settled
<1> QED BY <1>2, <1>3

LEMMA ChainStep == ChainInv /\ [Next]_vars => ChainInv'
<1> SUFFICES ASSUME ChainInv, [Next]_vars PROVE ChainInv'
  OBVIOUS
<1>1. CASE UNCHANGED vars
  BY <1>1 DEF vars, ChainInv, TypeOK, Clean, Checked, Behind, Untouched, Chained, Settled,
              Copying, Target
<1> QED
  BY <1>1, CheckStep, WriteStep, FlushStep, WriteBackStep, CrashStep DEF Next

LEMMA ChainAlways == Spec => []ChainInv
BY ChainInit, ChainStep, PTL DEF Spec

(* Every reachable state of the ESP and of the step is well typed.         *)
THEOREM TypeCorrect == Spec => []TypeOK
<1>1. ChainInv => TypeOK
  BY DEF ChainInv
<1> QED BY ChainAlways, <1>1, PTL

(* "shim LAST": at whatever moment the power goes, an ESP on which shim is *)
(* complete also holds all that shim needs, signed.                        *)
THEOREM ShimIsLast == Spec => []ChainBeforeShim
<1>1. ChainInv => ChainBeforeShim
  <2> SUFFICES ASSUME ChainInv, disk[Entry] \in {"signed", "unsigned"}
               PROVE  \A t \in Targets : disk[t] = "signed"
    BY DEF ChainBeforeShim
  <2>1. disk[Entry] = "signed"
    BY ThreeComponents DEF ChainInv, Clean
  <2>2. \A t \in Others : disk[t] = "signed"
    BY <2>1 DEF ChainInv, Chained, Settled
  <2> QED BY <2>1, <2>2 DEF Others
<1> QED BY ChainAlways, <1>1, PTL

(* A step that returned has the whole chain on the disk, not in a cache.   *)
THEOREM ReturnedIsOnDisk == Spec => []SuccessIsDurable
<1>1. ChainInv => SuccessIsDurable
  BY DEF ChainInv, Behind, Settled, SuccessIsDurable
<1> QED BY ChainAlways, <1>1, PTL
=============================================================================
