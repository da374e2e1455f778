--------------------------- MODULE ImagePinProofs ---------------------------
(* Theorems about ImagePin for any set of images, however often the tag    *)
(* moves.                                                                  *)
EXTENDS ImagePin, TLAPS

(* What an inspection may have reported as its digest.                     *)
Digest == Digests \cup {None}

(* The strengthening: cosign is only ever asked about a digest, so that    *)
(* what it has said of the reference cannot change with the tag.           *)
PinInv ==
    /\ signed \subseteq Digests /\ copy \in Digest /\ tag \in Digests
    /\ pc \in {"begin", "local", "remote", "select", "verify", "probe", "core",
               "install"} => installed = None
    /\ local # None => local.digest \in Digest
    /\ pc = "select" => remote.digest \in Digest
    /\ recipe.key => /\ pc = "verify" => source.ref \in Digests
                     /\ pc \in {"core", "install"} => source.ref \in signed
                     /\ installed # None => installed \in signed

(* No digest is one of the words the model uses for other references.      *)
LEMMA DigestsAreNoWords ==
    ASSUME NEW digest \in Digests
    PROVE  digest \notin {"tag", "local", "malformed"} /\ digest # None
BY DigestsAssumption

(* Nothing is deployed, and no digest reported, in an initial state.       *)
LEMMA PinInit == Init => PinInv
BY SMT DEF Init, PinInv, Digest

(* What a key-bearing recipe installs is the reference it was left with.   *)
LEMMA SignedIsAvailable ==
    ASSUME PinInv, recipe.key, pc = "install", NEW image \in Available
    PROVE  image \in signed
<1>1. source.ref \in signed /\ source.ref \in Digests
  BY DEF PinInv
<1>2. source.ref \notin {"tag", "local", "malformed"}
  BY <1>1, DigestsAreNoWords
<1> QED BY <1>1, <1>2 DEF Available, Resolve

(* Every step keeps the strengthening.                                     *)
LEMMA PinStep == PinInv /\ [Next]_vars => PinInv'
<1> SUFFICES ASSUME PinInv, [Next]_vars PROVE PinInv'
  OBVIOUS
<1> USE DEF PinInv, world
<1>1. CASE Begin
  BY <1>1 DEF Begin, Refuse, Goto
<1>2. CASE InspectLocal
  <2>1. local' # None => local'.digest \in Digest
    BY <1>2 DEF InspectLocal, Digest
  <2> QED BY <1>2, <2>1 DEF InspectLocal, Goto
<1>3. CASE InspectRemote
  BY <1>3 DEF InspectRemote, Goto, Digest
<1>4. CASE SelectLocalRef
  BY <1>4 DEF SelectLocalRef, selectRest, Select, DiagnoseTransport, Diagnose, Refuse, Goto
<1>5. CASE SelectGivenDigest
  BY <1>5 DEF SelectGivenDigest, selectRest, Select, DiagnoseTransport, Diagnose, Refuse, Goto
<1>6. CASE SelectTag
  BY <1>6 DEF SelectTag, selectRest, Select, DiagnoseTransport, Diagnose, Refuse, Goto
<1>7. CASE SelectToVerify
  BY <1>7 DEF SelectToVerify, selectRest, ToVerify, DiagnoseTransport, Diagnose, Refuse,
              Goto, Digest
<1>8. CASE Verified
  <2>1. recipe.key => source.ref \in Digests
    BY <1>8 DEF Verified
  <2>2. recipe.key => Resolve(source.ref) = source.ref
    BY <2>1, DigestsAreNoWords DEF Resolve
  <2> QED BY <1>8, <2>2 DEF Verified, verifyRest, Goto
<1>9. CASE VerifyFails
  BY <1>9 DEF VerifyFails, verifyRest, Diagnose, Refuse, Goto
<1>10. CASE \E found \in NetworkCodes \cup {"answers"} : ProbeReturns(found)
  BY <1>10 DEF ProbeReturns, verifyRest, Refuse, Goto
<1>11. CASE ReadCoreFlatpaks
  BY <1>11 DEF ReadCoreFlatpaks, coreRest, Goto
<1>12. CASE CoreRefused
  BY <1>12 DEF CoreRefused, coreRest, Goto
<1>13. CASE Install
  <2>1. recipe.key /\ installed' # None => installed' \in signed
    BY <1>13, SignedIsAvailable DEF Install
  <2> QED BY <1>13, <2>1 DEF Install, Goto
<1>14. CASE TagMoves
  BY <1>14 DEF TagMoves
<1>15. CASE Cancel
  BY <1>15 DEF Cancel
<1>16. CASE UNCHANGED vars
  BY <1>16 DEF vars
<1> QED
  BY <1>1, <1>2, <1>3, <1>4, <1>5, <1>6, <1>7, <1>8, <1>9, <1>10, <1>11, <1>12,
     <1>13, <1>14, <1>15, <1>16 DEF Next

(* Only a signed image is deployed for a recipe with a key, wherever the   *)
(* tag moves between the inspection, cosign and bootc.                     *)
THEOREM OnlySigned == Spec => []OnlySignedIsInstalled
<1>1. PinInv => OnlySignedIsInstalled
  BY DEF PinInv, OnlySignedIsInstalled
<1> QED BY PinInit, PinStep, <1>1, PTL DEF Spec

-----------------------------------------------------------------------------
(* For the core set: what an inspection reports belongs together, and is   *)
(* of the recipe's own digest if it has one; what was selected keeps both  *)
(* the reference and the labels of one image.                              *)
LabelsInv ==
    /\ copy \in Digest /\ tag \in Digests
    /\ pc \in {"begin", "local", "remote", "select", "verify", "probe", "core",
               "install"} => installed = None
    /\ local # None => /\ local.digest \in {local.labels, None}
                       /\ recipe.ref \in Digests => local.labels = recipe.ref
    /\ pc = "select" => /\ remote.digest \in {remote.labels, None}
                        /\ recipe.ref \in Digests => remote.labels \in {recipe.ref, None}
    /\ pc \in {"verify", "core", "install"} =>
          (source.ref \in Digests => source.labels \in {source.ref, None})
    /\ pc = "install" /\ recipe.core => core = source.labels /\ core # None
    /\ installed # None /\ recipe.core =>
          core # None /\ (source.ref \in Digests => core = installed)

LEMMA LabelsInit == Init => LabelsInv
BY SMT DEF Init, LabelsInv, Digest

(* A digest is deployed as what it stands for, from the store or pulled.   *)
LEMMA DigestIsDeployed ==
    ASSUME source.ref \in Digests, NEW image \in Available
    PROVE  image = source.ref
BY DigestsAreNoWords DEF Available, Resolve

LEMMA LabelsStep == LabelsInv /\ [Next]_vars => LabelsInv'
<1> SUFFICES ASSUME LabelsInv, [Next]_vars PROVE LabelsInv'
  OBVIOUS
<1> USE DEF LabelsInv, world
<1>1. CASE Begin
  BY <1>1 DEF Begin, Refuse, Goto
<1>2. CASE InspectLocal
  BY <1>2, DigestsAreNoWords DEF InspectLocal, Goto, Digest
<1>3. CASE InspectRemote
  <2>1. remote'.digest \in {remote'.labels, None}
    BY <1>3 DEF InspectRemote
  <2>2. recipe.ref \in Digests => remote'.labels \in {recipe.ref, None}
    BY <1>3 DEF InspectRemote
  <2> QED BY <1>3, <2>1, <2>2 DEF InspectRemote, Goto
<1>4. CASE SelectLocalRef
  BY <1>4, DigestsAreNoWords DEF SelectLocalRef, selectRest, Select, DiagnoseTransport,
              Diagnose, Refuse, Goto
<1>5. CASE SelectGivenDigest
  BY <1>5, DigestsAreNoWords DEF SelectGivenDigest, selectRest, Select, LabelsOf,
              DiagnoseTransport, Diagnose, Refuse, Goto
<1>6. CASE SelectTag
  BY <1>6, DigestsAreNoWords DEF SelectTag, selectRest, Select, Pinned, DiagnoseTransport,
              Diagnose, Refuse, Goto
<1>7. CASE SelectToVerify
  BY <1>7, DigestsAreNoWords DEF SelectToVerify, selectRest, ToVerify, LabelsOf,
              DiagnoseTransport, Diagnose, Refuse, Goto
<1>8. CASE Verified
  BY <1>8 DEF Verified, verifyRest, Goto
<1>9. CASE VerifyFails
  BY <1>9 DEF VerifyFails, verifyRest, Diagnose, Refuse, Goto
<1>10. CASE \E found \in NetworkCodes \cup {"answers"} : ProbeReturns(found)
  BY <1>10 DEF ProbeReturns, verifyRest, Refuse, Goto
<1>11. CASE ReadCoreFlatpaks
  BY <1>11 DEF ReadCoreFlatpaks, coreRest, Goto
<1>12. CASE CoreRefused
  BY <1>12 DEF CoreRefused, coreRest, Goto
<1>13. CASE Install
  <2>1. source.ref \in Digests /\ installed' # None => installed' = source.ref
    BY <1>13, DigestIsDeployed DEF Install
  <2> QED BY <1>13, <2>1 DEF Install, Goto
<1>14. CASE TagMoves
  BY <1>14 DEF TagMoves
<1>15. CASE Cancel
  BY <1>15 DEF Cancel
<1>16. CASE UNCHANGED vars
  BY <1>16 DEF vars
<1> QED
  BY <1>1, <1>2, <1>3, <1>4, <1>5, <1>6, <1>7, <1>8, <1>9, <1>10, <1>11, <1>12,
     <1>13, <1>14, <1>15, <1>16 DEF Next

(* ADR-0020's promise: the core set that is installed is the one the       *)
(* deployed image publishes, whenever a digest pins it.                    *)
THEOREM CoreSetMatches == Spec => []CoreSetIsInstalledImages
<1>1. LabelsInv => CoreSetIsInstalledImages
  BY DEF LabelsInv, CoreSetIsInstalledImages
<1> QED BY LabelsInit, LabelsStep, <1>1, PTL DEF Spec
-----------------------------------------------------------------------------
(* For the types: what an inspection reports is an image or nothing, a     *)
(* source is known once there is one to verify or to read, and cosign has  *)
(* an attempt left while it is being asked.                                *)
TypeInv ==
    /\ TypeOK
    /\ recipe.ref \in Digests \cup {"tag", "local", "malformed"}
    /\ local # None => local.labels \in Digest /\ local.digest \in Digest
    /\ pc = "select" => remote.labels \in Digest /\ remote.digest \in Digest
    /\ pc \in {"verify", "core", "install"} => source \in Sources
    /\ pc \in {"begin", "local", "remote", "select"} => attempt = 0
    /\ pc = "verify" => attempt < Attempts

LEMMA TypeInit == Init => TypeInv
<1> SUFFICES ASSUME Init PROVE TypeInv
  OBVIOUS
<1>1. recipe.ref \in Digests \cup {"tag", "local", "malformed"}
  BY DEF Init
<1>2. TypeOK
  <2>1. pc = "begin" /\ code = "none" /\ attempt = 0 /\ cancelled = FALSE
    BY DEF Init
  <2>2. source = None /\ core = None /\ installed = None
    BY DEF Init
  <2>3. tag \in Digests /\ copy \in Digests \cup {None} /\ signed \subseteq Digests
    BY DEF Init
  <2>4. source \in Sources \cup {None} /\ {core, installed} \subseteq Digests \cup {None}
    BY <2>2
  <2>5. cancelled \in BOOLEAN
    BY <2>1
  <2>6. attempt \in 0..Attempts
    BY <2>1 DEF Attempts
  <2>7. pc \in {"begin", "local", "remote", "select", "verify", "probe", "core",
               "install", "installed", "failed"}
    BY <2>1
  <2>8. code \in NetworkCodes \cup {"none", "step_failed", "image_verify_failed",
               "core_label_unreadable", "core_label_invalid"}
    BY <2>1
  <2> QED BY <2>3, <2>4, <2>5, <2>6, <2>7, <2>8 DEF TypeOK
<1>3. pc = "begin" /\ attempt = 0 /\ local = None
  BY DEF Init
<1> QED BY <1>1, <1>2, <1>3 DEF TypeInv

(* The ends of a check: a known place, a known code.                       *)
LEMMA EndsAreTyped ==
    ASSUME Refuse \/ Diagnose \/ DiagnoseTransport
    PROVE  /\ pc' \in {"failed", "probe"}
           /\ code' \in {code, "image_verify_failed", "step_failed"}
BY DEF Refuse, Diagnose, DiagnoseTransport, FailedCheck, Goto

(* Whatever is selected is a source.                                       *)
LEMMA SelectedIsTyped ==
    ASSUME TypeInv, pc = "select", SelectLocalRef \/ SelectGivenDigest \/ SelectTag \/ SelectToVerify
    PROVE  /\ \/ pc' \in {"core", "verify"} /\ code' = code /\ source' \in Sources
              \/ pc' \in {"failed", "probe"} /\ source' = source
                 /\ code' \in {code, "image_verify_failed", "step_failed"}
<1> USE DEF TypeInv, Digest, Sources, Select, ToVerify, Goto
<1>1. CASE SelectLocalRef
  BY <1>1, EndsAreTyped, DigestsAreNoWords DEF SelectLocalRef, Unreachable
<1>2. CASE SelectGivenDigest
  BY <1>2, EndsAreTyped, DigestsAreNoWords DEF SelectGivenDigest, LabelsOf, Unreachable
<1>3. CASE SelectTag
  BY <1>3, EndsAreTyped DEF SelectTag, Pinned, Unreachable
<1>4. CASE SelectToVerify
  BY <1>4, EndsAreTyped DEF SelectToVerify, LabelsOf
<1> QED BY <1>1, <1>2, <1>3, <1>4

(* What bootc can deploy is an image.                                      *)
LEMMA AvailableIsTyped ==
    ASSUME TypeInv, pc = "install" PROVE Available \subseteq Digests
BY DEF TypeInv, TypeOK, Sources, Available, Resolve

LEMMA TypeStep == TypeInv /\ [Next]_vars => TypeInv'
<1> SUFFICES ASSUME TypeInv, [Next]_vars PROVE TypeInv'
  OBVIOUS
<1> USE DEF TypeInv, TypeOK, world, Attempts
<1>1. CASE Begin
  BY <1>1, EndsAreTyped DEF Begin, Goto
<1>2. CASE InspectLocal
  <2>1. local' # None => local'.labels \in Digest /\ local'.digest \in Digest
    BY <1>2 DEF InspectLocal, Digest
  <2> QED BY <1>2, <2>1 DEF InspectLocal, Goto
<1>3. CASE InspectRemote
  <2>1. remote'.labels \in Digest /\ remote'.digest \in Digest
    BY <1>3 DEF InspectRemote, Digest
  <2> QED BY <1>3, <2>1 DEF InspectRemote, Goto
<1>4. CASE SelectLocalRef \/ SelectGivenDigest \/ SelectTag \/ SelectToVerify
  <2>1. pc = "select" /\ UNCHANGED selectRest
    BY <1>4 DEF SelectLocalRef, SelectGivenDigest, SelectTag, SelectToVerify
  <2>2. \/ pc' \in {"core", "verify"} /\ code' = code /\ source' \in Sources
        \/ pc' \in {"failed", "probe"} /\ source' = source
           /\ code' \in {code, "image_verify_failed", "step_failed"}
    BY <1>4, <2>1, SelectedIsTyped
  <2> QED BY <2>1, <2>2 DEF selectRest
<1>5. CASE Verified
  BY <1>5 DEF Verified, verifyRest, Goto
<1>6. CASE VerifyFails
  <2>1. CASE attempt' < Attempts /\ UNCHANGED <<pc, code>>
    BY <1>6, <2>1 DEF VerifyFails, verifyRest
  <2>2. CASE attempt' = Attempts /\ (Refuse \/ Diagnose)
    BY <1>6, <2>2, EndsAreTyped DEF VerifyFails, verifyRest
  <2> QED BY <1>6, <2>1, <2>2 DEF VerifyFails
<1>7. CASE \E found \in NetworkCodes \cup {"answers"} : ProbeReturns(found)
  <2>1. pc' \in {"failed", "probe"} /\ code' \in NetworkCodes \cup {code, "image_verify_failed", "step_failed"}
    BY <1>7, EndsAreTyped DEF ProbeReturns, Goto
  <2>2. UNCHANGED <<verifyRest, attempt>>
    BY <1>7 DEF ProbeReturns
  <2> QED BY <2>1, <2>2 DEF verifyRest
<1>8. CASE ReadCoreFlatpaks
  <2>1. core' \in Digest
    BY <1>8 DEF ReadCoreFlatpaks, Sources, Digest
  <2> QED BY <1>8, <2>1 DEF ReadCoreFlatpaks, coreRest, Goto, Digest
<1>9. CASE CoreRefused
  BY <1>9 DEF CoreRefused, CoreRefusals, coreRest, Goto
<1>10. CASE Install
  <2>1. installed' \in Digest
    BY <1>10, AvailableIsTyped DEF Install, Digest
  <2> QED BY <1>10, <2>1 DEF Install, Goto, Digest
<1>11. CASE TagMoves
  BY <1>11 DEF TagMoves
<1>12. CASE Cancel
  BY <1>12 DEF Cancel
<1>13. CASE UNCHANGED vars
  BY <1>13 DEF vars
<1> QED
  BY <1>1, <1>2, <1>3, <1>4, <1>5, <1>6, <1>7, <1>8, <1>9, <1>10, <1>11, <1>12, <1>13
     DEF Next

(* Every reachable state of the check is well typed.                       *)
THEOREM TypeCorrect == Spec => []TypeOK
<1>1. TypeInv => TypeOK
  BY DEF TypeInv
<1> QED BY TypeInit, TypeStep, <1>1, PTL DEF Spec

-----------------------------------------------------------------------------
(* The probe is only ever asked about a registry skopeo has not reached;   *)
(* that, no cancellation and no tag that moves can change any more.        *)
ProbeInv == pc = "probe" => ~Reached /\ IsRegistryRef(recipe.ref)

(* A failure that is diagnosed is one of a registry.                       *)
LEMMA DiagnosedIsRemote ==
    ASSUME Diagnose, pc' = "probe"
    PROVE  IsRegistryRef(recipe.ref)
BY DEF Diagnose, Refuse, Goto

(* Only the answer of a probe changes the code to one of the network.      *)
LEMMA OnlyProbeBlamesNetwork ==
    ASSUME [Next]_vars, code' # code, code' \in NetworkCodes
    PROVE  \E found \in NetworkCodes \cup {"answers"} : ProbeReturns(found)
<1> USE DEF NetworkCodes, Refuse, FailedCheck
<1>1. CASE Begin \/ InspectLocal \/ InspectRemote \/ Verified \/ VerifyFails
  BY <1>1 DEF Begin, InspectLocal, InspectRemote, Verified, VerifyFails, Diagnose
<1>2. CASE SelectLocalRef \/ SelectGivenDigest \/ SelectTag \/ SelectToVerify
  BY <1>2 DEF SelectLocalRef, SelectGivenDigest, SelectTag, SelectToVerify, Select, ToVerify,
              DiagnoseTransport, Diagnose
<1>3. CASE ReadCoreFlatpaks \/ CoreRefused \/ Install \/ TagMoves \/ Cancel \/ UNCHANGED vars
  BY <1>3 DEF ReadCoreFlatpaks, CoreRefused, CoreRefusals, Install, TagMoves, Cancel, vars
<1> QED BY <1>1, <1>2, <1>3 DEF Next

LEMMA ProbeStep == ProbeInv /\ [Next]_vars => ProbeInv'
<1> SUFFICES ASSUME ProbeInv, [Next]_vars, pc' = "probe" PROVE (~Reached /\ IsRegistryRef(recipe.ref))'
  BY DEF ProbeInv
<1> USE DEF Reached, IsRegistryRef, world, Goto, Refuse
<1>1. CASE SelectLocalRef \/ SelectGivenDigest \/ SelectTag \/ SelectToVerify
  <2>1. UNCHANGED selectRest /\ DiagnoseTransport
    BY <1>1 DEF SelectLocalRef, SelectGivenDigest, SelectTag, SelectToVerify, Select, ToVerify
  <2>2. remote.what = "transport" /\ Diagnose
    BY <2>1 DEF DiagnoseTransport
  <2> QED BY <2>1, <2>2, DiagnosedIsRemote DEF selectRest
<1>2. CASE VerifyFails
  <2>1. ~Reached /\ Diagnose /\ UNCHANGED verifyRest
    BY <1>2 DEF VerifyFails
  <2> QED BY <2>1, DiagnosedIsRemote DEF verifyRest
<1>3. CASE TagMoves \/ Cancel \/ UNCHANGED vars
  BY <1>3 DEF TagMoves, Cancel, vars, ProbeInv
<1>4. CASE \/ Begin \/ InspectLocal \/ InspectRemote \/ Verified \/ ReadCoreFlatpaks \/ CoreRefused \/ Install
           \/ \E found \in NetworkCodes \cup {"answers"} : ProbeReturns(found)
  BY <1>4 DEF Begin, InspectLocal, InspectRemote, Verified, ReadCoreFlatpaks, CoreRefused, Install, ProbeReturns
<1> QED BY <1>1, <1>2, <1>3, <1>4 DEF Next

(* The network is blamed only when the probe says so, of a check nobody    *)
(* cancelled and a registry that skopeo had not reached.                   *)
THEOREM NetworkIsBlamedRightly == Spec => NoFalseNetworkVerdict
<1> DEFINE A == code' \in NetworkCodes => ~cancelled /\ ~Reached /\ IsRegistryRef(recipe.ref)
<1>1. Init => ProbeInv
  BY DEF Init, ProbeInv
<1>2. ProbeInv /\ [Next]_vars => [A]_code
  <2> SUFFICES ASSUME ProbeInv, [Next]_vars, code' # code, code' \in NetworkCodes
               PROVE  ~cancelled /\ ~Reached /\ IsRegistryRef(recipe.ref)
    OBVIOUS
  <2>1. PICK found \in NetworkCodes \cup {"answers"} : ProbeReturns(found)
    BY OnlyProbeBlamesNetwork
  <2>2. pc = "probe" /\ ~cancelled
    BY <2>1 DEF ProbeReturns, Refuse, FailedCheck, NetworkCodes
  <2> QED BY <2>2 DEF ProbeInv
<1> QED BY <1>1, <1>2, ProbeStep, PTL DEF Spec, NoFalseNetworkVerdict
=============================================================================
