------------------------------ MODULE ImagePin ------------------------------
(***************************************************************************)
(* From a recipe's image reference to the image that is deployed:          *)
(* preflight-image inspects a local copy and the registry, selects one,    *)
(* has cosign verify it if the recipe carries a key, and reads the core    *)
(* flatpak set from its labels; bootc-install resolves the reference       *)
(* preflight left it, later, when the tag may have moved.                  *)
(*                                                                         *)
(* An image is its digest; its labels are told apart by the image they are *)
(* of.  Every command may fail, with a text that shows a connectivity      *)
(* failure, an answer, or neither.                                         *)
(***************************************************************************)
EXTENDS Naturals, FiniteSets

CONSTANTS Digests, None

ASSUME DigestsAssumption ==
    Digests \cap {None, "tag", "local", "malformed"} = {} /\ None \notin STRING

VARIABLES
    recipe,      \* image.ref, cosign_pub_key, core_flatpaks
    host,        \* bootc is installed, the store is redirected, probe # nil
    tag,         \* what the tag stands for at the registry: it moves
    copy,        \* the copy in local containers-storage
    signed,      \* the digests the recipe's key has signed
    pc, cancelled,
    local,       \* the local inspection's result, None if it failed
    remote,      \* the registry inspection's
    attempt,     \* cosign's attempts
    source,      \* Source: reference and labels (None: not Inspected)
    code,        \* the failure's code
    core,        \* the image whose core set will be installed
    installed    \* the image bootc has deployed

world == <<recipe, host, copy, signed>>
vars  == <<world, tag, pc, cancelled, local, remote, attempt, source, code,
           core, installed>>

Attempts == 3                                      \* verifyAttempts
NetworkCodes == {"registry_unreachable", "network_unreachable"}
Failures == {"transport", "answered", "verdict", "other"}
IsRegistryRef(ref) == ref # "local"

(* What a reference stands for at the registry now.                        *)
Resolve(ref) == IF ref = "tag" THEN tag ELSE ref

Init ==
    /\ recipe \in [ref : {"tag", "local", "malformed"} \cup Digests,
                   key : BOOLEAN, core : BOOLEAN]
    /\ host \in [native : BOOLEAN, redirected : BOOLEAN, probe : BOOLEAN]
    /\ tag \in Digests /\ copy \in Digests \cup {None} /\ signed \in SUBSET Digests
    /\ pc = "begin" /\ cancelled = FALSE
    /\ local = None /\ remote = None /\ attempt = 0 /\ source = None
    /\ code = "none" /\ core = None /\ installed = None

-----------------------------------------------------------------------------
(* Ends of the check.                                                      *)

Goto(label) == pc' = label

(* preflight-image: reachability outranks the verification code.           *)
FailedCheck == IF recipe.key THEN "image_verify_failed" ELSE "step_failed"

Refuse == Goto("failed") /\ code' = FailedCheck

(* diagnose: the probe is asked, unless there is nothing to ask about.     *)
Diagnose ==
    IF host.probe /\ ~cancelled /\ IsRegistryRef(recipe.ref)
    THEN Goto("probe") /\ UNCHANGED code
    ELSE Refuse

(* diagnoseTransport, of the registry inspection's failure.                *)
DiagnoseTransport == IF remote.what = "transport" THEN Diagnose ELSE Refuse

Select(ref, labels) ==
    /\ source' = [ref |-> ref, labels |-> labels]
    /\ Goto("core") /\ UNCHANGED code

-----------------------------------------------------------------------------
(* CheckAndPinImage.  Cosign needs a reference that can be resolved.       *)
Begin ==
    /\ pc = "begin"
    /\ IF recipe.key /\ ~IsRegistryRef(recipe.ref)
       THEN Refuse ELSE Goto("local") /\ UNCHANGED code
    /\ UNCHANGED <<world, tag, cancelled, local, remote, attempt, source, core, installed>>

(* A digest only finds a copy of that image; what is found may report no   *)
(* digest, or that of a manifest list: none that compares.                 *)
InspectLocal ==
    /\ pc = "local" /\ Goto("remote")
    /\ \/ local' = None
       \/ /\ ~cancelled /\ copy # None /\ recipe.ref \in {"tag", "local", copy}
          /\ \E digest \in {copy, None} : local' = [labels |-> copy, digest |-> digest]
    /\ UNCHANGED <<world, tag, cancelled, remote, attempt, source, code, core, installed>>

(* "what" is ok, an output that does not parse, or why it failed.          *)
InspectRemote ==
    /\ pc = "remote" /\ Goto("select")
    /\ \/ \E why \in Failures \ {"verdict"} :
             remote' = [what |-> why, labels |-> None, digest |-> None]
       \/ /\ ~cancelled /\ recipe.ref # "malformed"
          /\ LET image == IF recipe.ref \in Digests THEN recipe.ref ELSE tag IN
             remote' \in {[what |-> "ok", labels |-> image, digest |-> image],
                          [what |-> "ok", labels |-> image, digest |-> None],
                          [what |-> "garbage", labels |-> None, digest |-> None]}
    /\ UNCHANGED <<world, tag, cancelled, local, attempt, source, code, core, installed>>

Reached      == remote.what \in {"ok", "garbage"}          \* remoteErr == nil
Unreachable  == local = None /\ ~Reached
selectRest   == <<world, tag, cancelled, local, remote, attempt, core, installed>>

(* A local transport's reference is installed as it is.                    *)
SelectLocalRef ==
    /\ pc = "select" /\ ~recipe.key /\ recipe.ref = "local"
    /\ IF Unreachable THEN DiagnoseTransport /\ UNCHANGED source
       ELSE Select("local", IF local # None THEN local.labels ELSE remote.labels)
    /\ UNCHANGED selectRest

(* The labels of a recipe's own digest, from whoever has that digest.      *)
LabelsOf(digest) ==
    IF local # None /\ local.digest = digest THEN local.labels ELSE remote.labels

SelectGivenDigest ==
    /\ pc = "select" /\ ~recipe.key /\ recipe.ref \in Digests \cup {"malformed"}
    /\ IF Unreachable THEN DiagnoseTransport /\ UNCHANGED source
       ELSE Select(recipe.ref, LabelsOf(recipe.ref))
    /\ UNCHANGED selectRest

Pinned(digest) == IF digest = None THEN "tag" ELSE digest

\* Fault: the labels of the local copy, the digest of the registry's image.
SelectTagMixed ==
    /\ pc = "select" /\ ~recipe.key /\ recipe.ref = "tag"
    /\ IF Unreachable THEN DiagnoseTransport /\ UNCHANGED source
       ELSE Select(Pinned(remote.digest),
                   IF local # None THEN local.labels ELSE remote.labels)
    /\ UNCHANGED selectRest

(* An unsigned tag: the local copy wins; without a digest the tag stays.   *)
SelectTag ==
    /\ pc = "select" /\ ~recipe.key /\ recipe.ref = "tag"
    /\ IF Unreachable THEN DiagnoseTransport /\ UNCHANGED source
       ELSE LET chosen == IF local # None THEN local ELSE remote IN
            Select(Pinned(chosen.digest), chosen.labels)
    /\ UNCHANGED selectRest

(* With a key: what cosign is asked about.                                 *)
ToVerify(ref, labels) ==
    /\ source' = [ref |-> ref, labels |-> labels]
    /\ Goto("verify") /\ UNCHANGED code

\* Fault: cosign resolves the tag, and bootc resolves it again.
SelectToVerifyTag ==
    /\ pc = "select" /\ recipe.key
    /\ ToVerify(recipe.ref, remote.labels)
    /\ UNCHANGED selectRest

SelectToVerify ==
    /\ pc = "select" /\ recipe.key
    /\ \/ /\ recipe.ref \in Digests /\ ToVerify(recipe.ref, LabelsOf(recipe.ref))
       \/ /\ recipe.ref = "malformed" /\ Refuse /\ UNCHANGED source
       \/ /\ recipe.ref = "tag"
          /\ LET chosen == IF local # None THEN local ELSE remote IN
             IF chosen.digest # None THEN ToVerify(chosen.digest, chosen.labels)
             ELSE /\ IF Unreachable THEN DiagnoseTransport ELSE Refuse
                  /\ UNCHANGED source
    /\ UNCHANGED selectRest

verifyRest == <<world, tag, cancelled, local, remote, source, core, installed>>

Verified ==
    /\ pc = "verify" /\ ~cancelled /\ Resolve(source.ref) \in signed
    /\ attempt' = attempt + 1
    /\ Goto("core") /\ UNCHANGED code
    /\ UNCHANGED verifyRest

(* A verdict may be transient; the last attempt's is final.  A transport   *)
(* failure is diagnosed unless skopeo had reached the registry.            *)
VerifyFails ==
    /\ pc = "verify" /\ attempt' = attempt + 1
    /\ \/ attempt' < Attempts /\ UNCHANGED <<pc, code>>
       \/ /\ attempt' = Attempts
          /\ \E why \in Failures :
                IF why = "transport" /\ ~Reached THEN Diagnose ELSE Refuse
    /\ UNCHANGED verifyRest

\* Fault: a probe the cancellation has ended counts.
ProbeReturnsAnyway(found) ==
    /\ pc = "probe"
    /\ IF found = "answers" THEN Refuse ELSE Goto("failed") /\ code' = found
    /\ UNCHANGED <<verifyRest, attempt>>

(* The probe: the registry answers, or it does not, or there is no network *)
(* at all.  A check cancelled meanwhile keeps its own failure.             *)
ProbeReturns(found) ==
    /\ pc = "probe"
    /\ IF found = "answers" \/ cancelled THEN Refuse ELSE Goto("failed") /\ code' = found
    /\ UNCHANGED <<verifyRest, attempt>>

-----------------------------------------------------------------------------
coreRest == <<world, tag, cancelled, local, remote, attempt, source, installed>>

(* readCoreFlatpaks: unknown labels are not an absent label.               *)
ReadCoreFlatpaks ==
    /\ pc = "core" /\ Goto("install") /\ UNCHANGED code
    /\ recipe.core => source.labels # None
    /\ core' = IF recipe.core THEN source.labels ELSE None
    /\ UNCHANGED coreRest

(* ... a label that cannot be parsed fails too, and so does the sink.      *)
CoreRefusals ==
    {"step_failed"} \cup
    (IF ~recipe.core THEN {}
     ELSE IF source.labels = None THEN {"core_label_unreadable"} ELSE {"core_label_invalid"})

CoreRefused ==
    /\ pc = "core" /\ Goto("failed") /\ code' \in CoreRefusals
    /\ UNCHANGED <<coreRest, core>>

(* What the engine's host can deploy: bootc on the host only reads local   *)
(* storage; podman prefers it, and pulls.  A redirected store is empty.    *)
Available ==
    LET here == IF host.redirected \/ copy = None
                   \/ source.ref \notin {"tag", "local", copy} THEN {} ELSE {copy} IN
    IF here # {} \/ host.native \/ source.ref \in {"local", "malformed"}
    THEN here ELSE {Resolve(source.ref)}

Install ==
    /\ pc = "install"
    /\ \/ ~cancelled /\ installed' \in Available /\ Goto("installed") /\ UNCHANGED code
       \/ UNCHANGED installed /\ Goto("failed") /\ code' = "step_failed"
    /\ UNCHANGED <<world, tag, cancelled, local, remote, attempt, source, core>>

(* Someone pushes; the user cancels.                                       *)
TagMoves ==
    /\ pc \notin {"installed", "failed"} /\ tag' \in Digests \ {tag}
    /\ UNCHANGED <<world, pc, cancelled, local, remote, attempt, source, code, core, installed>>

Cancel ==
    /\ pc \notin {"installed", "failed"} /\ ~cancelled /\ cancelled' = TRUE
    /\ UNCHANGED <<world, tag, pc, local, remote, attempt, source, code, core, installed>>

Next ==
    \/ Begin \/ InspectLocal \/ InspectRemote
    \/ SelectLocalRef \/ SelectGivenDigest \/ SelectTag \/ SelectToVerify
    \/ Verified \/ VerifyFails
    \/ \E found \in NetworkCodes \cup {"answers"} : ProbeReturns(found)
    \/ ReadCoreFlatpaks \/ CoreRefused \/ Install \/ TagMoves \/ Cancel

Spec == Init /\ [][Next]_vars

-----------------------------------------------------------------------------
Sources == [ref : Digests \cup {"tag", "local", "malformed"}, labels : Digests \cup {None}]

TypeOK ==
    /\ tag \in Digests /\ copy \in Digests \cup {None} /\ signed \subseteq Digests
    /\ cancelled \in BOOLEAN /\ attempt \in 0..Attempts
    /\ source \in Sources \cup {None}
    /\ {core, installed} \subseteq Digests \cup {None}
    /\ pc \in {"begin", "local", "remote", "select", "verify", "probe", "core",
               "install", "installed", "failed"}
    /\ code \in NetworkCodes \cup {"none", "step_failed", "image_verify_failed",
                                   "core_label_unreadable", "core_label_invalid"}

(* An install whose recipe carries a key deploys an image that key signed, *)
(* wherever the tag has moved since ("resolving before verification closes *)
(* the tag-movement race").                                                *)
OnlySignedIsInstalled == recipe.key /\ installed # None => installed \in signed

(* A core flatpak set that was asked for is known, and the deployed        *)
(* image's own when a digest pins it (ADR-0020's consequences; a tag whose *)
(* source reports no digest, or a local reference, leaves a race).         *)
CoreSetIsInstalledImages ==
    installed # None /\ recipe.core =>
       core # None /\ (source.ref \in Digests => core = installed)

(* A network diagnosis is never given to a cancelled check, to one whose   *)
(* registry skopeo had reached, or for a local reference.                  *)
NoFalseNetworkVerdict ==
    [][code' \in NetworkCodes =>
          ~cancelled /\ ~Reached /\ IsRegistryRef(recipe.ref)]_code

=============================================================================
