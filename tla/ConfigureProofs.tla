--------------------------- MODULE ConfigureProofs ---------------------------
(***************************************************************************)
(* Proofs about Configure, for any apps and groups, any size of the tree   *)
(* and any capacity of the pipes.  First the copy by itself: InTransit     *)
(* says where the chunks are, an equation as long as the extractor runs,   *)
(* since only a dead extractor loses any.  Then the two steps: what each   *)
(* label of pc says of the apps and of the account.                        *)
(***************************************************************************)
EXTENDS Configure, TLAPS

Held(go) == IF go = "write" THEN 1 ELSE 0

InTransit == outPipe + Held(outGo) + Held(inGo) + inPipe

(* No chunk is lost before the extractor has exited.                       *)
NoneLost == tarX = "run" => sent = got + InTransit

(* A producer that ended well has written everything.                      *)
AllSent == tarC = "ok" => sent = Chunks

(* The io.Pipe is closed when the producer's goroutine is through.         *)
Closed ==
    /\ ioPipe # "open" => outGo = "done" /\ tarC # "run"
    /\ outGo = "done" => outPipe = 0 /\ tarC # "run"
    /\ ioPipe = "eof" => tarC = "ok"
    /\ ioPipe = "error" => tarC = "bad"
    /\ inGo = "done" /\ tarX = "run" => ioPipe # "open"

(* A good exit without the whole tree follows a producer's bad one.        *)
GoodExit == tarX = "ok" => got = Chunks \/ tarC = "bad"

PipeInv == PipeTypeOK /\ NoneLost /\ AllSent /\ Closed /\ GoodExit

USE PipeAssumption

LEMMA PipeInvInit == PipeInit => PipeInv
BY DEF PipeInit, PipeInv, PipeTypeOK, NoneLost, AllSent, Closed, GoodExit, InTransit, Held

LEMMA PipeInvStep == PipeInv /\ [PipeNext \/ KillBoth]_pipeVars => PipeInv'
<1> SUFFICES ASSUME PipeInv, [PipeNext \/ KillBoth]_pipeVars
             PROVE  PipeInv'
  OBVIOUS
<1> USE DEF PipeInv, PipeTypeOK, NoneLost, AllSent, Closed, GoodExit, InTransit, Held
<1>1. CASE Produce
  BY <1>1 DEF Produce
<1>2. CASE ProducerExits
  BY <1>2 DEF ProducerExits
<1>3. CASE ProducerFails
  BY <1>3 DEF ProducerFails
<1>4. CASE OutReads
  BY <1>4 DEF OutReads
<1>5. CASE Meet
  BY <1>5 DEF Meet
<1>6. CASE ClosePipe
  BY <1>6 DEF ClosePipe, Produced
<1>7. CASE InReads
  BY <1>7 DEF InReads
<1>8. CASE InWrites
  BY <1>8 DEF InWrites
<1>9. CASE Extract
  BY <1>9 DEF Extract
<1>10. CASE ExtractorExits
  BY <1>10 DEF ExtractorExits
<1>11. CASE ExtractorFails
  BY <1>11 DEF ExtractorFails
<1>12. CASE KillBoth
  BY <1>12 DEF KillBoth
<1>13. CASE UNCHANGED pipeVars
  BY <1>13 DEF pipeVars
<1> QED
  BY <1>1, <1>2, <1>3, <1>4, <1>5, <1>6, <1>7, <1>8, <1>9, <1>10, <1>11, <1>12, <1>13
     DEF PipeNext, PipeFlows

(* A copy that reports no error has unpacked the whole tree.               *)
LEMMA PipeInvWhole == PipeInv => WholeTree
BY DEF PipeInv, GoodExit, WholeTree, CopySucceeded

(* The copy that reports no error has unpacked the whole tree, whatever    *)
(* exits, fails or is killed on the way.                                   *)
THEOREM WholeTreeCopied == PipeSpec => []WholeTree
BY PipeInvWhole, PipeInvInit, PipeInvStep, PTL DEF PipeSpec

-----------------------------------------------------------------------------
(* The flatpaks step.                                                      *)
Probing  == {"apps", "mkdir", "list", "promote", "measure"}
InPlace  == {"list", "promote", "measure", "copy", "remainder", "download"}
Finished == {"hostname", "user", "useradd", "relocate", "snippet", "password", "warn",
             "userKey", "home", "append", "chown", "rootKey", "regional", "timezone", "unlink",
             "link", "keyboard", "done"}
Labels   == Probing \cup InPlace \cup {"report", "failed"} \cup Finished

AppTypes ==
    /\ markers \in {{"state/deploy"}, {"state/deploy", "ostree"}, {"ostree"}}
    /\ wanted \subseteq Apps /\ system \subseteq Apps /\ user \subseteq Apps
    /\ todo \subseteq Apps /\ unreachable \subseteq Apps /\ reported \subseteq Apps
    /\ dst \in Vars \cup {"none"} /\ there \in [Vars -> SUBSET Apps]
    /\ pc \in Labels

FlagTypes == tree \in BOOLEAN /\ cancelled \in BOOLEAN /\ measured \in BOOLEAN

(* The directory that was made is the right one: a probe that was cut      *)
(* short names another, but then the mkdir fails.                          *)
Placed == (pc \in InPlace => dst = BootVar) /\ AppsBoot

(* Where the wanted apps are while the step is on its way.                 *)
Accounted ==
    /\ system # {} => tree
    /\ pc \in Probing => ~measured
    /\ pc = "remainder" /\ (tree => measured) => system \subseteq there[BootVar]
    /\ pc = "download" /\ (tree => measured) => wanted \subseteq there[BootVar] \cup unreachable \cup todo
    /\ pc = "report" /\ (tree => measured) => wanted \subseteq there[BootVar] \cup unreachable
    /\ AppsAccountedFor

ProvisionInv == AppTypes /\ FlagTypes /\ Placed /\ Accounted

-----------------------------------------------------------------------------
(* The sysconfig step.                                                     *)
UserHome(withKey) == [owner |-> "user", skel |-> skel, key |-> withKey]

AccessTypes ==
    /\ recipe \in [user: BOOLEAN, password: BOOLEAN, userKey: BOOLEAN, rootKey: BOOLEAN,
                   groups: SUBSET Groups, regional: SUBSET Settings]
    /\ known \subseteq Groups /\ skel \in BOOLEAN
    /\ account \in [user: BOOLEAN, password: BOOLEAN, groups: SUBSET Groups]
    /\ missing \subseteq Groups /\ warned \subseteq Groups
    /\ deployHome \in [owner: {"none", "root", "user"}, skel: BOOLEAN, key: BOOLEAN]
    /\ stateHome \in [owner: {"none", "root", "user"}, skel: BOOLEAN, key: BOOLEAN]
    /\ snippet \in BOOLEAN /\ rootKeyIn \in Vars \cup {"none"}
    /\ etc \subseteq Files

(* The account, from the moment there is one.                              *)
WithPassword == {"password", "warn", "userKey", "home", "append", "chown"}

HasAccount ==
    /\ pc \in {"useradd", "relocate", "snippet"} \cup WithPassword => recipe.user
    /\ pc \in {"relocate", "snippet"} \cup WithPassword =>
          account.user /\ recipe.groups \subseteq account.groups \cup missing
    /\ pc \in WithPassword \ {"password"} => (recipe.password => account.password)
    /\ pc \in {"userKey", "home", "append", "chown"} => missing \subseteq warned
    /\ pc \in WithPassword => snippet

(* The home: useradd's, or none until the first boot, or firn's own.       *)
HasHome ==
    /\ pc = "relocate" => deployHome \in {NoHome, UserHome(FALSE)} /\ stateHome = NoHome
    /\ pc \in {"snippet", "password", "warn", "userKey"} => stateHome \in {NoHome, UserHome(FALSE)}
    /\ pc = "home" => stateHome = NoHome /\ recipe.userKey
    /\ pc = "append" => stateHome.skel = skel /\ stateHome.owner # "none" /\ recipe.userKey
    /\ pc = "chown" => stateHome.skel = skel /\ stateHome.key /\ recipe.userKey
    /\ pc \in Probing \cup InPlace \cup {"report", "hostname", "user", "useradd"} => stateHome = NoHome

(* What the step leaves behind, from the moment it is done with each.      *)
Settled == {"regional", "timezone", "unlink", "link", "keyboard", "done"}

HasAccess ==
    /\ pc \in {"rootKey"} \cup Settled /\ recipe.user =>
          /\ account.user /\ (recipe.password => account.password)
          /\ HomeAtBoot = UserHome(recipe.userKey)
          /\ recipe.groups \subseteq account.groups \cup warned
    /\ pc \in Settled => (recipe.rootKey => rootKeyIn = BootVar)

USE DEF Settled

AccessInv == AccessTypes /\ HasAccount /\ HasHome /\ HasAccess

IInv == PipeInv /\ ProvisionInv /\ AccessInv

-----------------------------------------------------------------------------
(* The initial states.                                                     *)
LEMMA InitHolds == Init => IInv
<1> SUFFICES ASSUME Init PROVE IInv
  OBVIOUS
<1>1. PipeInv
  BY PipeInvInit DEF Init, FlatpaksInit
<1>2. AppTypes /\ FlagTypes
  BY DEF Init, FlatpaksInit, AppTypes, FlagTypes, Labels, Probing, InPlace, Finished
<1>3. Placed /\ Accounted
  BY DEF Init, FlatpaksInit, Placed, Accounted, AppsBoot, AppsAccountedFor, Probing, InPlace
<1>4. AccessTypes
  BY DEF Init, SysconfigInit, AccessTypes, NoHome, Files
<1>5. HasAccount /\ HasHome /\ HasAccess
  BY DEF Init, FlatpaksInit, SysconfigInit, HasAccount, WithPassword, HasHome, HasAccess
<1> QED BY <1>1, <1>2, <1>3, <1>4, <1>5 DEF IInv, ProvisionInv, AccessInv

(* What the provisioning does to the apps keeps their types.               *)
LEMMA ProvisionTypes ==
    ASSUME AppTypes, FlagTypes, ProvisionSteps
    PROVE  AppTypes' /\ FlagTypes'
<1> USE DEF AppTypes, FlagTypes, medium, Goto, Labels, Probing, InPlace, Finished
<1>1. CASE RunFlatpaks
  BY <1>1 DEF RunFlatpaks, fpVars
<1>2. CASE MakeDir
  <2>1. targetFlatpakDir \in Vars
    BY DEF targetFlatpakDir, Vars
  <2> QED BY <1>2, <2>1 DEF MakeDir
<1>3. CASE ListMedium
  BY <1>3 DEF ListMedium, Listings
<1>4. CASE Promote
  BY <1>4 DEF Promote, Succeeds
<1>5. CASE Measure
  BY <1>5 DEF Measure, Succeeds
<1>6. CASE Flow
  BY <1>6 DEF Flow, fpVars
<1>7. CASE CopyReturns
  <2>1. there' \in [Vars -> SUBSET Apps]
    BY <1>7 DEF CopyReturns
  <2> QED BY <1>7, <2>1 DEF CopyReturns
<1>8. CASE Remainder
  BY <1>8 DEF Remainder, Listings
<1>9. CASE Download
  <2>1. there' \in [Vars -> SUBSET Apps] /\ todo' \subseteq Apps /\ unreachable' \subseteq Apps
    BY <1>9 DEF Download
  <2> QED BY <1>9, <2>1 DEF Download
<1>10. CASE Report
  BY <1>10 DEF Report
<1> QED BY <1>1, <1>2, <1>3, <1>4, <1>5, <1>6, <1>7, <1>8, <1>9, <1>10 DEF ProvisionSteps

(* The directory that is made is the one the system will boot from.        *)
LEMMA MakesBootVar ==
    ASSUME AppTypes, Succeeds
    PROVE  targetFlatpakDir = BootVar
BY DEF AppTypes, Succeeds, targetFlatpakDir, Ls, BootVar

(* Nothing is put anywhere else.                                           *)
LEMMA ProvisionPlaces ==
    ASSUME AppTypes, Placed, ProvisionSteps
    PROVE  Placed'
<1> USE DEF Placed, AppsBoot, BootVar, medium, Goto, InPlace
<1>1. CASE MakeDir
  <2>1. pc' \in InPlace => dst' = BootVar
    BY <1>1, MakesBootVar DEF MakeDir
  <2> QED BY <1>1, <2>1 DEF MakeDir
<1>2. CASE CopyReturns
  BY <1>2 DEF CopyReturns, AppTypes
<1>3. CASE Download
  BY <1>3 DEF Download, AppTypes
<1>4. CASE RunFlatpaks \/ ListMedium \/ Promote \/ Measure \/ Flow \/ Remainder \/ Report
  BY <1>4 DEF RunFlatpaks, ListMedium, Promote, Measure, Flow, Remainder, Report, fpVars
<1> QED BY <1>1, <1>2, <1>3, <1>4 DEF ProvisionSteps

(* No wanted app is lost on the way.                                       *)
LEMMA ProvisionAccounts ==
    ASSUME AppTypes, FlagTypes, Placed, Accounted, ProvisionSteps
    PROVE  Accounted'
<1> USE DEF Accounted, AppsAccountedFor, BootVar, medium, Goto, Probing
<1>1. CASE RunFlatpaks
  BY <1>1 DEF RunFlatpaks, fpVars
<1>2. CASE MakeDir
  BY <1>2 DEF MakeDir
<1>3. CASE ListMedium
  BY <1>3 DEF ListMedium
<1>4. CASE Promote
  BY <1>4 DEF Promote
<1>5. CASE Measure
  BY <1>5 DEF Measure, FlagTypes
<1>6. CASE Flow
  BY <1>6 DEF Flow, fpVars
<1>7. CASE CopyReturns
  <2>1. dst = BootVar /\ BootVar \in Vars /\ there \in [Vars -> SUBSET Apps]
    BY <1>7 DEF CopyReturns, Placed, InPlace, AppTypes, Vars
  <2>2. pc' = "remainder" => system \subseteq there'[BootVar]
    BY <1>7, <2>1 DEF CopyReturns
  <2> QED BY <1>7, <2>2 DEF CopyReturns
<1>8. CASE Remainder
  BY <1>8 DEF Remainder, Listings
<1>9. CASE Download
  <2>1. dst = BootVar /\ BootVar \in Vars /\ there \in [Vars -> SUBSET Apps]
    BY <1>9 DEF Download, Placed, InPlace, AppTypes, Vars
  <2>2. there[BootVar] \cup unreachable \cup todo \subseteq there'[BootVar] \cup unreachable' \cup todo'
    BY <1>9, <2>1 DEF Download
  <2>3. pc' = "download" \/ (pc' = "report" /\ todo' = {})
    BY <1>9 DEF Download
  <2>4. UNCHANGED <<markers, wanted, system, tree, measured>>
    BY <1>9 DEF Download
  <2>5. pc = "download"
    BY <1>9 DEF Download
  <2> QED BY <2>2, <2>3, <2>4, <2>5
<1>10. CASE Report
  BY <1>10 DEF Report
<1> QED BY <1>1, <1>2, <1>3, <1>4, <1>5, <1>6, <1>7, <1>8, <1>9, <1>10 DEF ProvisionSteps

(* Provisioning keeps its invariant.                                       *)
LEMMA ProvisionKeeps == ProvisionInv /\ ProvisionSteps => ProvisionInv'
BY ProvisionTypes, ProvisionPlaces, ProvisionAccounts DEF ProvisionInv

(* So does everything that leaves the apps alone: the account's            *)
(* operations, a tar that fails, a cancellation.                           *)
LEMMA OthersKeepProvision ==
    ASSUME ProvisionInv, UNCHANGED <<markers, wanted, system, user, tree, dst, there, measured, todo,
                                     unreachable, reported>>,
           cancelled' \in BOOLEAN,
           pc' = pc \/ (pc \in Finished /\ pc' \in Finished \cup {"failed"})
    PROVE  ProvisionInv'
<1>1. AppTypes' /\ FlagTypes'
  BY DEF ProvisionInv, AppTypes, FlagTypes, Labels
<1>2. Placed'
  BY DEF ProvisionInv, Placed, AppsBoot, BootVar, InPlace, Finished
<1>3. Accounted'
  BY DEF ProvisionInv, Accounted, AppsAccountedFor, BootVar, Probing, Finished
<1> QED BY <1>1, <1>2, <1>3 DEF ProvisionInv

(* The account's operations move pc among their own labels.                *)
LEMMA SysconfigMoves ==
    ASSUME SysconfigSteps
    PROVE  Provision /\ pc \in Finished /\ pc' \in Finished \cup {"failed"}
<1> USE DEF Fails, Goto, Finished
<1>1. CASE WriteHostname
  BY <1>1 DEF WriteHostname
<1>2. CASE FilterGroups
  BY <1>2 DEF FilterGroups
<1>3. CASE Useradd
  BY <1>3 DEF Useradd
<1>4. CASE Relocate
  BY <1>4 DEF Relocate
<1>5. CASE WriteHomeTmpfiles
  BY <1>5 DEF WriteHomeTmpfiles
<1>6. CASE SetPassword
  BY <1>6 DEF SetPassword
<1>7. CASE WarnGroup
  BY <1>7 DEF WarnGroup
<1>8. CASE FindHome
  BY <1>8 DEF FindHome
<1>9. CASE MakeHome
  BY <1>9 DEF MakeHome
<1>10. CASE AppendUserKey
  BY <1>10 DEF AppendUserKey
<1>11. CASE Chown
  BY <1>11 DEF Chown
<1>12. CASE WriteRootKey
  BY <1>12 DEF WriteRootKey
<1>13. CASE WriteRegional
  BY <1>13 DEF WriteRegional, Regional
<1> QED BY <1>1, <1>2, <1>3, <1>4, <1>5, <1>6, <1>7, <1>8, <1>9, <1>10, <1>11, <1>12, <1>13 DEF SysconfigSteps

-----------------------------------------------------------------------------
(* Nothing is done for the account before its turn.                        *)
LEMMA OthersKeepAccess ==
    ASSUME AccessInv, UNCHANGED scVars, UNCHANGED markers,
           pc' = pc \/ (pc \in Probing \cup InPlace \cup {"report"}
                        /\ pc' \in Probing \cup InPlace \cup {"report", "hostname", "failed"})
    PROVE  AccessInv'
<1>1. AccessTypes'
  BY DEF AccessInv, AccessTypes, scVars
<1>2. HasAccount' /\ HasHome' /\ HasAccess'
  <2>1. CASE pc' = pc
    BY <2>1 DEF AccessInv, HasAccount, WithPassword, HasHome, HasAccess, HomeAtBoot, UserHome, BootVar, scVars
  <2> QED BY <2>1 DEF AccessInv, HasAccount, WithPassword, HasHome, HasAccess, scVars, Probing, InPlace
<1> QED BY <1>1, <1>2 DEF AccessInv

-----------------------------------------------------------------------------
(* What the account's operations write keeps its types.                    *)
LEMMA AccessKeepsTypes ==
    ASSUME AccessTypes, SysconfigSteps
    PROVE  AccessTypes'
<1> USE DEF AccessTypes, Inputs, Fails, scVars
<1>1. CASE WriteHostname
  BY <1>1 DEF WriteHostname, Files
<1>2. CASE FilterGroups
  BY <1>2 DEF FilterGroups
<1>3. CASE Useradd
  <2>1. CASE pc' = "failed"
    <3>1. UNCHANGED scVars
      BY <1>3, <2>1 DEF Useradd, Goto
    <3> QED BY <3>1
  <2>2. CASE pc' = "relocate"
    <3>1. /\ account' = [account EXCEPT !.user = TRUE, !.groups = recipe.groups \ missing]
          /\ UNCHANGED <<recipe, known, skel, missing, warned, stateHome, snippet, rootKeyIn, etc>>
          /\ deployHome' \in {NoHome, UserHome(FALSE)}
      BY <1>3, <2>2 DEF Useradd, Goto, UserHome
    <3>2. account' \in [user: BOOLEAN, password: BOOLEAN, groups: SUBSET Groups]
      <4>1. recipe.groups \ missing \subseteq Groups
        OBVIOUS
      <4> QED BY <3>1, <4>1
    <3>3. deployHome' \in [owner: {"none", "root", "user"}, skel: BOOLEAN, key: BOOLEAN]
      <4>1. NoHome \in [owner: {"none", "root", "user"}, skel: BOOLEAN, key: BOOLEAN]
        BY DEF NoHome
      <4>2. UserHome(FALSE) \in [owner: {"none", "root", "user"}, skel: BOOLEAN, key: BOOLEAN]
        BY DEF UserHome
      <4>3. deployHome' = NoHome \/ deployHome' = UserHome(FALSE)
        BY <3>1
      <4> QED BY <4>1, <4>2, <4>3
    <3> QED BY <3>1, <3>2, <3>3
  <2> QED BY <1>3, <2>1, <2>2 DEF Useradd, Goto
<1>4. CASE Relocate
  <2>1. /\ UNCHANGED <<recipe, known, skel, account, missing, warned, snippet, rootKeyIn, etc>>
        /\ stateHome' \in {stateHome, deployHome} /\ deployHome' \in {deployHome, NoHome}
    BY <1>4 DEF Relocate
  <2>2. NoHome \in [owner: {"none", "root", "user"}, skel: BOOLEAN, key: BOOLEAN]
    BY DEF NoHome
  <2> QED BY <2>1, <2>2
<1>5. CASE WriteHomeTmpfiles
  BY <1>5 DEF WriteHomeTmpfiles
<1>6. CASE SetPassword
  BY <1>6 DEF SetPassword
<1>7. CASE WarnGroup
  BY <1>7 DEF WarnGroup
<1>8. CASE FindHome
  BY <1>8 DEF FindHome
<1>9. CASE MakeHome
  <2>1. /\ UNCHANGED <<recipe, known, skel, account, missing, warned, deployHome, snippet, rootKeyIn, etc>>
        /\ stateHome' = stateHome \/ stateHome' = [owner |-> "root", skel |-> skel, key |-> FALSE]
    BY <1>9 DEF MakeHome
  <2>2. [owner |-> "root", skel |-> skel, key |-> FALSE]
           \in [owner: {"none", "root", "user"}, skel: BOOLEAN, key: BOOLEAN]
    OBVIOUS
  <2>3. stateHome' \in [owner: {"none", "root", "user"}, skel: BOOLEAN, key: BOOLEAN]
    BY <2>1, <2>2
  <2> QED BY <2>1, <2>3
<1>10. CASE AppendUserKey
  BY <1>10 DEF AppendUserKey
<1>11. CASE Chown
  BY <1>11 DEF Chown
<1>12. CASE WriteRootKey
  <2>1. staterootVarDir \in Vars
    BY DEF staterootVarDir, Vars
  <2> QED BY <1>12, <2>1 DEF WriteRootKey
<1>13. CASE WriteRegional
  BY <1>13 DEF WriteRegional, Regional, Files
<1> QED BY <1>1, <1>2, <1>3, <1>4, <1>5, <1>6, <1>7, <1>8, <1>9, <1>10, <1>11, <1>12, <1>13
        DEF SysconfigSteps

(* Root's home is in the /var the system boots with, also when the probe   *)
(* of the layout was cut short.                                            *)
LEMMA ResolvesBootVar ==
    ASSUME AppTypes, Resolves
    PROVE  staterootVarDir = BootVar
BY DEF AppTypes, Resolves, Composefs, staterootVarDir, Ls, BootVar

(* From the password on, the account has what came before.                 *)
LEMMA AccessKeepsAccount ==
    ASSUME AccessTypes, HasAccount, SysconfigSteps
    PROVE  HasAccount'
<1> USE DEF HasAccount, WithPassword, Inputs, Fails, scVars, Goto
<1>1. CASE WriteHostname
  BY <1>1 DEF WriteHostname
<1>2. CASE FilterGroups
  BY <1>2 DEF FilterGroups
<1>3. CASE Useradd
  <2>1. CASE pc' = "failed"
    BY <2>1
  <2>2. CASE pc' = "relocate"
    <3>1. /\ account' = [account EXCEPT !.user = TRUE, !.groups = recipe.groups \ missing]
          /\ UNCHANGED <<Inputs, missing>> /\ pc = "useradd"
      BY <1>3, <2>2 DEF Useradd
    <3>2. account'.user /\ account'.groups = recipe.groups \ missing
      BY <3>1 DEF AccessTypes
    <3>3. recipe.user /\ recipe' = recipe /\ missing' = missing
      BY <3>1
    <3> QED BY <2>2, <3>2, <3>3
  <2> QED BY <1>3, <2>1, <2>2 DEF Useradd
<1>4. CASE Relocate
  BY <1>4 DEF Relocate
<1>5. CASE WriteHomeTmpfiles
  BY <1>5 DEF WriteHomeTmpfiles
<1>6. CASE SetPassword
  <2>1. CASE recipe.password /\ Goto("warn") /\ account' = [account EXCEPT !.password = TRUE]
    <3>1. account'.password /\ account'.user = account.user /\ account'.groups = account.groups
      BY <2>1 DEF AccessTypes
    <3>2. UNCHANGED <<recipe, missing, snippet>> /\ pc = "password"
      BY <1>6, <2>1 DEF SetPassword
    <3> QED BY <2>1, <3>1, <3>2
  <2>2. CASE ~recipe.password /\ Goto("warn") /\ UNCHANGED scVars
    BY <1>6, <2>2 DEF SetPassword
  <2>3. CASE Goto("failed")
    BY <2>3
  <2> QED BY <1>6, <2>1, <2>2, <2>3 DEF SetPassword
<1>7. CASE WarnGroup
  <2>1. pc = "warn" /\ UNCHANGED <<recipe, account, missing, snippet>>
    BY <1>7 DEF WarnGroup
  <2>2. pc' = "userKey" => missing \subseteq warned'
    BY <1>7 DEF WarnGroup
  <2>3. pc' \in {"warn", "userKey", "failed"}
    BY <1>7 DEF WarnGroup
  <2> QED BY <2>1, <2>2, <2>3
<1>8. CASE FindHome
  BY <1>8 DEF FindHome
<1>9. CASE MakeHome \/ AppendUserKey
  <2>1. /\ pc \in {"home", "append"} /\ pc' \in {"append", "chown", "failed"}
        /\ UNCHANGED <<recipe, account, missing, warned, snippet>>
    BY <1>9 DEF MakeHome, AppendUserKey
  <2> QED BY <2>1
<1>10. CASE Chown \/ WriteRootKey \/ WriteRegional
  BY <1>10 DEF Chown, WriteRootKey, WriteRegional, Regional
<1> QED BY <1>1, <1>2, <1>3, <1>4, <1>5, <1>6, <1>7, <1>8, <1>9, <1>10 DEF SysconfigSteps

(* The home goes from none or useradd's to one with the key.               *)
LEMMA AccessKeepsHome ==
    ASSUME AccessTypes, HasAccount, HasHome, SysconfigSteps
    PROVE  HasHome'
<1> USE DEF HasHome, UserHome, Inputs, Fails, scVars, Goto, Probing, InPlace
<1>1. CASE WriteHostname
  BY <1>1 DEF WriteHostname
<1>2. CASE FilterGroups
  BY <1>2 DEF FilterGroups
<1>3. CASE Useradd
  BY <1>3 DEF Useradd
<1>4. CASE Relocate
  BY <1>4 DEF Relocate
<1>5. CASE WriteHomeTmpfiles
  BY <1>5 DEF WriteHomeTmpfiles
<1>6. CASE SetPassword
  BY <1>6 DEF SetPassword
<1>7. CASE WarnGroup
  BY <1>7 DEF WarnGroup
<1>8. CASE FindHome
  BY <1>8 DEF FindHome, NoHome
<1>9. CASE MakeHome
  <2>1. CASE pc' = "append"
    <3>1. stateHome'.skel = skel' /\ stateHome'.owner = "root"
      BY <1>9, <2>1 DEF MakeHome
    <3>2. recipe'.userKey
      BY <1>9, <2>1 DEF MakeHome
    <3> QED BY <2>1, <3>1, <3>2
  <2> QED BY <1>9, <2>1 DEF MakeHome
<1>10. CASE AppendUserKey
  <2>1. CASE pc' = "chown"
    <3>1. stateHome' = [stateHome EXCEPT !.key = TRUE] /\ UNCHANGED <<recipe, skel>> /\ pc = "append"
      BY <1>10, <2>1 DEF AppendUserKey
    <3>2. stateHome'.skel = stateHome.skel /\ stateHome'.key
      BY <3>1 DEF AccessTypes
    <3> QED BY <2>1, <3>1, <3>2
  <2> QED BY <1>10, <2>1 DEF AppendUserKey
<1>11. CASE Chown
  BY <1>11 DEF Chown
<1>12. CASE WriteRootKey \/ WriteRegional
  BY <1>12 DEF WriteRootKey, WriteRegional, Regional
<1> QED BY <1>1, <1>2, <1>3, <1>4, <1>5, <1>6, <1>7, <1>8, <1>9, <1>10, <1>11, <1>12 DEF SysconfigSteps

(* A home without a key is the first boot's or useradd's.                  *)
LEMMA BootsWithHome ==
    ASSUME AccessTypes, snippet, stateHome \in {NoHome, UserHome(FALSE)}
    PROVE  HomeAtBoot = UserHome(FALSE)
BY DEF HomeAtBoot, UserHome

(* What was asked for is there when the last operation is through.         *)
LEMMA AccessKeepsAccess ==
    ASSUME AppTypes, AccessInv, SysconfigSteps, UNCHANGED markers
    PROVE  HasAccess'
<1> USE DEF HasAccess, AccessInv, Inputs, Fails, scVars, Goto
<1> DEFINE Asked == /\ account.user /\ (recipe.password => account.password)
                    /\ HomeAtBoot = UserHome(recipe.userKey)
                    /\ recipe.groups \subseteq account.groups \cup warned
<1>1. CASE FilterGroups
  BY <1>1 DEF FilterGroups
<1>2. CASE FindHome
  <2>1. CASE pc' = "rootKey"
    <3>1. ~recipe.userKey /\ UNCHANGED scVars /\ pc = "userKey"
      BY <1>2, <2>1 DEF FindHome
    <3>2. HomeAtBoot = UserHome(FALSE)
      BY <3>1, BootsWithHome DEF HasHome, HasAccount, WithPassword
    <3>3. recipe.userKey = FALSE
      BY <3>1 DEF AccessTypes
    <3>4. Asked
      BY <3>1, <3>2, <3>3 DEF HasAccount, WithPassword
    <3> QED BY <2>1, <3>1, <3>4 DEF HomeAtBoot, UserHome
  <2> QED BY <1>2, <2>1 DEF FindHome
<1>3. CASE Chown
  <2>1. CASE pc' = "rootKey"
    <3>1. /\ stateHome' = [stateHome EXCEPT !.owner = "user"] /\ pc = "chown"
          /\ UNCHANGED <<recipe, skel, account, missing, warned>>
      BY <1>3, <2>1 DEF Chown
    <3>2. stateHome'.owner = "user" /\ stateHome'.skel = stateHome.skel /\ stateHome'.key = stateHome.key
          /\ stateHome' \in [owner: {"none", "root", "user"}, skel: BOOLEAN, key: BOOLEAN]
      BY <3>1 DEF AccessTypes
    <3>3. stateHome.skel = skel /\ stateHome.key = TRUE /\ recipe.userKey = TRUE
      BY <3>1 DEF HasHome, AccessTypes
    <3>4. stateHome' = [owner |-> "user", skel |-> skel', key |-> recipe'.userKey]
      BY <3>1, <3>2, <3>3
    <3>5. HomeAtBoot' = UserHome(recipe.userKey)'
      BY <3>2, <3>4 DEF HomeAtBoot, UserHome, NoHome
    <3> QED BY <2>1, <3>1, <3>5 DEF HasAccount, WithPassword
  <2> QED BY <1>3, <2>1 DEF Chown
<1>4. CASE WriteRootKey
  <2>1. CASE pc' = "regional"
    <3>1. pc = "rootKey" /\ UNCHANGED <<recipe, skel, account, warned, stateHome, snippet>>
      BY <1>4, <2>1 DEF WriteRootKey
    <3>2. recipe.rootKey => rootKeyIn' = BootVar
      BY <1>4, <2>1, ResolvesBootVar DEF WriteRootKey
    <3> QED BY <2>1, <3>1, <3>2 DEF HomeAtBoot, UserHome, BootVar
  <2> QED BY <1>4, <2>1 DEF WriteRootKey
<1>5. CASE WriteRegional
  <2>1. /\ pc \in Settled
        /\ pc' = "failed" \/ UNCHANGED <<recipe, skel, account, warned, stateHome, snippet, rootKeyIn>>
    BY <1>5 DEF WriteRegional, Regional
  <2>2. CASE pc' = "failed"
    BY <2>2
  <2>3. CASE UNCHANGED <<recipe, skel, account, warned, stateHome, snippet, rootKeyIn>>
    <3>1. HomeAtBoot' = HomeAtBoot /\ BootVar' = BootVar /\ UserHome(recipe.userKey)' = UserHome(recipe.userKey)
      BY <2>3 DEF HomeAtBoot, UserHome, BootVar
    <3>2. recipe.rootKey => rootKeyIn' = BootVar'
      BY <2>1, <2>3, <3>1
    <3>3. recipe.user => /\ account.user /\ (recipe.password => account.password)
                         /\ HomeAtBoot = UserHome(recipe.userKey)
                         /\ recipe.groups \subseteq account.groups \cup warned
      BY <2>1
    <3> QED BY <2>3, <3>1, <3>2, <3>3
  <2> QED BY <2>1, <2>2, <2>3
<1>6. CASE \/ WriteHostname \/ Useradd \/ Relocate \/ WriteHomeTmpfiles \/ SetPassword \/ WarnGroup
           \/ MakeHome \/ AppendUserKey
  <2>1. pc' \notin {"rootKey"} \cup Settled
    BY <1>6 DEF WriteHostname, Useradd, Relocate, WriteHomeTmpfiles, SetPassword, WarnGroup, MakeHome,
                AppendUserKey
  <2> QED BY <2>1
<1> QED BY <1>1, <1>2, <1>3, <1>4, <1>5, <1>6 DEF SysconfigSteps

-----------------------------------------------------------------------------
(* Every step keeps the invariant.                                         *)
LEMMA Inductive == IInv /\ [Next]_vars => IInv'
<1> SUFFICES ASSUME IInv, [Next]_vars PROVE IInv'
  OBVIOUS
<1>1. CASE (ProvisionSteps \/ TarFails \/ Cancel) /\ UNCHANGED scVars
  <2>1. PipeInv'
    <3>1. [PipeNext \/ KillBoth]_pipeVars
      BY <1>1 DEF ProvisionSteps, RunFlatpaks, MakeDir, ListMedium, Promote, Measure, Flow, CopyReturns,
                  Remainder, Download, Report, TarFails, Cancel, PipeNext
    <3> QED BY <3>1, PipeInvStep DEF IInv
  <2>2. CASE ProvisionSteps
    <3>1. /\ pc \in Probing \cup InPlace \cup {"report"}
          /\ pc' \in Probing \cup InPlace \cup {"report", "hostname", "failed"}
          /\ UNCHANGED markers
      BY <2>2 DEF ProvisionSteps, RunFlatpaks, MakeDir, ListMedium, Promote, Measure, Flow, CopyReturns,
                  Remainder, Download, Report, Goto, Probing, InPlace, fpVars
    <3>2. ProvisionInv'
      BY <2>2, ProvisionKeeps DEF IInv
    <3>3. AccessInv'
      BY <1>1, <3>1, OthersKeepAccess DEF IInv
    <3> QED BY <2>1, <3>2, <3>3 DEF IInv
  <2>3. CASE TarFails \/ Cancel
    <3>1. /\ pc' = pc /\ (cancelled' = cancelled \/ cancelled' = TRUE)
          /\ UNCHANGED <<markers, wanted, system, user, tree, dst, there, measured, todo, unreachable,
                         reported>>
      BY <2>3 DEF TarFails, Cancel, fpVars, medium
    <3>2. cancelled' \in BOOLEAN
      BY <3>1 DEF IInv, ProvisionInv, FlagTypes
    <3>3. ProvisionInv'
      BY <3>1, <3>2, OthersKeepProvision DEF IInv
    <3>4. AccessInv'
      BY <1>1, <3>1, OthersKeepAccess DEF IInv
    <3> QED BY <2>1, <3>3, <3>4 DEF IInv
  <2> QED BY <1>1, <2>2, <2>3
<1>2. CASE SysconfigSteps
  <2>1. Provision /\ pc \in Finished /\ pc' \in Finished \cup {"failed"}
    BY <1>2, SysconfigMoves
  <2>2. PipeInv'
    BY <2>1, PipeInvStep DEF Provision, IInv
  <2>3. /\ UNCHANGED <<markers, wanted, system, user, tree, dst, there, measured, todo, unreachable,
                       reported>>
        /\ cancelled' = cancelled
    BY <2>1 DEF Provision, fpVars, medium
  <2>4. cancelled' \in BOOLEAN
    BY <2>3 DEF IInv, ProvisionInv, FlagTypes
  <2>5. ProvisionInv'
    BY <2>1, <2>3, <2>4, OthersKeepProvision DEF IInv
  <2>6. AccessTypes' /\ HasAccount' /\ HasHome'
    BY <1>2, AccessKeepsTypes, AccessKeepsAccount, AccessKeepsHome DEF IInv, AccessInv
  <2>7. HasAccess'
    BY <1>2, <2>3, AccessKeepsAccess DEF IInv, ProvisionInv
  <2> QED BY <2>2, <2>5, <2>6, <2>7 DEF IInv, AccessInv
<1>3. CASE UNCHANGED vars
  <2>1. /\ UNCHANGED scVars /\ UNCHANGED pipeVars /\ pc' = pc /\ cancelled' = cancelled
        /\ UNCHANGED <<markers, wanted, system, user, tree, dst, there, measured, todo, unreachable,
                       reported>>
    BY <1>3 DEF vars, fpVars, medium
  <2>2. cancelled' \in BOOLEAN
    BY <2>1 DEF IInv, ProvisionInv, FlagTypes
  <2>3. PipeInv'
    BY <2>1, PipeInvStep DEF IInv
  <2>4. ProvisionInv'
    BY <2>1, <2>2, OthersKeepProvision DEF IInv
  <2>5. AccessInv'
    BY <2>1, OthersKeepAccess DEF IInv
  <2> QED BY <2>3, <2>4, <2>5 DEF IInv
<1> QED BY <1>1, <1>2, <1>3 DEF Next

(* So it holds throughout.                                                 *)
LEMMA Always == Spec => []IInv
BY InitHolds, Inductive, PTL DEF Spec

-----------------------------------------------------------------------------
(* The variables keep their types.                                         *)
THEOREM TypeCorrect == Spec => []TypeOK
<1>1. IInv => TypeOK
  <2> SUFFICES ASSUME IInv PROVE TypeOK
    OBVIOUS
  <2>1. FlatpaksTypeOK
    BY DEF IInv, PipeInv, ProvisionInv, AppTypes, FlagTypes, FlatpaksTypeOK
  <2>2. account.groups \subseteq Groups
    BY DEF IInv, AccessInv, AccessTypes
  <2> QED BY <2>1, <2>2 DEF IInv, AccessInv, AccessTypes, TypeOK
<1> QED BY <1>1, Always, PTL

(* Within the step, too, a copy without an error has unpacked the whole    *)
(* tree, whatever is cancelled.                                            *)
THEOREM StepCopiesWholeTree == Spec => []WholeTree
<1>1. IInv => WholeTree
  BY PipeInvWhole DEF IInv
<1> QED BY <1>1, Always, PTL

(* The apps land only where the installed system will look for them,       *)
(* whenever a cancellation cuts the probing of its layout short.           *)
THEOREM AppsLandWhereBooted == Spec => []AppsBoot
<1>1. IInv => AppsBoot
  BY DEF IInv, ProvisionInv, Placed
<1> QED BY <1>1, Always, PTL

(* No wanted app is silently dropped, however many promotions, listings    *)
(* and downloads fail.                                                     *)
THEOREM NoAppDropped == Spec => []AppsAccountedFor
<1>1. IInv => AppsAccountedFor
  BY DEF IInv, ProvisionInv, Accounted
<1> QED BY <1>1, Always, PTL

(* After a successful sysconfig the booted system has the account, the     *)
(* home, the keys and the groups that were asked for.                      *)
THEOREM AccessGranted == Spec => []AccessAsAsked
<1>1. IInv => AccessAsAsked
  BY DEF IInv, AccessInv, HasAccess, UserHome, AccessAsAsked
<1> QED BY <1>1, Always, PTL
=============================================================================
