------------------------------ MODULE Configure ------------------------------
(***************************************************************************)
(* The two steps that write into the installed system: flatpaks, then      *)
(* sysconfig, whose files go to the deployment's /etc and whose homes go   *)
(* to the /var the booted system mounts, which is not the deployment's     *)
(* own.  Every write may fail, and then the step does.                     *)
(***************************************************************************)
EXTENDS Flatpaks, Sequences

CONSTANT Groups

VARIABLES
    recipe,     \* [user, password, userKey, rootKey: BOOLEAN, groups, regional]
    known,      \* the groups in the image's /etc/group
    skel,       \* whether the image has an /etc/skel
    account,    \* what useradd and chpasswd have written: [user, password, groups]
    missing, warned,
    deployHome, stateHome, \* the user's home in the deployment's /var and in
                \* the system's: [owner, skel, key], owner "none" if absent
    snippet,    \* the tmpfiles.d line that creates a missing home at boot
    rootKeyIn,  \* the /var with root's key, or none
    etc         \* which of the step's files are in the deployment's /etc

scVars == <<recipe, known, skel, account, missing, warned, deployHome, stateHome,
            snippet, rootKeyIn, etc>>
vars == <<fpVars, pipeVars, pc, scVars>>

NoHome == [owner |-> "none", skel |-> FALSE, key |-> FALSE]

(* The regional settings, which are optional, and their files.             *)
Settings == {"locale", "timezone", "keyboard"}
Files    == {"hostname", "locale.conf", "timezone", "localtime", "keyboard"}

SysconfigInit ==
    /\ recipe \in [user: BOOLEAN, password: BOOLEAN, userKey: BOOLEAN, rootKey: BOOLEAN,
                   groups: SUBSET Groups, regional: SUBSET Settings]
    /\ known \in SUBSET Groups /\ skel \in BOOLEAN
    /\ account = [user |-> FALSE, password |-> FALSE, groups |-> {}]
    /\ missing = {} /\ warned = {} /\ deployHome = NoHome /\ stateHome = NoHome
    /\ snippet = FALSE /\ rootKeyIn = "none"
    /\ etc \in {{}, {"localtime"}}             \* the image may have a link

Init == FlatpaksInit /\ SysconfigInit

-----------------------------------------------------------------------------
Provision == UNCHANGED <<fpVars, pipeVars>>
Inputs == <<recipe, known, skel>>

(* isComposeFsNative, resolve: a cancelled probe says composefs, which     *)
(* then is not found on an ostree target.                                  *)
Composefs == Ls("state/deploy") \/ ~Ls("ostree")
Resolves  == Composefs => "state/deploy" \in markers
staterootVarDir == IF Composefs THEN "state/os/default/var" ELSE "ostree/deploy/default/var"

Fails == Goto("failed") /\ UNCHANGED scVars

WriteHostname ==
    /\ pc = "hostname" /\ Provision
    /\ \/ /\ Resolves /\ etc' = etc \cup {"hostname"} /\ Goto("user")
          /\ UNCHANGED <<Inputs, account, missing, warned, deployHome, stateHome, snippet, rootKeyIn>>
       \/ Fails

(* CreateUser: the groups the image has; the home's directory on ostree.   *)
FilterGroups ==
    /\ pc = "user" /\ Provision
    /\ \/ ~recipe.user /\ Goto("rootKey") /\ UNCHANGED scVars
       \/ /\ recipe.user /\ Resolves /\ (Composefs \/ Succeeds) /\ Goto("useradd")
          /\ missing' = recipe.groups \ known
          /\ UNCHANGED <<Inputs, account, warned, deployHome, stateHome, snippet, rootKeyIn, etc>>
       \/ recipe.user /\ Fails

(* On ostree useradd runs in the deployment and creates the home there;    *)
(* on composefs it only writes the account.                                *)
Useradd ==
    /\ pc = "useradd" /\ Provision
    /\ \/ /\ Succeeds /\ Goto("relocate")
          /\ account' = [account EXCEPT !.user = TRUE, !.groups = recipe.groups \ missing]
          /\ deployHome' = IF Composefs THEN NoHome
                           ELSE [owner |-> "user", skel |-> skel, key |-> FALSE]
          /\ UNCHANGED <<Inputs, missing, warned, stateHome, snippet, rootKeyIn, etc>>
       \/ Fails

Relocate ==
    /\ pc = "relocate" /\ Provision
    /\ \/ deployHome = NoHome /\ Goto("snippet") /\ UNCHANGED scVars
       \/ /\ deployHome # NoHome /\ Succeeds /\ Goto("snippet")
          /\ stateHome' = deployHome /\ deployHome' = NoHome
          /\ UNCHANGED <<Inputs, account, missing, warned, snippet, rootKeyIn, etc>>
       \/ deployHome # NoHome /\ Fails

WriteHomeTmpfiles ==
    /\ pc = "snippet" /\ Provision
    /\ \/ /\ snippet' = TRUE /\ Goto("password")
          /\ UNCHANGED <<Inputs, account, missing, warned, deployHome, stateHome, rootKeyIn, etc>>
       \/ Fails

SetPassword ==
    /\ pc = "password" /\ Provision
    /\ \/ ~recipe.password /\ Goto("warn") /\ UNCHANGED scVars
       \/ /\ recipe.password /\ Succeeds /\ Goto("warn")
          /\ account' = [account EXCEPT !.password = TRUE]
          /\ UNCHANGED <<Inputs, missing, warned, deployHome, stateHome, snippet, rootKeyIn, etc>>
       \/ recipe.password /\ Fails

(* A warning for each missing group; the event may fail.                   *)
WarnGroup ==
    /\ pc = "warn" /\ Provision
    /\ \/ missing = warned /\ Goto("userKey") /\ UNCHANGED scVars
       \/ \E g \in missing \ warned :
             /\ warned' = warned \cup {g} /\ UNCHANGED pc
             /\ UNCHANGED <<Inputs, account, missing, deployHome, stateHome, snippet, rootKeyIn, etc>>
       \/ missing # warned /\ Fails

(* WriteUserAuthorizedKey: the account's ids, and whether there is a home. *)
FindHome ==
    /\ pc = "userKey" /\ Provision /\ UNCHANGED scVars
    /\ \/ ~recipe.userKey /\ Goto("rootKey")
       \/ /\ recipe.userKey /\ Resolves /\ account.user
          /\ IF stateHome = NoHome THEN Goto("home") ELSE Goto("append")
       \/ recipe.userKey /\ Goto("failed")

\* Fault: the new home is left for the first boot to fill.
MakeHomeBare ==
    /\ pc = "home" /\ Provision /\ Goto("append")
    /\ stateHome' = [owner |-> "root", skel |-> FALSE, key |-> FALSE]
    /\ UNCHANGED <<Inputs, account, missing, warned, deployHome, snippet, rootKeyIn, etc>>

(* A home that is there keeps the first boot from copying skel: it is      *)
(* copied here.                                                            *)
MakeHome ==
    /\ pc = "home" /\ Provision
    /\ \/ /\ Goto("append")
          /\ stateHome' = [owner |-> "root", skel |-> skel, key |-> FALSE]
          /\ UNCHANGED <<Inputs, account, missing, warned, deployHome, snippet, rootKeyIn, etc>>
       \/ Fails

AppendUserKey ==
    /\ pc = "append" /\ Provision
    /\ \/ /\ stateHome' = [stateHome EXCEPT !.key = TRUE] /\ Goto("chown")
          /\ UNCHANGED <<Inputs, account, missing, warned, deployHome, snippet, rootKeyIn, etc>>
       \/ Fails

Chown ==
    /\ pc = "chown" /\ Provision
    /\ \/ /\ Succeeds /\ stateHome' = [stateHome EXCEPT !.owner = "user"] /\ Goto("rootKey")
          /\ UNCHANGED <<Inputs, account, missing, warned, deployHome, snippet, rootKeyIn, etc>>
       \/ Fails

\* Fault: the key goes to the deployment, under whose /var nobody looks.
WriteRootKeyInDeployment ==
    /\ pc = "rootKey" /\ Provision /\ Goto("regional")
    /\ rootKeyIn' = IF recipe.rootKey THEN "deployment" ELSE "none"
    /\ UNCHANGED <<Inputs, account, missing, warned, deployHome, stateHome, snippet, etc>>

WriteRootKey ==
    /\ pc = "rootKey" /\ Provision
    /\ \/ ~recipe.rootKey /\ Goto("regional") /\ UNCHANGED scVars
       \/ /\ recipe.rootKey /\ Resolves /\ rootKeyIn' = staterootVarDir /\ Goto("regional")
          /\ UNCHANGED <<Inputs, account, missing, warned, deployHome, stateHome, snippet, etc>>
       \/ recipe.rootKey /\ Fails

(* One change of the regional files, where the recipe has the setting.     *)
Regional(here, setting, written, next) ==
    /\ pc = here /\ Provision
    /\ \/ setting \notin recipe.regional /\ Goto(next) /\ UNCHANGED scVars
       \/ /\ setting \in recipe.regional /\ Goto(next)
          /\ here \in {"unlink", "link"} \/ Resolves
          /\ etc' = written
          /\ UNCHANGED <<Inputs, account, missing, warned, deployHome, stateHome, snippet, rootKeyIn>>
       \/ setting \in recipe.regional /\ Fails

(* Locale, time zone and keyboard.  The files are written atomically; the  *)
(* localtime link is removed and made anew.                                *)
WriteRegional ==
    \/ Regional("regional", "locale", etc \cup {"locale.conf"}, "timezone")
    \/ Regional("timezone", "timezone", etc \cup {"timezone"}, "unlink")
    \/ Regional("unlink", "timezone", etc \ {"localtime"}, "link")
    \/ Regional("link", "timezone", etc \cup {"localtime"}, "keyboard")
    \/ Regional("keyboard", "keyboard", etc \cup {"keyboard"}, "done")

SysconfigSteps ==
    \/ WriteHostname \/ FilterGroups \/ Useradd \/ Relocate \/ WriteHomeTmpfiles
    \/ SetPassword \/ WarnGroup \/ FindHome \/ MakeHome \/ AppendUserKey \/ Chown
    \/ WriteRootKey \/ WriteRegional

Next ==
    \/ (ProvisionSteps \/ TarFails \/ Cancel) /\ UNCHANGED scVars
    \/ SysconfigSteps

Spec == Init /\ [][Next]_vars

(* The step runs as long as it can; nothing has to fail or be cancelled.   *)
Fairness == WF_vars(ProvisionSteps /\ UNCHANGED scVars) /\ WF_vars(SysconfigSteps)

-----------------------------------------------------------------------------
TypeOK ==
    /\ FlatpaksTypeOK
    /\ {missing, warned, account.groups} \subseteq SUBSET Groups
    /\ {deployHome, stateHome} \subseteq
          [owner: {"none", "root", "user"}, skel: BOOLEAN, key: BOOLEAN]
    /\ rootKeyIn \in Vars \cup {"none"}
    /\ etc \subseteq Files

(* What the first boot makes of the home: tmpfiles creates a missing one,  *)
(* and leaves one that is there alone.                                     *)
HomeAtBoot ==
    IF stateHome = NoHome /\ snippet THEN [owner |-> "user", skel |-> skel, key |-> FALSE]
    ELSE stateHome

(* After a successful sysconfig the booted system has the access that was  *)
(* asked for: an account with its password, a home that is the user's, has *)
(* the image's dotfiles and the key, root's key where root's home will be, *)
(* and every group joined or reported.                                     *)
AccessAsAsked ==
    pc = "done" =>
       /\ recipe.rootKey => rootKeyIn = BootVar
       /\ recipe.user =>
             /\ account.user /\ (recipe.password => account.password)
             /\ HomeAtBoot = [owner |-> "user", skel |-> skel, key |-> recipe.userKey]
             /\ recipe.groups \subseteq account.groups \cup warned
=============================================================================
