------------------------------ MODULE Flatpaks ------------------------------
(***************************************************************************)
(* The flatpaks step: Provision carries the medium's flatpaks over into    *)
(* the installed system's /var, downloads what is missing and reports what *)
(* could not be had.  A command may fail at any time, and a cancelled one  *)
(* always does; `ls` of a directory that is there fails only when          *)
(* cancelled.                                                              *)
(***************************************************************************)
EXTENDS TarPipe, FiniteSets

CONSTANT Apps

VARIABLES
    markers,   \* which of state/deploy and ostree the target has
    wanted,    \* the recipe's apps and the image's core set, each once
    system, user, \* the medium's apps: installed system-wide, for a user only
    tree,      \* whether the medium has a flatpak directory with anything in it
    cancelled,
    dst,       \* the target's /var the apps go to, or none
    there,     \* the apps in each directory that may be it
    measured,  \* whether du has answered
    todo,      \* what is left to promote or to download
    unreachable, reported,
    pc         \* the label of the next operation; failed; done

medium == <<system, user, tree>>
fpVars == <<markers, wanted, system, user, tree, cancelled, dst, there, measured,
            todo, unreachable, reported>>

Vars == {"state/os/default/var", "ostree/deploy/default/var", "var"}

FlatpaksInit ==
    /\ PipeInit
    /\ markers \in {{"state/deploy"}, {"state/deploy", "ostree"}, {"ostree"}}
    /\ wanted \in SUBSET Apps /\ system \in SUBSET Apps /\ user \in SUBSET Apps
    /\ tree \in BOOLEAN /\ (system # {} => tree)
    /\ cancelled = FALSE /\ dst = "none" /\ there = [d \in Vars |-> {}] /\ measured = FALSE
    /\ todo = {} /\ unreachable = {} /\ reported = {} /\ pc = "apps"

-----------------------------------------------------------------------------
Goto(label) == pc' = label
Succeeds == ~cancelled
Ls(path) == path \in markers /\ Succeeds

(* flatpak list: a failed probe is an empty list.                          *)
Listings(apps) == IF cancelled THEN {{}} ELSE {apps, {}}

(* runFlatpaks: an empty set touches nothing.                              *)
RunFlatpaks ==
    /\ pc = "apps"
    /\ IF wanted = {} THEN Goto("report") ELSE Goto("mkdir")
    /\ UNCHANGED <<fpVars, pipeVars>>

\* Fault: any target with an ostree directory is an ostree one.
targetFlatpakDirOstreeFirst ==
    IF Ls("ostree") THEN "ostree/deploy/default/var"
    ELSE IF Ls("state/deploy") THEN "state/os/default/var"
    ELSE "var"

targetFlatpakDir ==
    IF Ls("state/deploy") THEN "state/os/default/var"
    ELSE IF Ls("ostree") THEN "ostree/deploy/default/var"
    ELSE "var"

MakeDir ==
    /\ pc = "mkdir" /\ dst' = targetFlatpakDir
    /\ \/ Succeeds /\ Goto("list")
       \/ Goto("failed")
    /\ UNCHANGED <<markers, wanted, medium, cancelled, there, measured, todo,
                   unreachable, reported, pipeVars>>

ListMedium ==
    /\ pc = "list"
    /\ \E sys \in Listings(system), usr \in Listings(user) :
          todo' = (usr \ sys) \cap wanted
    /\ Goto("promote")
    /\ UNCHANGED <<markers, wanted, medium, cancelled, dst, there, measured,
                   unreachable, reported, pipeVars>>

(* Wanted apps that only a user of the medium has go into its system       *)
(* installation; a failure shows further down.                             *)
Promote ==
    /\ pc = "promote"
    /\ \/ todo = {} /\ Goto("measure") /\ UNCHANGED <<todo, system, tree>>
       \/ \E a \in todo :
             /\ todo' = todo \ {a} /\ UNCHANGED pc
             /\ \/ Succeeds /\ system' = system \cup {a} /\ tree' = TRUE
                \/ UNCHANGED <<system, tree>>
    /\ UNCHANGED <<markers, wanted, user, cancelled, dst, there, measured,
                   unreachable, reported, pipeVars>>

(* dirSize: a du that fails counts as an empty directory.                  *)
Measure ==
    /\ pc = "measure"
    /\ \/ /\ Succeeds /\ measured' = TRUE
          /\ IF tree THEN Goto("copy") ELSE Goto("remainder")
       \/ Goto("remainder") /\ UNCHANGED measured
    /\ UNCHANGED <<markers, wanted, medium, cancelled, dst, there, todo,
                   unreachable, reported, pipeVars>>

Flow == pc = "copy" /\ PipeFlows /\ UNCHANGED <<fpVars, pc>>
TarFails == pc = "copy" /\ (ProducerFails \/ ExtractorFails) /\ UNCHANGED <<fpVars, pc>>

CopyReturns ==
    /\ pc = "copy" /\ BothReturned
    /\ IF CopySucceeded
       THEN there' = [there EXCEPT ![dst] = @ \cup system] /\ Goto("remainder")
       ELSE Goto("failed") /\ UNCHANGED there
    /\ UNCHANGED <<markers, wanted, medium, cancelled, dst, measured, todo,
                   unreachable, reported, pipeVars>>

\* Fault: what a user of the medium has counts as delivered.
RemainderOfBoth ==
    /\ pc = "remainder"
    /\ \E sys \in Listings(system \cup user) : todo' = wanted \ sys
    /\ Goto("download")
    /\ UNCHANGED <<markers, wanted, medium, cancelled, dst, there, measured,
                   unreachable, reported, pipeVars>>

(* The medium is listed again: what it has now is what was copied.  The    *)
(* remote that downloads need is added first: if that fails, so do they.   *)
Remainder ==
    /\ pc = "remainder"
    /\ \E sys \in Listings(system) : todo' = wanted \ sys
    /\ Goto("download")
    /\ UNCHANGED <<markers, wanted, medium, cancelled, dst, there, measured,
                   unreachable, reported, pipeVars>>

Download ==
    /\ pc = "download"
    /\ \/ todo = {} /\ Goto("report") /\ UNCHANGED <<todo, there, unreachable>>
       \/ \E a \in todo :
             /\ todo' = todo \ {a} /\ UNCHANGED pc
             /\ \/ /\ Succeeds /\ there' = [there EXCEPT ![dst] = @ \cup {a}]
                   /\ UNCHANGED unreachable
                \/ unreachable' = unreachable \cup {a} /\ UNCHANGED there
    /\ UNCHANGED <<markers, wanted, medium, cancelled, dst, measured, reported, pipeVars>>

(* A warning and a line of the summary for each; the event may fail.       *)
Report ==
    /\ pc = "report"
    /\ \/ unreachable \subseteq reported /\ Goto("hostname") /\ UNCHANGED reported
       \/ \E a \in unreachable \ reported :
             \/ reported' = reported \cup {a} /\ UNCHANGED pc
             \/ Goto("failed") /\ UNCHANGED reported
    /\ UNCHANGED <<markers, wanted, medium, cancelled, dst, there, measured, todo,
                   unreachable, pipeVars>>

(* The tars are killed; whatever starts now fails.                         *)
Cancel ==
    /\ ~cancelled /\ pc \notin {"failed", "done"} /\ cancelled' = TRUE
    /\ IF pc = "copy" THEN KillBoth ELSE UNCHANGED pipeVars
    /\ UNCHANGED <<markers, wanted, medium, dst, there, measured, todo, unreachable,
                   reported, pc>>

ProvisionSteps ==
    \/ RunFlatpaks \/ MakeDir \/ ListMedium \/ Promote \/ Measure \/ Flow \/ CopyReturns
    \/ Remainder \/ Download \/ Report

-----------------------------------------------------------------------------
(* The /var the installed system mounts.                                   *)
BootVar == IF "state/deploy" \in markers THEN "state/os/default/var"
           ELSE "ostree/deploy/default/var"

FlatpaksTypeOK ==
    /\ PipeTypeOK
    /\ {wanted, system, user, todo, unreachable, reported} \subseteq SUBSET Apps
    /\ dst \in Vars \cup {"none"}
    /\ there \in [Vars -> SUBSET Apps]
    /\ {tree, cancelled, measured} \subseteq BOOLEAN

(* Apps only ever land where the installed system will look for them, also *)
(* when probing the layout was cut short.                                  *)
AppsBoot == \A d \in Vars \ {BootVar} : there[d] = {}

(* Once the step is over, a wanted app is in the installed system or has   *)
(* been reported, "never silently dropped".  One case is left out: a du    *)
(* that fails over a directory that is there skips the copy, and the apps  *)
(* the medium lists are then neither copied nor downloaded nor reported.   *)
AppsAccountedFor ==
    (pc \notin {"apps", "mkdir", "list", "promote", "measure", "copy", "remainder",
                "download", "report", "failed"} /\ (tree => measured))
        => wanted \subseteq there[BootVar] \cup reported

(* A copy whose extractor keeps going comes to its end, however its        *)
(* producer ends.                                                          *)
CopyEndsIfReaderLives == pc = "copy" ~> (pc # "copy" \/ tarX = "bad")

(* "Stop cancels the pipeline's context so it unwinds its cleanups": the   *)
(* copy comes to its end, whatever kills its children.                     *)
CopyEnds == pc = "copy" ~> pc # "copy"
=============================================================================
