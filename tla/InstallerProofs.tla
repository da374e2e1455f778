-------------------------- MODULE InstallerProofs --------------------------
(***************************************************************************)
(* Proofs about Installer, for every recipe and every host.                *)
(*                                                                         *)
(* The engine is the one PipelineProofs speaks of, so that its theorems    *)
(* hold here.  The machine follows the step that runs: for each point of   *)
(* each step the invariant says what is mounted, open and owed an undo     *)
(* (Between, On), and what may be left once something has failed           *)
(* (OnErrorPath, Unwinding).  Operations are told by what they do          *)
(* (Advances, Aborts) instead of by the action that does it.               *)
(***************************************************************************)
EXTENDS Installer, SequenceTheorems, TLAPS

E == INSTANCE PipelineProofs WITH
        Runs <- {Me}, NumSteps <- Len(Steps), NumPreflight <- 4,
        DeferSteps <- {s \in DOMAIN Steps :
                         Steps[s] \in {"luks-format", "mount-target", "bootc-install"}}

(***************************************************************************)
(* The order of the steps.                                                 *)
(***************************************************************************)
Rank(name) ==
    CASE name = "preflight-uefi"  -> 1
      [] name = "preflight-tools" -> 2
      [] name = "preflight-image" -> 3
      [] name = "preflight-disk"  -> 4
      [] name = "partition"       -> 5
      [] name = "format-boot"     -> 6
      [] name = "luks-format"     -> 7
      [] name = "format-root"     -> 8
      [] name = "mount-target"    -> 9
      [] name = "bootc-install"   -> 10
      [] name = "tpm-enroll"      -> 11
      [] name = "esp-stage"       -> 12
      [] name = "retag-root"      -> 13
      [] name = "flatpaks"        -> 14
      [] name = "sysconfig"       -> 15
      [] name = "finalize"        -> 16
      [] name = "mok-stage"       -> 17

Names == {"preflight-uefi", "preflight-tools", "preflight-image", "preflight-disk",
          "partition", "format-boot", "luks-format", "format-root", "mount-target",
          "bootc-install", "tpm-enroll", "esp-stage", "retag-root", "flatpaks",
          "sysconfig", "finalize", "mok-stage"}

LEMMA RankType == \A name \in Names : Rank(name) \in 1..17
BY DEF Rank, Names

LEMMA RankInjective == \A m, n \in Names : Rank(m) = Rank(n) => m = n
BY SMTT(60) DEF Rank, Names

(* A list of steps that comes in the order of Rank, from one to another.   *)
Ordered(s, from, below) ==
    /\ s \in Seq(Names)
    /\ \A i \in DOMAIN s : from <= Rank(s[i]) /\ Rank(s[i]) < below
    /\ \A i, j \in DOMAIN s : i < j => Rank(s[i]) < Rank(s[j])

Among(s) == {s[i] : i \in DOMAIN s}

LEMMA JoinOrdered ==
    ASSUME NEW s, NEW t, NEW a \in Nat, NEW b \in Nat, NEW c \in Nat,
           a <= b, b <= c, Ordered(s, a, b), Ordered(t, b, c)
    PROVE  /\ Ordered(s \o t, a, c)
           /\ Among(s \o t) = Among(s) \cup Among(t)
           /\ Len(s) <= Len(s \o t)
           /\ \A i \in 1..Len(s) : (s \o t)[i] = s[i]
<1> DEFINE u == s \o t
<1>0. s \in Seq(Names) /\ t \in Seq(Names)
  BY DEF Ordered
<1>1. /\ u \in Seq(Names) /\ Len(u) = Len(s) + Len(t)
      /\ \A i \in 1..(Len(s) + Len(t)) : u[i] = IF i <= Len(s) THEN s[i] ELSE t[i - Len(s)]
  BY <1>0, ConcatProperties
<1>2. Len(s) \in Nat /\ Len(t) \in Nat /\ DOMAIN s = 1..Len(s) /\ DOMAIN t = 1..Len(t)
      /\ DOMAIN u = 1..Len(u)
  BY <1>0, <1>1, LenProperties
<1>3. \A i \in DOMAIN u : \/ i \in DOMAIN s /\ u[i] = s[i]
                          \/ i - Len(s) \in DOMAIN t /\ u[i] = t[i - Len(s)] /\ i > Len(s)
  BY <1>1, <1>2
<1>n. \A name \in Names : Rank(name) \in Nat
  BY RankType
<1>r. \A i \in DOMAIN s : Rank(s[i]) \in Nat
  <2>1. \A i \in DOMAIN s : s[i] \in Names
    BY <1>0, <1>2, ElementOfSeq
  <2> QED BY <2>1, <1>n
<1>t. \A i \in DOMAIN t : Rank(t[i]) \in Nat
  <2>1. \A i \in DOMAIN t : t[i] \in Names
    BY <1>0, <1>2, ElementOfSeq
  <2> QED BY <2>1, <1>n
<1>4. \A i \in DOMAIN u : a <= Rank(u[i]) /\ Rank(u[i]) < c
  <2> TAKE i \in DOMAIN u
  <2>1. CASE i \in DOMAIN s /\ u[i] = s[i]
    <3>1. a <= Rank(s[i]) /\ Rank(s[i]) < b
      BY <2>1 DEF Ordered
    <3> QED BY <2>1, <3>1, <1>r
  <2>2. CASE i - Len(s) \in DOMAIN t /\ u[i] = t[i - Len(s)]
    <3>1. b <= Rank(t[i - Len(s)]) /\ Rank(t[i - Len(s)]) < c
      BY <2>2 DEF Ordered
    <3> QED BY <2>2, <3>1, <1>t
  <2> QED BY <1>3, <2>1, <2>2
<1>5. \A i, j \in DOMAIN u : i < j => Rank(u[i]) < Rank(u[j])
  <2> SUFFICES ASSUME NEW i \in DOMAIN u, NEW j \in DOMAIN u, i < j
               PROVE  Rank(u[i]) < Rank(u[j])
    OBVIOUS
  <2>0. i \in Nat /\ j \in Nat
    BY <1>1, <1>2
  <2>1. CASE j \in DOMAIN s
    <3>1. i \in DOMAIN s /\ u[i] = s[i] /\ u[j] = s[j]
      BY <2>0, <2>1, <1>1, <1>2
    <3> QED BY <3>1, <2>1 DEF Ordered
  <2>2. CASE i \in DOMAIN s /\ j \notin DOMAIN s
    <3>1. u[i] = s[i] /\ j - Len(s) \in DOMAIN t /\ u[j] = t[j - Len(s)]
      BY <2>0, <2>2, <1>1, <1>2
    <3>2. Rank(s[i]) < b /\ b <= Rank(t[j - Len(s)])
      BY <2>2, <3>1 DEF Ordered
    <3> QED BY <2>2, <3>1, <3>2, <1>r, <1>t
  <2>3. CASE i \notin DOMAIN s
    <3>1. /\ i - Len(s) \in DOMAIN t /\ u[i] = t[i - Len(s)]
          /\ j - Len(s) \in DOMAIN t /\ u[j] = t[j - Len(s)] /\ i - Len(s) < j - Len(s)
      BY <2>0, <2>3, <1>1, <1>2
    <3> QED BY <3>1 DEF Ordered
  <2> QED BY <2>1, <2>2, <2>3
<1>6. Among(u) = Among(s) \cup Among(t)
  <2>1. \A i \in DOMAIN s : i \in DOMAIN u /\ u[i] = s[i]
    BY <1>1, <1>2
  <2>2. \A i \in DOMAIN t : i + Len(s) \in DOMAIN u /\ u[i + Len(s)] = t[i]
    <3> TAKE i \in DOMAIN t
    <3>1. i \in 1..Len(t) /\ i + Len(s) \in 1..(Len(s) + Len(t)) /\ ~(i + Len(s) <= Len(s))
          /\ (i + Len(s)) - Len(s) = i
      BY <1>2
    <3> QED BY <3>1, <1>1, <1>2
  <2>3. \A x \in Among(u) : x \in Among(s) \cup Among(t)
    BY <1>3 DEF Among
  <2>4. \A x \in Among(s) : x \in Among(u)
    BY <2>1 DEF Among
  <2>5. \A x \in Among(t) : x \in Among(u)
    BY <2>2 DEF Among
  <2> QED BY <2>3, <2>4, <2>5
<1>7. \A i \in 1..Len(s) : u[i] = s[i]
  BY <1>1, <1>2
<1> QED BY <1>1, <1>2, <1>4, <1>5, <1>6, <1>7 DEF Ordered

LEMMA OrderedSeq ==
    ASSUME NEW s, NEW a, NEW b, Ordered(s, a, b)
    PROVE  s \in Seq(Names) /\ Len(s) \in Nat
BY LenProperties DEF Ordered

LEMMA OrderedThree ==
    ASSUME NEW k \in Names, NEW l \in Names, NEW m \in Names, NEW n \in Nat,
           Rank(k) = n, Rank(l) = n + 1, Rank(m) = n + 2
    PROVE  Ordered(<<k, l, m>>, n, n + 3) /\ Among(<<k, l, m>>) = {k, l, m}
BY DEF Ordered, Among

(* The steps of this recipe.                                               *)
Assembled ==
    {"preflight-uefi", "preflight-tools", "preflight-image", "preflight-disk",
     "partition", "format-boot", "format-root", "mount-target", "bootc-install",
     "flatpaks", "sysconfig", "finalize"}
    \cup (IF Encrypted THEN {"luks-format"} ELSE {})
    \cup (IF Encryption \in {"tpm2-luks", "tpm2-luks-passphrase"} THEN {"tpm-enroll"} ELSE {})
    \cup (IF Mok THEN {"esp-stage", "mok-stage"} ELSE {})
    \cup (IF Bootloader # "grub2" THEN {"retag-root"} ELSE {})

LEMMA StepsOrdered ==
    /\ Ordered(Steps, 1, 18) /\ Among(Steps) = Assembled /\ Len(Steps) >= 4
    /\ \A i \in 1..4 : Steps[i] \in {"preflight-uefi", "preflight-tools",
                                     "preflight-image", "preflight-disk"}
<1> DEFINE first == << "preflight-uefi", "preflight-tools", "preflight-image",
                       "preflight-disk", "partition", "format-boot" >>
           second == << "format-root", "mount-target", "bootc-install" >>
           third  == << "flatpaks", "sysconfig", "finalize" >>
           tpm == Encryption \in {"tpm2-luks", "tpm2-luks-passphrase"}
           u1 == first \o When(Encrypted, << "luks-format" >>)
           u2 == u1 \o second
           u3 == u2 \o When(tpm, << "tpm-enroll" >>)
           u4 == u3 \o When(Mok, << "esp-stage" >>)
           u5 == u4 \o When(Bootloader # "grub2", << "retag-root" >>)
           u6 == u5 \o third
           u7 == u6 \o When(Mok, << "mok-stage" >>)
<1>r. /\ Rank("preflight-uefi") = 1 /\ Rank("preflight-tools") = 2
      /\ Rank("preflight-image") = 3 /\ Rank("preflight-disk") = 4
      /\ Rank("partition") = 5 /\ Rank("format-boot") = 6 /\ Rank("luks-format") = 7
      /\ Rank("format-root") = 8 /\ Rank("mount-target") = 9 /\ Rank("bootc-install") = 10
      /\ Rank("tpm-enroll") = 11 /\ Rank("esp-stage") = 12 /\ Rank("retag-root") = 13
      /\ Rank("flatpaks") = 14 /\ Rank("sysconfig") = 15 /\ Rank("finalize") = 16
      /\ Rank("mok-stage") = 17
  BY DEF Rank
<1>n. /\ "preflight-uefi" \in Names /\ "preflight-tools" \in Names /\ "preflight-image" \in Names
      /\ "preflight-disk" \in Names /\ "partition" \in Names /\ "format-boot" \in Names
      /\ "luks-format" \in Names /\ "format-root" \in Names /\ "mount-target" \in Names
      /\ "bootc-install" \in Names /\ "tpm-enroll" \in Names /\ "esp-stage" \in Names
      /\ "retag-root" \in Names /\ "flatpaks" \in Names /\ "sysconfig" \in Names
      /\ "finalize" \in Names /\ "mok-stage" \in Names
  BY DEF Names
<1>a. Ordered(first, 1, 7) /\ Among(first) = {first[1], first[2], first[3], first[4], first[5], first[6]}
  BY <1>r, <1>n DEF Ordered, Among
<1>b. Ordered(second, 8, 11) /\ Among(second) = {"format-root", "mount-target", "bootc-install"}
  BY <1>r, <1>n, OrderedThree
<1>c. Ordered(third, 14, 17) /\ Among(third) = {"flatpaks", "sysconfig", "finalize"}
  BY <1>r, <1>n, OrderedThree
<1>d. /\ Ordered(When(Encrypted, << "luks-format" >>), 7, 8)
      /\ Among(When(Encrypted, << "luks-format" >>)) = IF Encrypted THEN {"luks-format"} ELSE {}
  <2>1. Ordered(<< "luks-format" >>, 7, 8) /\ Among(<< "luks-format" >>) = {"luks-format"}
    BY <1>r, <1>n DEF Ordered, Among
  <2>2. Ordered(<<>>, 7, 8) /\ Among(<<>>) = {}
    BY DEF Ordered, Among
  <2> QED BY <2>1, <2>2 DEF When
<1>e. /\ Ordered(When(tpm, << "tpm-enroll" >>), 11, 12)
      /\ Among(When(tpm, << "tpm-enroll" >>)) = IF tpm THEN {"tpm-enroll"} ELSE {}
  <2>1. Ordered(<< "tpm-enroll" >>, 11, 12) /\ Among(<< "tpm-enroll" >>) = {"tpm-enroll"}
    BY <1>r, <1>n DEF Ordered, Among
  <2>2. Ordered(<<>>, 11, 12) /\ Among(<<>>) = {}
    BY DEF Ordered, Among
  <2> QED BY <2>1, <2>2 DEF When
<1>f. /\ Ordered(When(Mok, << "esp-stage" >>), 12, 13)
      /\ Among(When(Mok, << "esp-stage" >>)) = IF Mok THEN {"esp-stage"} ELSE {}
  <2>1. Ordered(<< "esp-stage" >>, 12, 13) /\ Among(<< "esp-stage" >>) = {"esp-stage"}
    BY <1>r, <1>n DEF Ordered, Among
  <2>2. Ordered(<<>>, 12, 13) /\ Among(<<>>) = {}
    BY DEF Ordered, Among
  <2> QED BY <2>1, <2>2 DEF When
<1>g. /\ Ordered(When(Bootloader # "grub2", << "retag-root" >>), 13, 14)
      /\ Among(When(Bootloader # "grub2", << "retag-root" >>)) = IF Bootloader # "grub2" THEN {"retag-root"} ELSE {}
  <2>1. Ordered(<< "retag-root" >>, 13, 14) /\ Among(<< "retag-root" >>) = {"retag-root"}
    BY <1>r, <1>n DEF Ordered, Among
  <2>2. Ordered(<<>>, 13, 14) /\ Among(<<>>) = {}
    BY DEF Ordered, Among
  <2> QED BY <2>1, <2>2 DEF When
<1>h. /\ Ordered(When(Mok, << "mok-stage" >>), 17, 18)
      /\ Among(When(Mok, << "mok-stage" >>)) = IF Mok THEN {"mok-stage"} ELSE {}
  <2>1. Ordered(<< "mok-stage" >>, 17, 18) /\ Among(<< "mok-stage" >>) = {"mok-stage"}
    BY <1>r, <1>n DEF Ordered, Among
  <2>2. Ordered(<<>>, 17, 18) /\ Among(<<>>) = {}
    BY DEF Ordered, Among
  <2> QED BY <2>1, <2>2 DEF When
<1> DEFINE Early(u) == Len(u) >= 6 /\ \A i \in 1..4 : u[i] = first[i]
<1>0. Len(first) = 6 /\ Early(first)
  OBVIOUS
<1> HIDE DEF first, second, third, tpm
<1>1. Ordered(u1, 1, 8) /\ Among(u1) = Among(first) \cup Among(When(Encrypted, << "luks-format" >>)) /\ Early(u1)
  <2> HIDE DEF u1
  <2>1. /\ Ordered(u1, 1, 8) /\ Among(u1) = Among(first) \cup Among(When(Encrypted, << "luks-format" >>))
        /\ Len(first) <= Len(u1) /\ \A i \in 1..Len(first) : u1[i] = first[i]
    BY <1>a, <1>d, JoinOrdered DEF u1
  <2>2. Len(u1) \in Nat
    BY <2>1, OrderedSeq
  <2> QED BY <2>1, <2>2, <1>0
<1> HIDE DEF u1
<1>2. Ordered(u2, 1, 11) /\ Among(u2) = Among(u1) \cup Among(second) /\ Early(u2)
  BY <1>1, <1>b, OrderedSeq, JoinOrdered
<1> HIDE DEF u2
<1>3. Ordered(u3, 1, 12) /\ Among(u3) = Among(u2) \cup Among(When(tpm, << "tpm-enroll" >>)) /\ Early(u3)
  BY <1>2, <1>e, OrderedSeq, JoinOrdered
<1> HIDE DEF u3
<1>4. Ordered(u4, 1, 13) /\ Among(u4) = Among(u3) \cup Among(When(Mok, << "esp-stage" >>)) /\ Early(u4)
  BY <1>3, <1>f, OrderedSeq, JoinOrdered
<1> HIDE DEF u4
<1>5. Ordered(u5, 1, 14) /\ Among(u5) = Among(u4) \cup Among(When(Bootloader # "grub2", << "retag-root" >>)) /\ Early(u5)
  BY <1>4, <1>g, OrderedSeq, JoinOrdered
<1> HIDE DEF u5
<1>6. Ordered(u6, 1, 17) /\ Among(u6) = Among(u5) \cup Among(third) /\ Early(u6)
  BY <1>5, <1>c, OrderedSeq, JoinOrdered
<1> HIDE DEF u6
<1>7. Ordered(u7, 1, 18) /\ Among(u7) = Among(u6) \cup Among(When(Mok, << "mok-stage" >>)) /\ Early(u7)
  BY <1>6, <1>h, OrderedSeq, JoinOrdered
<1>8. Steps = u7
  BY DEF Steps, StepsWith, u1, u2, u3, u4, u5, u6, u7, first, second, third, tpm
<1>9. Among(u7) = Assembled
  BY <1>1, <1>2, <1>3, <1>4, <1>5, <1>6, <1>7, <1>a, <1>b, <1>c, <1>d, <1>e, <1>f,
     <1>g, <1>h DEF Assembled, first, tpm
<1>10. \A i \in 1..4 : first[i] \in {"preflight-uefi", "preflight-tools",
                                     "preflight-image", "preflight-disk"}
  BY DEF first
<1>11. Len(u7) \in Nat
  BY <1>7, OrderedSeq
<1> HIDE DEF u7
<1> QED BY <1>7, <1>8, <1>9, <1>10, <1>11

(* The steps before one, and up to it.                                     *)
Before(k) == {Steps[i] : i \in 1..(k - 1)}
UpTo(k)   == {Steps[i] : i \in 1..k}

LEMMA StepsDomain ==
    /\ Len(Steps) \in Nat /\ Len(Steps) >= 4 /\ DOMAIN Steps = 1..Len(Steps)
    /\ \A k \in DOMAIN Steps : Steps[k] \in Names /\ Steps[k] \in Assembled
<1>1. Steps \in Seq(Names) /\ Among(Steps) = Assembled
  BY StepsOrdered, OrderedSeq
<1> QED BY <1>1, StepsOrdered, LenProperties, ElementOfSeq DEF Among

LEMMA StepOrder ==
    ASSUME NEW k \in DOMAIN Steps
    PROVE  /\ Before(k) = {m \in Assembled : Rank(m) < Rank(Steps[k])}
           /\ UpTo(k) = Before(k) \cup {Steps[k]}
<1> DEFINE n == Len(Steps)
<1>1. n \in Nat /\ k \in 1..n /\ DOMAIN Steps = 1..n
  BY StepsDomain
<1>2. \A i \in 1..n : Rank(Steps[i]) \in Nat
  BY StepsDomain, RankType
<1>3. \A i, j \in 1..n : i < j => Rank(Steps[i]) < Rank(Steps[j])
  BY <1>1, StepsOrdered DEF Ordered
<1>4. \A i \in 1..n : Rank(Steps[i]) < Rank(Steps[k]) <=> i < k
  BY <1>1, <1>2, <1>3
<1>5. Assembled = {Steps[i] : i \in 1..n}
  BY <1>1, StepsOrdered DEF Among
<1>6. 1..(k-1) = {i \in 1..n : i < k} /\ 1..k = 1..(k-1) \cup {k}
  BY <1>1
<1> HIDE DEF n
<1>7. Before(k) = {m \in Assembled : Rank(m) < Rank(Steps[k])}
  BY <1>4, <1>5, <1>6 DEF Before
<1>8. UpTo(k) = Before(k) \cup {Steps[k]}
  BY <1>6 DEF Before, UpTo
<1> QED BY <1>7, <1>8

LEMMA AllSteps == UpTo(Len(Steps)) = Assembled
BY StepsDomain, StepsOrdered DEF Among, UpTo

Preflights == {"preflight-uefi", "preflight-tools", "preflight-image", "preflight-disk"}
Deferring  == {"luks-format", "mount-target", "bootc-install"}

LEMMA PreflightFirst == \A k \in DOMAIN Steps : k <= 4 => Steps[k] \in Preflights
BY StepsOrdered, StepsDomain DEF Preflights

LEMMA EngineAssumptions == E!StepsAssumption /\ E!NoneAssumption
<1>1. {s \in DOMAIN Steps : Steps[s] \in Deferring} \subseteq (4 + 1)..Len(Steps)
  BY PreflightFirst, StepsDomain DEF Preflights, Deferring
<1> QED BY <1>1, StepsDomain, NoneAssumption DEF E!StepsAssumption, E!NoneAssumption, Deferring

-----------------------------------------------------------------------------
LEMMA InitImplements == Init => P!Init
BY DEF Init

LEMMA OperationImplements == Operation => P!Next \/ UNCHANGED engine
<1> USE DEF At
<1>1. CASE CommandFails
  BY <1>1 DEF CommandFails
<1>2. CASE RunsCommand
  BY <1>2 DEF RunsCommand, Command
<1>3. CASE RunsCode
  BY <1>3 DEF RunsCode
<1>4. CASE Partition
  BY <1>4 DEF Partition, Command
<1>5. CASE LuksFormat
  BY <1>5 DEF LuksFormat, Command
<1>6. CASE CloseStale
  BY <1>6 DEF CloseStale, Command
<1>7. CASE LuksOpen
  BY <1>7 DEF LuksOpen, Command
<1>8. CASE LuksClose
  BY <1>8 DEF LuksClose, Command
<1>9. CASE Mount
  BY <1>9 DEF Mount, Command
<1>10. CASE UmountScratch
  BY <1>10 DEF UmountScratch, Command
<1>11. CASE UmountTree
  BY <1>11 DEF UmountTree, Command
<1>12. CASE UnwindTree
  BY <1>12 DEF UnwindTree
<1>13. CASE SetType
  BY <1>13 DEF SetType, Command
<1>14. CASE Override
  BY <1>14 DEF Override
<1>15. CASE Detach
  BY <1>15 DEF Detach, P!Next, P!StepBody
<1>16. CASE RemoveBase
  BY <1>16 DEF RemoveBase, P!Next, P!StepBody
<1>17. CASE MakeImageDir
  BY <1>17 DEF MakeImageDir
<1>18. CASE ExtractSecureImageRoot
  BY <1>18 DEF ExtractSecureImageRoot, Command
<1>19. CASE Freeze
  BY <1>19 DEF Freeze, Command
<1>20. CASE Thaw
  BY <1>20 DEF Thaw, Command
<1>21. CASE Rescue
  BY <1>21 DEF Rescue
<1>22. CASE Report
  BY <1>22 DEF Report, P!Next, P!StepBody
<1>23. CASE Summarize
  BY <1>23 DEF Summarize, P!Next, P!StepBody
<1>24. CASE Disclose
  BY <1>24 DEF Disclose, P!Next, P!StepBody
<1>25. CASE DeferUndo
  BY <1>25 DEF DeferUndo, P!Next, P!StepBody
<1> QED
  BY <1>1, <1>2, <1>3, <1>4, <1>5, <1>6, <1>7, <1>8, <1>9, <1>10, <1>11, <1>12,
     <1>13, <1>14, <1>15, <1>16, <1>17, <1>18, <1>19, <1>20, <1>21, <1>22, <1>23,
     <1>24, <1>25
  DEF Operation

LEMMA NextImplements == [Next]_vars => P!Next \/ UNCHANGED engine
<1> SUFFICES ASSUME [Next]_vars PROVE P!Next \/ UNCHANGED engine
  OBVIOUS
<1> USE DEF P!Next, P!Progress
<1>1. CASE StartStep
  BY <1>1 DEF StartStep
<1>2. CASE Operation
  BY <1>2, OperationImplements
<1>3. CASE StepReturns
  <2>1. \E ok \in BOOLEAN : P!StepReturns(Me, ok)
    BY <1>3 DEF StepReturns
  <2> QED BY <2>1
<1>4. CASE Undo
  BY <1>4 DEF Undo
<1>5. CASE EngineStep
  BY <1>5 DEF EngineStep
<1>6. CASE Cancel
  BY <1>6 DEF Cancel
<1>7. CASE UNCHANGED vars
  BY <1>7 DEF vars
<1> QED BY <1>1, <1>2, <1>3, <1>4, <1>5, <1>6, <1>7 DEF Next

(* The engine of this install is the step engine: a run of Pipeline with   *)
(* these steps, whatever the steps do.                                     *)
THEOREM Implements == Spec => P!Spec
<1>1. Init => P!Init
  BY InitImplements
<1>2. [Next]_vars => [P!Next]_P!vars
  BY NextImplements DEF P!vars, engine
<1> QED BY <1>1, <1>2, PTL DEF Spec, P!Spec

-----------------------------------------------------------------------------
(* PipelineProofs speaks of the same engine.                               *)
LEMMA SameNext == P!Next => E!Next
<1> SUFFICES ASSUME NEW r \in {Me},
                    \/ \E ok \in BOOLEAN : P!Begin(r, ok)
                    \/ P!Progress(r) \/ P!StepBody(r) \/ P!Crash(r)
             PROVE  E!Next
  BY DEF P!Next
<1>1. ASSUME NEW ok \in BOOLEAN, P!Begin(r, ok) PROVE E!Begin(r, ok)
  BY <1>1
  DEF P!Begin, E!Begin, P!Emit, E!Emit, P!Proceed, E!Proceed, P!Goto, E!Goto,
        P!Fail, E!Fail, P!Succeed, E!Succeed
<1>2. ASSUME NEW ok \in BOOLEAN, P!DeprecationWarning(r, ok) PROVE E!DeprecationWarning(r, ok)
  BY <1>2
  DEF P!DeprecationWarning, E!DeprecationWarning, P!Emit, E!Emit, P!Proceed,
        E!Proceed, P!Goto, E!Goto, P!Fail, E!Fail, P!Succeed, E!Succeed
<1>3. ASSUME NEW ok \in BOOLEAN, P!StartStep(r, ok) PROVE E!StartStep(r, ok)
  BY <1>3
  DEF P!StartStep, E!StartStep, P!Emit, E!Emit, P!Proceed, E!Proceed, P!Goto,
        E!Goto, P!Fail, E!Fail, P!Succeed, E!Succeed
<1>4. ASSUME NEW ok \in BOOLEAN, P!SkipStep(r, ok) PROVE E!SkipStep(r, ok)
  BY <1>4
  DEF P!SkipStep, E!SkipStep, P!Executes, E!Executes, P!Preflight,
        E!Preflight, P!Emit, E!Emit, P!Proceed, E!Proceed, P!Goto, E!Goto,
        P!Fail, E!Fail, P!Succeed, E!Succeed
<1>5. ASSUME NEW ok \in BOOLEAN, P!StepEmits(r, ok) PROVE E!StepEmits(r, ok)
  BY <1>5
  DEF P!StepEmits, E!StepEmits, P!Executes, E!Executes, P!Preflight,
        E!Preflight, P!Emit, E!Emit
<1>6. ASSUME NEW ok \in BOOLEAN, P!StepReturns(r, ok) PROVE E!StepReturns(r, ok)
  BY <1>6
  DEF P!StepReturns, E!StepReturns, P!Executes, E!Executes, P!Preflight,
        E!Preflight, P!Goto, E!Goto, P!Fail, E!Fail, P!Succeed, E!Succeed
<1>7. ASSUME NEW ok \in BOOLEAN, P!Undo(r, ok) PROVE E!Undo(r, ok)
  BY <1>7
  DEF P!Undo, E!Undo
<1>8. ASSUME NEW ok \in BOOLEAN, P!WarnCleanup(r, ok) PROVE E!WarnCleanup(r, ok)
  BY <1>8
  DEF P!WarnCleanup, E!WarnCleanup, P!Emit, E!Emit, P!Fail, E!Fail
<1>9. ASSUME NEW ok \in BOOLEAN, P!EmitSummary(r, ok) PROVE E!EmitSummary(r, ok)
  BY <1>9
  DEF P!EmitSummary, E!EmitSummary, P!Emit, E!Emit, P!Goto, E!Goto, P!Fail,
        E!Fail, P!Succeed, E!Succeed
<1>10. ASSUME NEW ok \in BOOLEAN, P!EmitVerdict(r, ok) PROVE E!EmitVerdict(r, ok)
  BY <1>10
  DEF P!EmitVerdict, E!EmitVerdict, P!Emit, E!Emit, P!Goto, E!Goto, P!Fail,
        E!Fail, P!Succeed, E!Succeed
<1>11. ASSUME P!TakeLock(r) PROVE E!TakeLock(r)
  BY <1>11
  DEF P!TakeLock, E!TakeLock, P!Goto, E!Goto
<1>12. ASSUME P!RefuseLock(r) PROVE E!RefuseLock(r)
  BY <1>12
  DEF P!RefuseLock, E!RefuseLock, P!Goto, E!Goto, P!Fail, E!Fail
<1>13. ASSUME P!SkipLock(r) PROVE E!SkipLock(r)
  BY <1>13
  DEF P!SkipLock, E!SkipLock, P!Goto, E!Goto
<1>14. ASSUME P!StepDefers(r) PROVE E!StepDefers(r)
  BY <1>14
  DEF P!StepDefers, E!StepDefers, P!Executes, E!Executes, P!Preflight,
        E!Preflight
<1>15. ASSUME P!StepAddsSummary(r) PROVE E!StepAddsSummary(r)
  BY <1>15
  DEF P!StepAddsSummary, E!StepAddsSummary, P!Executes, E!Executes,
        P!Preflight, E!Preflight
<1>16. ASSUME P!StepsDone(r) PROVE E!StepsDone(r)
  BY <1>16
  DEF P!StepsDone, E!StepsDone, P!Goto, E!Goto
<1>17. ASSUME P!Unwound(r) PROVE E!Unwound(r)
  BY <1>17
  DEF P!Unwound, E!Unwound, P!Goto, E!Goto
<1>18. ASSUME P!ReleaseLock(r) PROVE E!ReleaseLock(r)
  BY <1>18
  DEF P!ReleaseLock, E!ReleaseLock, P!Goto, E!Goto, P!Fail, E!Fail, P!Succeed,
        E!Succeed
<1>19. ASSUME P!Crash(r) PROVE E!Crash(r)
  BY <1>19
  DEF P!Crash, E!Crash, P!Goto, E!Goto, P!Writing, E!Writing, P!Preflight,
        E!Preflight
<1>20. ASSUME P!OrphanExits(r) PROVE E!OrphanExits(r)
  BY <1>20
  DEF P!OrphanExits, E!OrphanExits
<1> QED
  BY <1>1, <1>2, <1>3, <1>4, <1>5, <1>6, <1>7, <1>8, <1>9, <1>10, <1>11,
     <1>12, <1>13, <1>14, <1>15, <1>16, <1>17, <1>18, <1>19, <1>20
  DEF P!Progress, P!StepBody, E!Next, E!Progress, E!StepBody

LEMMA SameInit == P!Init => E!Init
BY DEF P!Init, E!Init

LEMMA SameTypeOK == P!TypeOK <=> E!TypeOK
BY DEF P!TypeOK, E!TypeOK, P!SinkTypeOK, E!SinkTypeOK, P!ErrorTypeOK, E!ErrorTypeOK,
       P!S!Kinds, E!S!Kinds, P!S!Running, E!S!Running, P!S!Terminal, E!S!Terminal,
       P!PCs, E!PCs, P!Codes, E!Codes

(* What PipelineProofs shows of the engine.                                *)
EngineInv == E!TypeOK /\ E!LockInv /\ E!VerdictInv

LEMMA EngineSpec == Spec => E!Spec
<1>1. Init => E!Init
  BY InitImplements, SameInit
<1>2. [Next]_vars => [E!Next]_E!vars
  BY NextImplements, SameNext DEF E!vars, engine
<1> QED BY <1>1, <1>2, PTL DEF Spec, E!Spec

LEMMA EngineCorrect == Spec => []EngineInv
<1> USE EngineAssumptions
<1>1. E!Spec => []E!TypeOK
  BY E!TypeCorrect
<1>2. E!Init => E!LockInv /\ E!VerdictInv
  BY E!LockInvInit, E!VerdictInvInit
<1>3. E!TypeOK /\ E!LockInv /\ E!VerdictInv /\ [E!Next]_E!vars => E!LockInv' /\ E!VerdictInv'
  BY E!LockInvNext, E!VerdictInvNext
<1> QED BY <1>1, <1>2, <1>3, EngineSpec, PTL DEF E!Spec, EngineInv

(***************************************************************************)
(* What an operation does, told by the operation instead of by the action. *)
(***************************************************************************)
Kept == UNCHANGED <<pc, step, dry, fails, err>>

TodoAfter(what, on) ==
    IF what \in {"report", "announce"}
    THEN todo' \in {Tail(todo), When(on = "item", << <<"summarize", "item">> >>) \o Tail(todo)}
    ELSE todo' = Tail(todo)

StackAfter(what, on) ==
    IF what = "defer" THEN stack' = [stack EXCEPT ![Me] = Append(@, step[Me])]
                       ELSE stack' = stack

MountsAfter(what, on) ==
    IF what \in {"mount", "bind"} THEN mounts' = mounts \cup {on}
    ELSE IF what = "umount" THEN mounts' = mounts \ {on}
    ELSE IF what = "umountTree" THEN mounts' = mounts \ TargetTree
    ELSE IF what = "detach"
         THEN /\ mounts \ {on} \subseteq mounts' /\ mounts' \subseteq mounts
              /\ on \in mounts' => on \in blamed'
    ELSE IF what = "unwindTree"
         THEN mounts' \subseteq mounts /\ mounts' \cap TargetTree \subseteq blamed'
    ELSE mounts' = mounts

MapperAfter(what, on) ==
    IF what = "luksOpen" THEN mapper' = "open"
    ELSE IF what \in {"closeStale", "luksClose"} THEN mapper' = "closed"
    ELSE mapper' = mapper

FrozenAfter(what, on) ==
    IF what = "freeze" THEN frozen' = TRUE
    ELSE IF what = "thaw" THEN frozen' = FALSE
    ELSE IF what = "rescue" THEN frozen' = FALSE \/ "frozen" \in blamed'
    ELSE frozen' = frozen

RestAfter(what, on) ==
    /\ IF what = "luksFormat" THEN luks' = TRUE ELSE luks' = luks
    /\ IF what = "disclose" THEN disclosed' = TRUE ELSE disclosed' = disclosed
    /\ rootType' = IF what = "partition" THEN "linux"
                   ELSE IF what = "setType" THEN "dps" ELSE rootType
    /\ image' = IF what = "mkdir" THEN "dir"
                ELSE IF what = "extract" THEN "ready" ELSE image
    /\ IF what = "override" THEN override' = (on = "on") ELSE override' = override
    /\ IF what \in {"detach", "unwindTree", "rescue"}
       THEN blamed \subseteq blamed' ELSE blamed' = blamed

Advances(what, on) ==
    /\ outcome' = outcome /\ cancelled' = cancelled
    /\ TodoAfter(what, on) /\ StackAfter(what, on) /\ MountsAfter(what, on) /\ MapperAfter(what, on)
    /\ FrozenAfter(what, on) /\ RestAfter(what, on)

(* A failing operation: what it did anyway counts only if it was killed    *)
(* too late.                                                               *)
Aborts ==
    /\ Head(todo)[1] \in Commands \cup {"disclose", "report", "announce", "umount"}
    /\ Head(todo) # <<"override", "off">>
    /\ todo' = CleanUp /\ outcome' = "failed"
    /\ stack' = stack /\ override' = override
    /\ cancelled = "late" => cancelled' = "late"
    /\ \/ cancelled' = "late"
       \/ mounts' \subseteq mounts /\ mapper' = mapper /\ frozen' = frozen /\ blamed \subseteq blamed'

LEMMA OperationDoes ==
    ASSUME Operation
    PROVE  /\ pc[Me] = "run" /\ todo # <<>> /\ Kept
           /\ Advances(Head(todo)[1], Head(todo)[2]) \/ Aborts
<1> USE DEF At, Subject, Proceed, Kept, engine, machine, Cancelled,
            TodoAfter, StackAfter, MountsAfter, MapperAfter, FrozenAfter, RestAfter
<1> DEFINE what == Head(todo)[1]
           on == Head(todo)[2]
<1>1. CASE CommandFails
  BY <1>1 DEF CommandFails, Abort, Aborts
<1>2. CASE RunsCommand
  BY <1>2 DEF RunsCommand, Command, Abort, Advances, Aborts, Commands
<1>3. CASE RunsCode
  BY <1>3 DEF RunsCode, Advances
<1>4. CASE Partition
  BY <1>4 DEF Partition, Command, Abort, Advances, Aborts, Commands
<1>5. CASE LuksFormat
  BY <1>5 DEF LuksFormat, Command, Abort, Advances, Aborts, Commands
<1>6. CASE CloseStale
  BY <1>6 DEF CloseStale, Command, Abort, Advances, Aborts, Commands
<1>7. CASE LuksOpen
  BY <1>7 DEF LuksOpen, Command, Abort, Advances, Aborts, Commands
<1>8. CASE LuksClose
  BY <1>8 DEF LuksClose, Command, Abort, Advances, Aborts, Commands
<1>9. CASE Mount
  <2>1. what = "mount" \/ what = "bind"
    BY <1>9 DEF Mount
  <2>2. CASE Abort /\ cancelled' = "late"
    BY <1>9, <2>1, <2>2 DEF Mount, Command, Abort, Aborts, Commands
  <2>3. CASE Proceed
    BY <1>9, <2>1, <2>3 DEF Mount, Command, Advances
  <2> QED BY <1>9, <2>2, <2>3 DEF Mount, Command
<1>10. CASE UmountScratch
  BY <1>10 DEF UmountScratch, Command, Abort, Advances, Aborts, Commands
<1>11. CASE UmountTree
  BY <1>11 DEF UmountTree, Command, Abort, Advances, Aborts, Commands, PartOfTree
<1>12. CASE UnwindTree
  <2>1. CASE mounts' = mounts \ TargetTree /\ UNCHANGED blamed
    <3>0. what = "unwindTree"
      BY <1>12 DEF UnwindTree
    <3>1. MountsAfter(what, on)
      BY <3>0, <2>1
    <3>3. RestAfter(what, on)
      BY <1>12, <3>0, <2>1 DEF UnwindTree
    <3>2. TodoAfter(what, on) /\ StackAfter(what, on) /\ MapperAfter(what, on) /\ FrozenAfter(what, on)
      BY <1>12, <2>1 DEF UnwindTree
    <3> QED BY <1>12, <3>1, <3>2, <3>3 DEF UnwindTree, Advances
  <2>2. CASE mounts' \in PartOfTree /\ blamed' = blamed \cup TargetTree
    <3>1. mounts' \subseteq mounts /\ TargetTree \subseteq blamed' /\ blamed \subseteq blamed'
      BY <2>2 DEF PartOfTree
    <3> QED BY <1>12, <3>1 DEF UnwindTree, Advances
  <2> QED BY <1>12, <2>1, <2>2 DEF UnwindTree
<1>13. CASE SetType
  BY <1>13 DEF SetType, Command, Abort, Advances, Aborts, Commands
<1>14. CASE Override
  BY <1>14 DEF Override, Advances
<1>15. CASE Detach
  <2>1. CASE mounts' = mounts \ {Subject} /\ UNCHANGED <<engine, blamed>>
    <3>0. what = "detach"
      BY <1>15 DEF Detach
    <3>1. MountsAfter(what, on)
      BY <3>0, <2>1
    <3>3. RestAfter(what, on)
      BY <1>15, <3>0, <2>1 DEF Detach
    <3>2. TodoAfter(what, on) /\ StackAfter(what, on) /\ MapperAfter(what, on) /\ FrozenAfter(what, on)
      BY <1>15, <2>1 DEF Detach
    <3> QED BY <1>15, <2>1, <3>1, <3>2, <3>3 DEF Detach, Advances
  <2>2. CASE /\ \E ok \in BOOLEAN : P!StepEmits(Me, ok)
             /\ blamed' = blamed \cup {Subject} /\ UNCHANGED mounts
    BY <1>15, <2>2 DEF Detach, Advances, P!StepEmits
  <2> QED BY <1>15, <2>1, <2>2 DEF Detach
<1>16. CASE RemoveBase
  BY <1>16 DEF RemoveBase, Advances, P!StepEmits
<1>17. CASE MakeImageDir
  BY <1>17 DEF MakeImageDir, Advances
<1>18. CASE ExtractSecureImageRoot
  BY <1>18 DEF ExtractSecureImageRoot, Command, Abort, Advances, Aborts, Commands
<1>19. CASE Freeze
  <2>1. CASE Abort /\ cancelled' = "late"
    BY <1>19, <2>1 DEF Freeze, Command, Abort, Aborts, Commands
  <2>2. CASE Proceed
    BY <1>19, <2>2 DEF Freeze, Command, Advances
  <2> QED BY <1>19, <2>1, <2>2 DEF Freeze, Command
<1>20. CASE Thaw
  BY <1>20 DEF Thaw, Command, Abort, Advances, Aborts, Commands
<1>21. CASE Rescue
  BY <1>21 DEF Rescue, Advances
<1>22. CASE Report
  <2>1. what = "report" \/ what = "announce"
    BY <1>22 DEF Report
  <2>2. CASE what = "report" /\ Proceed /\ UNCHANGED engine
    BY <1>22, <2>2 DEF Report, Advances
  <2>3. ASSUME NEW ok \in BOOLEAN, P!StepEmits(Me, ok), UNCHANGED cancelled,
               todo' = When(Subject = "item", << <<"summarize", "item">> >>) \o Tail(todo),
               UNCHANGED outcome
        PROVE  Advances(what, on) /\ Kept
    BY <1>22, <2>1, <2>3 DEF Report, Advances, P!StepEmits
  <2>5. ASSUME NEW ok \in BOOLEAN, P!StepEmits(Me, ok), UNCHANGED cancelled, Abort
        PROVE  Aborts /\ Kept
    BY <1>22, <2>1, <2>5 DEF Report, Abort, Aborts, P!StepEmits
  <2> QED BY <1>22, <2>1, <2>2, <2>3, <2>5 DEF Report
<1>23. CASE Summarize
  BY <1>23 DEF Summarize, Advances, P!StepAddsSummary
<1>24. CASE Disclose
  BY <1>24 DEF Disclose, Abort, Advances, Aborts, P!StepEmits
<1>25. CASE DeferUndo
  BY <1>25 DEF DeferUndo, Advances, P!StepDefers
<1> QED
  BY <1>1, <1>2, <1>3, <1>4, <1>5, <1>6, <1>7, <1>8, <1>9, <1>10, <1>11, <1>12,
     <1>13, <1>14, <1>15, <1>16, <1>17, <1>18, <1>19, <1>20, <1>21, <1>22, <1>23,
     <1>24, <1>25
  DEF Operation

(* The steps done, none in a dry run, and those that owe an undo.          *)
Done(k) == IF Me \in dry THEN {} ELSE {Steps[i] : i \in 1..k}
Owed    == {Steps[stack[Me][i]] : i \in DOMAIN stack[Me]}

Layout == IF Bootloader = "grub2" THEN {"root", "boot", "esp"} ELSE {"root", "esp"}

(* These places are mounted, and beyond them binds that would not go.      *)
Mounted(places) == places \subseteq mounts /\ mounts \subseteq places \cup (blamed \cap Binds)

Container(made, open) == (luks <=> made) /\ (mapper = "open" <=> open)

(* What the steps in D leave behind.                                       *)
Target(D)     == IF "mount-target" \in D THEN Layout ELSE {}
TypeAfter(D)  == IF "retag-root" \in D THEN "dps"
                 ELSE IF "partition" \in D THEN "linux" ELSE "unset"
ImageAfter(D) == IF "bootc-install" \in D /\ Mok THEN "ready" ELSE "none"
Opened(D)     == Container("luks-format" \in D, "luks-format" \in D)
Owes(D) ==
    /\ "luks-format" \in D => "luks-format" \in Owed
    /\ "mount-target" \in D => "mount-target" \in Owed
    /\ "bootc-install" \in D /\ Mok => "bootc-install" \in Owed

Between(D) ==
    /\ Mounted(Target(D)) /\ Opened(D) /\ Owes(D)
    /\ rootType = TypeAfter(D) /\ image = ImageAfter(D) /\ ~override /\ ~frozen

-----------------------------------------------------------------------------
(* The points of each step: what is left of it, and what holds there.      *)

(* The target is in place.                                                 *)
Installed(D) ==
    /\ "mount-target" \in D /\ (Encrypted => "luks-format" \in D)
    /\ Mok => "bootc-install" \in D

(* Steps that change nothing any property looks at; some work on the target. *)
PlainPoints  == {RunPreflight, << <<"report", "info">> >>, RunFormatBoot,
                 << <<"write", "fs">> >>, << <<"report", "item">> >>,
                 << <<"summarize", "item">> >>}
TargetPoints == {RunTPMEnroll, RunESPStage, RunConfigure, RunMOKStage}

OnPlain(D) ==
    /\ Between(D)
    /\ \/ todo \in PlainPoints
       \/ todo \in TargetPoints /\ Installed(D) /\ (todo \in {RunESPStage, RunMOKStage} => Mok)

OnPartition(D) == todo = RunPartition /\ Between(D)

(* runLuksFormat from the format, from the first look for a stale mapper,  *)
(* and from luksOpen.                                                      *)
DeferMapper   == << <<"defer", "mapper">> >>
OpenLuks      == OpenMapper \o DeferMapper
FormatAndOpen == << <<"luksFormat", "root">> >> \o OpenLuks
LastOpen(rest) == << <<"luksOpen", "mapper">> >> \o rest

OnLuksFormat(D) ==
    /\ Mounted(Target(D)) /\ Owes(D)
    /\ rootType = TypeAfter(D) /\ image = ImageAfter(D) /\ ~override /\ ~frozen
    /\ \/ todo = RunLuksFormat /\ Container(FALSE, FALSE)
       \/ /\ todo = FormatAndOpen
          /\ Container(FALSE, FALSE) /\ (Encryption = "tpm2-luks" => disclosed)
       \/ todo = OpenLuks /\ Container(TRUE, FALSE)
       \/ todo = LastOpen(DeferMapper) /\ Container(TRUE, FALSE)
       \/ todo = DeferMapper /\ Container(TRUE, TRUE)

Subvols       == << <<"subvols", "scratch">>, <<"umount", "scratch">> >>
RunSubvolumes == << <<"mount", "scratch">>, <<"subvols", "scratch">>, <<"umount", "scratch">> >>

OnFormatRoot(D) ==
    /\ Opened(D) /\ Owes(D)
    /\ rootType = TypeAfter(D) /\ image = ImageAfter(D) /\ ~override /\ ~frozen
    /\ \/ todo \in {RunFormatRoot, RunSubvolumes} /\ Mounted(Target(D))
       \/ todo \in {Subvols, << <<"umount", "scratch">> >>} /\ Mounted(Target(D) \cup {"scratch"})

(* disk.MountTarget, and what follows it.                                  *)
MountBoot == << <<"mount", "boot">>, <<"mount", "esp">> >>
MountESP  == << <<"mount", "esp">> >>

OnMounts(rest) ==
    \/ todo = MountTarget \o rest /\ Mounted({})
    \/ /\ todo = MountBoot \o rest
       /\ Bootloader = "grub2" /\ Mounted({"root"})
    \/ todo = MountESP \o rest /\ Mounted(Layout \ {"esp"})

DeferTarget == << <<"defer", "target">> >>

OnMountTarget(D) ==
    /\ Opened(D) /\ Owes(D)
    /\ rootType = TypeAfter(D) /\ image = ImageAfter(D) /\ ~override /\ ~frozen
    /\ \/ OnMounts(DeferTarget)
       \/ todo = DeferTarget /\ Mounted(Layout)

LastTeardown == When(RamHost, Teardown)
AfterInstall == When(Mok, ExtractImage) \o LastTeardown
RunInstall   == << <<"install", "target">> >> \o AfterInstall

RedirectStore  == << <<"bind", "store">>, <<"bind", "vartmp">>,
                     <<"announce", "redirect">>, <<"override", "on">> >>
RedirectVarTmp == << <<"bind", "vartmp">>, <<"announce", "redirect">>, <<"override", "on">> >>
Announce       == << <<"announce", "redirect">>, <<"override", "on">> >>
OverrideOn     == << <<"override", "on">> >>

OnRedirect ==
    /\ RamHost /\ ~override
    /\ \/ todo = Redirect \o RunInstall /\ Mounted(Layout)
       \/ todo = RedirectStore \o RunInstall /\ Mounted(Layout \cup {"base"})
       \/ todo = RedirectVarTmp \o RunInstall /\ Mounted(Layout \cup {"base", "store"})
       \/ /\ todo \in {Announce \o RunInstall, OverrideOn \o RunInstall}
          /\ Mounted(Layout \cup Binds)

(* What podman sees.                                                       *)
Redirected == (override <=> RamHost) /\ Mounted(IF RamHost THEN Layout \cup Binds ELSE Layout)

Extract    == << <<"extract", "image">>, <<"defer", "image">> >>
DeferImage == << <<"defer", "image">> >>

OnExtract ==
    /\ Mok /\ Redirected
    /\ \/ todo = ExtractImage \o LastTeardown /\ image = "none"
       \/ todo = Extract \o LastTeardown /\ image = "dir"
       \/ todo = DeferImage \o LastTeardown /\ image = "ready"

DetachAll     == << <<"detach", "vartmp">>, <<"detach", "store">>,
                    <<"detach", "base">>, <<"remove", "base">> >>
DetachStore   == << <<"detach", "store">>, <<"detach", "base">>, <<"remove", "base">> >>
DetachBase    == << <<"detach", "base">>, <<"remove", "base">> >>
RemoveBaseDir == << <<"remove", "base">> >>

OnTeardown ==
    /\ RamHost
    /\ \/ todo = Teardown /\ Mounted(Layout \cup Binds)
       \/ todo = DetachAll /\ Mounted(Layout \cup Binds) /\ ~override
       \/ todo = DetachStore /\ Mounted(Layout \cup {"base", "store"}) /\ ~override
       \/ todo = DetachBase /\ Mounted(Layout \cup {"base"}) /\ ~override
       \/ todo = RemoveBaseDir /\ Mounted(Layout) /\ ~override

OnBootcInstall(D) ==
    /\ Opened(D) /\ rootType = TypeAfter(D) /\ ~frozen
    /\ \/ OnRedirect /\ image = "none" /\ Owes(D)
       \/ todo = RunInstall /\ Redirected /\ image = "none" /\ Owes(D)
       \/ OnExtract /\ Owes(D)
       \/ /\ OnTeardown
          /\ image = ImageAfter(D \cup {"bootc-install"}) /\ Owes(D \cup {"bootc-install"})

Reopen        == When(Encrypted, OpenMapper) \o MountTarget
WaitAndReopen == << <<"wait", "root">> >> \o Reopen
RunRetype     == << <<"setType", "root">>, <<"wait", "root">> >> \o Reopen
CloseFirst    == << <<"luksClose", "mapper">> >> \o RunRetype

OnRetag(D) ==
    /\ Owes(D) /\ image = ImageAfter(D) /\ ~override /\ ~frozen
    /\ \/ todo = RunRetagRoot /\ Mounted(Layout) /\ Opened(D) /\ rootType = TypeAfter(D)
       \/ /\ todo = CloseFirst /\ Encrypted
          /\ Mounted({}) /\ Opened(D) /\ rootType = TypeAfter(D)
       \/ /\ todo = RunRetype
          /\ Mounted({}) /\ Container(Encrypted, FALSE) /\ rootType = TypeAfter(D)
       \/ /\ \/ todo = WaitAndReopen
             \/ /\ todo \in {OpenMapper \o MountTarget, LastOpen(MountTarget)}
                /\ Encrypted
          /\ Mounted({}) /\ Container(Encrypted, FALSE) /\ rootType = "dps"
       \/ OnMounts(<<>>) /\ Container(Encrypted, Encrypted) /\ rootType = "dps"

WriteReadonly == << <<"write", "readonly">>, <<"freeze", "target">>, <<"thaw", "target">> >>
FreezeAndThaw == << <<"freeze", "target">>, <<"thaw", "target">> >>
ThawTarget    == << <<"thaw", "target">> >>

OnFinalize(D) ==
    /\ Mounted(Target(D)) /\ Opened(D) /\ Owes(D)
    /\ rootType = TypeAfter(D) /\ image = ImageAfter(D) /\ ~override
    /\ \/ todo \in {RunFinalize, WriteReadonly, FreezeAndThaw} /\ ~frozen
       \/ todo = ThawTarget /\ frozen

On(name, D) ==
    CASE name = "partition"     -> OnPartition(D)
      [] name = "luks-format"   -> OnLuksFormat(D)
      [] name = "format-root"   -> OnFormatRoot(D)
      [] name = "mount-target"  -> OnMountTarget(D)
      [] name = "bootc-install" -> OnBootcInstall(D)
      [] name = "retag-root"    -> OnRetag(D)
      [] name = "finalize"      -> OnFinalize(D)
      [] OTHER                  -> OnPlain(D)

(* Nothing has failed: the step is over, or at one of its points.          *)
InOrder ==
    \/ todo = <<>> /\ Between(Done(step[Me]))
    \/ On(Steps[step[Me]], Done(step[Me] - 1))

-----------------------------------------------------------------------------
(* What may be left once something has failed.  A command killed too late  *)
(* may have left anything.                                                 *)
Leak(extra) ==
    cancelled # "late" =>
       /\ mounts \subseteq {"scratch"} \cup blamed \cup extra
                           \cup (IF "mount-target" \in Owed THEN TargetTree ELSE {})
       /\ mounts \cap Binds \subseteq blamed \cup extra
       /\ mapper = "open" => "luks-format" \in Owed

Thawed == frozen /\ cancelled # "late" => "frozen" \in blamed

(* The error paths: what is left to do, and what may be left behind.       *)
OnErrorPath ==
    \/ todo \in {<<>>, << <<"umount", "scratch">> >>} /\ Leak({}) /\ Thawed /\ ~override
    \/ todo = << <<"unwindTree", "target">> >> /\ Leak(TargetTree \ Binds) /\ Thawed /\ ~override
    \/ todo = << <<"rescue", "target">> >> /\ Leak({}) /\ ~override
    \/ todo \in {Detaches, DetachAll} /\ Leak(Binds) /\ Thawed /\ ~override
    \/ /\ todo \in {Tail(Detaches), DetachStore}
       /\ Leak({"store", "base"}) /\ Thawed /\ ~override
    \/ /\ todo \in {<< <<"detach", "base">> >>, DetachBase}
       /\ Leak({"base"}) /\ Thawed /\ ~override
    \/ todo = RemoveBaseDir /\ Leak({}) /\ Thawed /\ ~override
    \/ todo = Teardown /\ Leak(Binds) /\ Thawed

(* The undos: what is left is owed, said or counted; and a run without an  *)
(* error has done every step.                                              *)
Unwinding ==
    /\ ~override /\ Thawed
    /\ cancelled # "late" => mounts \cap Binds \subseteq blamed
    /\ fails[Me] = 0 => Leak({})
    /\ Me \notin err \cup dry /\ fails[Me] = 0 =>
          LET D == Done(Len(Steps)) IN
          /\ mounts \subseteq (IF "mount-target" \in Owed THEN Layout ELSE {}) \cup (blamed \cap Binds)
          /\ (luks <=> Encrypted) /\ rootType = TypeAfter(D) /\ ~frozen
          /\ mapper = "open" => "luks-format" \in Owed
          /\ image # "none" => "bootc-install" \in Owed

PlaceInv ==
    /\ pc[Me] \in {"idle", "started"} => step[Me] = 0
    /\ pc[Me] = "run" => step[Me] \in DOMAIN Steps
    /\ pc[Me] # "crashed"
    /\ pc[Me] # "run" \/ ~P!Executes(Me) => todo = <<>>
    /\ pc[Me] = "run" /\ ~P!Executes(Me) => outcome = "ok"

MachineInv ==
    /\ pc[Me] \in {"idle", "started", "steps"} => Between(Done(step[Me]))
    /\ pc[Me] = "run" => IF outcome = "ok" THEN InOrder ELSE OnErrorPath
    /\ pc[Me] \notin {"idle", "started", "steps", "run"} => Unwinding

KeyInv == KeyIsDisclosed /\ (luks => Encrypted)

-----------------------------------------------------------------------------
(* The operations of the bodies.                                           *)
Whats == Commands \cup {"report", "announce", "disclose", "summarize", "defer",
                        "umount", "unwindTree", "detach", "remove", "rescue"}
Subjects == {"host", "info", "item", "disk", "fs", "root", "boot", "esp", "base",
             "store", "vartmp", "scratch", "key", "mapper", "target", "image",
             "redirect", "on", "off", "trim", "readonly"}
Moves == {"mount", "bind", "umount", "detach"}
Ops == {<<a, b>> : a \in Whats \ Moves, b \in Subjects} \cup {<<a, b>> : a \in Moves, b \in Places}

(* An operation, and the rest of the step after it.                        *)
Splits(s, op, rest) == s # <<>> /\ Head(s) = op /\ Tail(s) = rest

LEMMA Pop ==
    ASSUME NEW s \in Seq(Ops), NEW t \in Seq(Ops), s # <<>>
    PROVE  Splits(s \o t, Head(s), Tail(s) \o t)
<1>1. Len(s) \in Nat /\ Len(s) > 0 /\ Len(t) \in Nat
  BY EmptySeq, LenProperties
<1>2. /\ s \o t \in Seq(Ops) /\ Len(s \o t) = Len(s) + Len(t)
      /\ \A i \in 1..(Len(s) + Len(t)) : (s \o t)[i] = IF i <= Len(s) THEN s[i] ELSE t[i - Len(s)]
  BY ConcatProperties
<1>3. s \o t # <<>>
  BY <1>1, <1>2, EmptySeq
<1>4. Head(s \o t) = Head(s)
  BY <1>1, <1>2
<1>5. Tail(s \o t) = Tail(s) \o t
  <2>1. /\ Tail(s) \in Seq(Ops) /\ Len(Tail(s)) = Len(s) - 1
        /\ \A i \in 1..Len(Tail(s)) : Tail(s)[i] = s[i + 1]
    BY HeadTailProperties
  <2>2. /\ Tail(s \o t) \in Seq(Ops) /\ Len(Tail(s \o t)) = Len(s) + Len(t) - 1
        /\ \A i \in 1..Len(Tail(s \o t)) : Tail(s \o t)[i] = (s \o t)[i + 1]
    BY <1>2, <1>3, HeadTailProperties
  <2>3. /\ Tail(s) \o t \in Seq(Ops) /\ Len(Tail(s) \o t) = Len(s) - 1 + Len(t)
        /\ \A i \in 1..(Len(s) - 1 + Len(t)) :
              (Tail(s) \o t)[i] = IF i <= Len(s) - 1 THEN Tail(s)[i] ELSE t[i - (Len(s) - 1)]
    BY <2>1, ConcatProperties
  <2>4. \A i \in 1..(Len(s) + Len(t) - 1) : Tail(s \o t)[i] = (Tail(s) \o t)[i]
    <3> TAKE i \in 1..(Len(s) + Len(t) - 1)
    <3>1. i \in 1..(Len(s) - 1 + Len(t)) /\ i + 1 \in 1..(Len(s) + Len(t))
      BY <1>1
    <3>2. CASE i <= Len(s) - 1
      BY <1>1, <1>2, <2>1, <2>2, <2>3, <3>1, <3>2
    <3>3. CASE ~(i <= Len(s) - 1)
      <4>1. ~(i + 1 <= Len(s)) /\ (i + 1) - Len(s) = i - (Len(s) - 1)
        BY <1>1, <3>1, <3>3
      <4>2. Tail(s \o t)[i] = t[i - (Len(s) - 1)]
        BY <4>1, <1>1, <1>2, <2>2, <3>1
      <4>3. (Tail(s) \o t)[i] = t[i - (Len(s) - 1)]
        BY <2>3, <3>1, <3>3
      <4> QED BY <4>2, <4>3
    <3> QED BY <3>2, <3>3
  <2> QED BY <1>1, <2>2, <2>3, <2>4, SeqEqual
<1> QED BY <1>3, <1>4, <1>5 DEF Splits

LEMMA Concat == \A s, t \in Seq(Ops) : s \o t \in Seq(Ops)
BY ConcatProperties

LEMMA NoConcat == \A s \in Seq(Ops) : <<>> \o s = s /\ s \o <<>> = s
BY ConcatEmptySeq

LEMMA OpTypes ==
    /\ <<"check", "host">> \in Ops /\ <<"report", "info">> \in Ops
    /\ <<"report", "item">> \in Ops /\ <<"summarize", "item">> \in Ops
    /\ <<"write", "fs">> \in Ops /\ <<"write", "trim">> \in Ops
    /\ <<"write", "readonly">> \in Ops /\ <<"disclose", "key">> \in Ops
    /\ <<"check", "key">> \in Ops /\ <<"luksFormat", "root">> \in Ops
    /\ <<"closeStale", "mapper">> \in Ops /\ <<"luksOpen", "mapper">> \in Ops
    /\ <<"defer", "mapper">> \in Ops /\ <<"luksClose", "mapper">> \in Ops
    /\ <<"mount", "scratch">> \in Ops /\ <<"subvols", "scratch">> \in Ops
    /\ <<"umount", "scratch">> \in Ops /\ <<"mount", "root">> \in Ops
    /\ <<"mount", "boot">> \in Ops /\ <<"mount", "esp">> \in Ops
    /\ <<"defer", "target">> \in Ops /\ <<"bind", "base">> \in Ops
    /\ <<"bind", "store">> \in Ops /\ <<"bind", "vartmp">> \in Ops
    /\ <<"announce", "redirect">> \in Ops /\ <<"override", "on">> \in Ops
    /\ <<"override", "off">> \in Ops /\ <<"install", "target">> \in Ops
    /\ <<"mkdir", "image">> \in Ops /\ <<"extract", "image">> \in Ops
    /\ <<"defer", "image">> \in Ops /\ <<"detach", "vartmp">> \in Ops
    /\ <<"detach", "store">> \in Ops /\ <<"detach", "base">> \in Ops
    /\ <<"remove", "base">> \in Ops /\ <<"umountTree", "target">> \in Ops
    /\ <<"setType", "root">> \in Ops /\ <<"wait", "root">> \in Ops
    /\ <<"enroll", "target">> \in Ops /\ <<"stage", "target">> \in Ops
    /\ <<"configure", "target">> \in Ops /\ <<"freeze", "target">> \in Ops
    /\ <<"thaw", "target">> \in Ops /\ <<"import", "image">> \in Ops
    /\ <<"partition", "disk">> \in Ops
BY DEF Ops, Moves, Whats, Subjects, Commands, Places, TargetTree, RootFS, Binds

LEMMA PieceTypes ==
    /\ OpenMapper \in Seq(Ops)
    /\ DeferMapper \in Seq(Ops)
    /\ DeferTarget \in Seq(Ops)
    /\ MountBoot \in Seq(Ops)
    /\ MountESP \in Seq(Ops)
    /\ Redirect \in Seq(Ops)
    /\ RedirectStore \in Seq(Ops)
    /\ RedirectVarTmp \in Seq(Ops)
    /\ Announce \in Seq(Ops)
    /\ OverrideOn \in Seq(Ops)
    /\ Teardown \in Seq(Ops)
    /\ ExtractImage \in Seq(Ops)
    /\ Extract \in Seq(Ops)
    /\ DeferImage \in Seq(Ops)
    /\ RunSubvolumes \in Seq(Ops)
    /\ <<>> \in Seq(Ops)
<1>1. OpenMapper \in Seq(Ops)
  BY OpTypes DEF OpenMapper
<1>2. DeferMapper \in Seq(Ops)
  BY OpTypes DEF DeferMapper
<1>3. DeferTarget \in Seq(Ops)
  BY OpTypes DEF DeferTarget
<1>4. MountBoot \in Seq(Ops)
  BY OpTypes DEF MountBoot
<1>5. MountESP \in Seq(Ops)
  BY OpTypes DEF MountESP
<1>6. Redirect \in Seq(Ops)
  BY OpTypes DEF Redirect
<1>7. RedirectStore \in Seq(Ops)
  BY OpTypes DEF RedirectStore
<1>8. RedirectVarTmp \in Seq(Ops)
  BY OpTypes DEF RedirectVarTmp
<1>9. Announce \in Seq(Ops)
  BY OpTypes DEF Announce
<1>10. OverrideOn \in Seq(Ops)
  BY OpTypes DEF OverrideOn
<1>11. Teardown \in Seq(Ops)
  BY OpTypes DEF Teardown
<1>12. ExtractImage \in Seq(Ops)
  BY OpTypes DEF ExtractImage
<1>13. Extract \in Seq(Ops)
  BY OpTypes DEF Extract
<1>14. DeferImage \in Seq(Ops)
  BY OpTypes DEF DeferImage
<1>15. RunSubvolumes \in Seq(Ops)
  BY OpTypes DEF RunSubvolumes
<1> QED BY <1>1, <1>2, <1>3, <1>4, <1>5, <1>6, <1>7, <1>8, <1>9, <1>10, <1>11, <1>12, <1>13, <1>14, <1>15

LEMMA Pop1 ==
    ASSUME NEW a \in Ops, NEW t \in Seq(Ops) PROVE Splits(<<a>> \o t, a, t)
<1>1. <<a>> \in Seq(Ops) /\ <<a>> # <<>> /\ Head(<<a>>) = a /\ Tail(<<a>>) = <<>>
  OBVIOUS
<1> QED BY <1>1, Pop, NoConcat

LEMMA Pop2 ==
    ASSUME NEW a \in Ops, NEW b \in Ops, NEW t \in Seq(Ops)
    PROVE  Splits(<<a, b>> \o t, a, <<b>> \o t)
<1>1. <<a, b>> \in Seq(Ops) /\ <<a, b>> # <<>> /\ Head(<<a, b>>) = a /\ Tail(<<a, b>>) = <<b>>
  OBVIOUS
<1> QED BY <1>1, Pop

LEMMA Pop3 ==
    ASSUME NEW a \in Ops, NEW b \in Ops, NEW c \in Ops, NEW t \in Seq(Ops)
    PROVE  Splits(<<a, b, c>> \o t, a, <<b, c>> \o t)
<1>1. /\ <<a, b, c>> \in Seq(Ops) /\ <<a, b, c>> # <<>>
      /\ Head(<<a, b, c>>) = a /\ Tail(<<a, b, c>>) = <<b, c>>
  OBVIOUS
<1> QED BY <1>1, Pop

LEMMA Pop4 ==
    ASSUME NEW a \in Ops, NEW b \in Ops, NEW c \in Ops, NEW d \in Ops, NEW t \in Seq(Ops)
    PROVE  Splits(<<a, b, c, d>> \o t, a, <<b, c, d>> \o t)
<1>1. /\ <<a, b, c, d>> \in Seq(Ops) /\ <<a, b, c, d>> # <<>>
      /\ Head(<<a, b, c, d>>) = a /\ Tail(<<a, b, c, d>>) = <<b, c, d>>
  OBVIOUS
<1> QED BY <1>1, Pop

LEMMA Pop5 ==
    ASSUME NEW a \in Ops, NEW b \in Ops, NEW c \in Ops, NEW d \in Ops, NEW e \in Ops,
           NEW t \in Seq(Ops)
    PROVE  Splits(<<a, b, c, d, e>> \o t, a, <<b, c, d, e>> \o t)
<1>1. /\ <<a, b, c, d, e>> \in Seq(Ops) /\ <<a, b, c, d, e>> # <<>>
      /\ Head(<<a, b, c, d, e>>) = a /\ Tail(<<a, b, c, d, e>>) = <<b, c, d, e>>
  OBVIOUS
<1> QED BY <1>1, Pop

LEMMA JoinOnes ==
    ASSUME NEW a \in Ops, NEW b \in Ops PROVE <<a>> \o <<b>> = <<a, b>>
<1>1. <<a>> \o <<b>> \in Seq(Ops) /\ <<a, b>> \in Seq(Ops) /\ Len(<<a>> \o <<b>>) = 2
  OBVIOUS
<1>2. \A i \in 1..2 : (<<a>> \o <<b>>)[i] = <<a, b>>[i]
  OBVIOUS
<1> QED BY <1>1, <1>2, SeqEqual

LEMMA JoinTwoOne ==
    ASSUME NEW a \in Ops, NEW b \in Ops, NEW c \in Ops PROVE <<a, b>> \o <<c>> = <<a, b, c>>
<1>1. <<a, b>> \o <<c>> \in Seq(Ops) /\ <<a, b, c>> \in Seq(Ops) /\ Len(<<a, b>> \o <<c>>) = 3
  OBVIOUS
<1>2. \A i \in 1..3 : (<<a, b>> \o <<c>>)[i] = <<a, b, c>>[i]
  OBVIOUS
<1> QED BY <1>1, <1>2, SeqEqual

LEMMA Assoc3 == \A s, t, u \in Seq(Ops) : (s \o t) \o u = s \o (t \o u)
BY ConcatAssociative

-----------------------------------------------------------------------------
(* The points of each step follow one another.                             *)
LEMMA PlainSplits ==
    /\ Splits(RunPreflight, <<"check", "host">>, << <<"report", "info">> >>)
    /\ Splits(<< <<"report", "info">> >>, <<"report", "info">>, <<>>)
    /\ Splits(<< <<"write", "fs">> >>, <<"write", "fs">>, <<>>)
    /\ Splits(RunTPMEnroll, <<"enroll", "target">>, <<>>)
    /\ Splits(RunESPStage, <<"stage", "target">>, <<>>)
    /\ Splits(RunConfigure, <<"configure", "target">>, << <<"report", "item">> >>)
    /\ Splits(<< <<"report", "item">> >>, <<"report", "item">>, <<>>)
    /\ Splits(<< <<"summarize", "item">> >>, <<"summarize", "item">>, <<>>)
    /\ Splits(RunMOKStage, <<"import", "image">>, <<>>)
    /\ Splits(RunPartition, <<"partition", "disk">>, <<>>)
BY DEF Splits, RunPreflight, RunTPMEnroll, RunESPStage, RunConfigure, RunMOKStage, RunPartition

LEMMA FormatBootSplits ==
    \/ Splits(RunFormatBoot, <<"write", "fs">>, <<>>)
    \/ Splits(RunFormatBoot, <<"write", "fs">>, << <<"write", "fs">> >>)
<1>1. CASE Bootloader = "grub2"
  <2>1. RunFormatBoot = << <<"write", "fs">> >> \o << <<"write", "fs">> >>
    BY <1>1 DEF RunFormatBoot, When
  <2>2. << <<"write", "fs">> >> \in Seq(Ops)
    BY OpTypes
  <2> QED BY <2>1, <2>2, OpTypes, Pop1
<1>2. CASE Bootloader # "grub2"
  <2>1. RunFormatBoot = << <<"write", "fs">> >> \o <<>>
    BY <1>2 DEF RunFormatBoot, When
  <2> QED BY <2>1, OpTypes, PieceTypes, Pop1
<1> QED BY <1>1, <1>2

LEMMA LuksSplits ==
    /\ Splits(RunLuksFormat, IF Encryption = "tpm2-luks" THEN <<"disclose", "key">>
                             ELSE <<"check", "key">>, FormatAndOpen)
    /\ Splits(FormatAndOpen, <<"luksFormat", "root">>, OpenLuks)
    /\ Splits(OpenLuks, <<"closeStale", "mapper">>, LastOpen(DeferMapper))
    /\ Splits(LastOpen(DeferMapper), <<"luksOpen", "mapper">>, DeferMapper)
    /\ Splits(DeferMapper, <<"defer", "mapper">>, <<>>)
<1> DEFINE key == IF Encryption = "tpm2-luks" THEN <<"disclose", "key">> ELSE <<"check", "key">>
           start == <<key, <<"luksFormat", "root">> >>
<1>0. key \in Ops
  BY OpTypes
<1>1. OpenLuks \in Seq(Ops)
  BY PieceTypes, Concat DEF OpenLuks
<1>2. start \in Seq(Ops)
  BY <1>0, OpTypes
<1>3. RunLuksFormat = start \o OpenLuks
  <2>1. RunLuksFormat = (start \o OpenMapper) \o DeferMapper
    BY DEF RunLuksFormat, DeferMapper
  <2> HIDE DEF start
  <2>2. (start \o OpenMapper) \o DeferMapper = start \o (OpenMapper \o DeferMapper)
    <3>1. OpenMapper \in Seq(Ops)
      BY PieceTypes
    <3>2. DeferMapper \in Seq(Ops)
      BY PieceTypes
    <3> QED BY <1>2, <3>1, <3>2, Assoc3
  <2> QED BY <2>1, <2>2 DEF OpenLuks
<1>4. Splits(RunLuksFormat, key, FormatAndOpen)
  <2> HIDE DEF key
  <2> QED BY <1>0, <1>1, <1>3, OpTypes, Pop2 DEF FormatAndOpen
<1>5. Splits(FormatAndOpen, <<"luksFormat", "root">>, OpenLuks)
  BY <1>1, OpTypes, Pop1 DEF FormatAndOpen
<1>6. Splits(OpenLuks, <<"closeStale", "mapper">>, LastOpen(DeferMapper))
  BY OpTypes, PieceTypes, Pop2 DEF OpenLuks, OpenMapper, LastOpen
<1>7. Splits(LastOpen(DeferMapper), <<"luksOpen", "mapper">>, DeferMapper)
  BY OpTypes, PieceTypes, Pop1 DEF LastOpen
<1>8. Splits(DeferMapper, <<"defer", "mapper">>, <<>>)
  BY DEF Splits, DeferMapper
<1> QED BY <1>4, <1>5, <1>6, <1>7, <1>8

LEMMA FormatRootSplits ==
    /\ Splits(RunFormatRoot, <<"write", "fs">>, IF Subvolumes THEN RunSubvolumes ELSE <<>>)
    /\ Splits(RunSubvolumes, <<"mount", "scratch">>, Subvols)
    /\ Splits(Subvols, <<"subvols", "scratch">>, << <<"umount", "scratch">> >>)
    /\ Splits(<< <<"umount", "scratch">> >>, <<"umount", "scratch">>, <<>>)
<1>1. RunFormatRoot = << <<"write", "fs">> >> \o (IF Subvolumes THEN RunSubvolumes ELSE <<>>)
  BY DEF RunFormatRoot, When, RunSubvolumes
<1>2. Splits(RunFormatRoot, <<"write", "fs">>, IF Subvolumes THEN RunSubvolumes ELSE <<>>)
  BY <1>1, OpTypes, PieceTypes, Pop1
<1> QED BY <1>2 DEF Splits, RunSubvolumes, Subvols

LEMMA MountSplits ==
    ASSUME NEW rest \in Seq(Ops)
    PROVE  /\ Splits(MountTarget \o rest, <<"mount", "root">>,
                     (IF Bootloader = "grub2" THEN MountBoot ELSE MountESP) \o rest)
           /\ Splits(MountBoot \o rest, <<"mount", "boot">>, MountESP \o rest)
           /\ Splits(MountESP \o rest, <<"mount", "esp">>, rest)
<1>1. Splits(MountBoot \o rest, <<"mount", "boot">>, MountESP \o rest)
  BY OpTypes, Pop2 DEF MountBoot, MountESP
<1>2. Splits(MountESP \o rest, <<"mount", "esp">>, rest)
  BY OpTypes, Pop1 DEF MountESP
<1>3. CASE Bootloader = "grub2"
  <2>1. MountTarget = << <<"mount", "root">>, <<"mount", "boot">> >> \o MountESP
    BY <1>3, OpTypes, JoinOnes DEF MountTarget, When, MountESP
  <2>2. MountTarget = << <<"mount", "root">>, <<"mount", "boot">>, <<"mount", "esp">> >>
    BY <2>1, OpTypes, JoinTwoOne DEF MountESP
  <2>3. Splits(MountTarget \o rest, <<"mount", "root">>, MountBoot \o rest)
    BY <2>2, OpTypes, Pop3 DEF MountBoot
  <2> QED BY <1>3, <1>1, <1>2, <2>3
<1>4. CASE Bootloader # "grub2"
  <2>1. MountTarget = << <<"mount", "root">> >> \o MountESP
    <3>1. << <<"mount", "root">> >> \in Seq(Ops)
      BY OpTypes
    <3> QED BY <1>4, <3>1, NoConcat DEF MountTarget, When, MountESP
  <2>2. MountTarget = << <<"mount", "root">>, <<"mount", "esp">> >>
    BY <2>1, OpTypes, JoinOnes DEF MountESP
  <2>3. Splits(MountTarget \o rest, <<"mount", "root">>, MountESP \o rest)
    BY <2>2, OpTypes, Pop2 DEF MountESP
  <2> QED BY <1>4, <1>1, <1>2, <2>3
<1> QED BY <1>3, <1>4

LEMMA MountTargetType == MountTarget \in Seq(Ops)
<1>1. << <<"mount", "root">> >> \in Seq(Ops) /\ << <<"mount", "boot">> >> \in Seq(Ops)
  BY OpTypes
<1>2. When(Bootloader = "grub2", << <<"mount", "boot">> >>) \in Seq(Ops)
  BY <1>1, PieceTypes DEF When
<1> QED BY <1>1, <1>2, PieceTypes, Concat DEF MountTarget, MountESP

LEMMA DeferTargetSplits == Splits(DeferTarget, <<"defer", "target">>, <<>>)
BY DEF Splits, DeferTarget

LEMMA InstallType ==
    /\ LastTeardown \in Seq(Ops) /\ AfterInstall \in Seq(Ops) /\ RunInstall \in Seq(Ops)
    /\ When(RamHost, Redirect) \in Seq(Ops)
<1>1. LastTeardown \in Seq(Ops) /\ When(Mok, ExtractImage) \in Seq(Ops)
      /\ When(RamHost, Redirect) \in Seq(Ops)
  BY PieceTypes DEF LastTeardown, When
<1>2. AfterInstall \in Seq(Ops)
  BY <1>1, Concat DEF AfterInstall
<1>3. << <<"install", "target">> >> \in Seq(Ops)
  BY OpTypes
<1>4. RunInstall \in Seq(Ops)
  BY <1>2, <1>3, Concat DEF RunInstall
<1> QED BY <1>1, <1>2, <1>4

LEMMA BootcInstallIs == RunBootcInstall = IF RamHost THEN Redirect \o RunInstall ELSE RunInstall
<1> DEFINE r == When(RamHost, Redirect)
           i == << <<"install", "target">> >>
           x == When(Mok, ExtractImage)
<1>r. r \in Seq(Ops)
  BY InstallType
<1>i. i \in Seq(Ops)
  BY OpTypes
<1>x. x \in Seq(Ops)
  BY PieceTypes DEF When
<1>l. LastTeardown \in Seq(Ops)
  BY InstallType
<1>2. RunBootcInstall = ((r \o i) \o x) \o LastTeardown
  BY DEF RunBootcInstall, LastTeardown
<1>3. RunInstall = i \o (x \o LastTeardown)
  BY DEF RunInstall, AfterInstall
<1> HIDE DEF r, i, x
<1> DEFINE p == r \o i
           t == x \o LastTeardown
<1>4. p \in Seq(Ops)
  BY <1>r, <1>i, Concat
<1>5. t \in Seq(Ops)
  BY <1>x, <1>l, Concat
<1>6. (p \o x) \o LastTeardown = p \o t
  <2> HIDE DEF p
  <2> QED BY <1>4, <1>x, <1>l, Assoc3
<1>7. p \o t = r \o (i \o t)
  <2> HIDE DEF t
  <2> QED BY <1>5, <1>r, <1>i, Assoc3
<1>8. RunBootcInstall = r \o RunInstall
  BY <1>2, <1>3, <1>6, <1>7
<1> QED BY <1>8, InstallType, NoConcat DEF r, When

LEMMA RedirectSplits ==
    /\ Splits(Redirect \o RunInstall, <<"bind", "base">>, RedirectStore \o RunInstall)
    /\ Splits(RedirectStore \o RunInstall, <<"bind", "store">>, RedirectVarTmp \o RunInstall)
    /\ Splits(RedirectVarTmp \o RunInstall, <<"bind", "vartmp">>, Announce \o RunInstall)
    /\ Splits(Announce \o RunInstall, <<"announce", "redirect">>, OverrideOn \o RunInstall)
    /\ Splits(OverrideOn \o RunInstall, <<"override", "on">>, RunInstall)
<1> USE OpTypes, InstallType
<1>1. Splits(Redirect \o RunInstall, <<"bind", "base">>, RedirectStore \o RunInstall)
  BY Pop5 DEF Redirect, RedirectStore
<1>2. Splits(RedirectStore \o RunInstall, <<"bind", "store">>, RedirectVarTmp \o RunInstall)
  BY Pop4 DEF RedirectStore, RedirectVarTmp
<1>3. Splits(RedirectVarTmp \o RunInstall, <<"bind", "vartmp">>, Announce \o RunInstall)
  BY Pop3 DEF RedirectVarTmp, Announce
<1>4. Splits(Announce \o RunInstall, <<"announce", "redirect">>, OverrideOn \o RunInstall)
  BY Pop2 DEF Announce, OverrideOn
<1>5. Splits(OverrideOn \o RunInstall, <<"override", "on">>, RunInstall)
  BY Pop1 DEF OverrideOn
<1> QED BY <1>1, <1>2, <1>3, <1>4, <1>5

LEMMA InstallSplits ==
    /\ Splits(RunInstall, <<"install", "target">>,
              IF Mok THEN ExtractImage \o LastTeardown ELSE LastTeardown)
    /\ Splits(ExtractImage \o LastTeardown, <<"mkdir", "image">>, Extract \o LastTeardown)
    /\ Splits(Extract \o LastTeardown, <<"extract", "image">>, DeferImage \o LastTeardown)
    /\ Splits(DeferImage \o LastTeardown, <<"defer", "image">>, LastTeardown)
<1> USE OpTypes, InstallType
<1>1. AfterInstall = IF Mok THEN ExtractImage \o LastTeardown ELSE LastTeardown
  BY NoConcat DEF AfterInstall, When
<1>2. Splits(RunInstall, <<"install", "target">>, AfterInstall)
  BY Pop1 DEF RunInstall
<1>3. Splits(ExtractImage \o LastTeardown, <<"mkdir", "image">>, Extract \o LastTeardown)
  BY Pop3 DEF ExtractImage, Extract
<1>4. Splits(Extract \o LastTeardown, <<"extract", "image">>, DeferImage \o LastTeardown)
  BY Pop2 DEF Extract, DeferImage
<1>5. Splits(DeferImage \o LastTeardown, <<"defer", "image">>, LastTeardown)
  BY Pop1 DEF DeferImage
<1> QED BY <1>1, <1>2, <1>3, <1>4, <1>5

LEMMA TeardownSplits ==
    /\ Splits(Teardown, <<"override", "off">>, DetachAll)
    /\ Splits(DetachAll, <<"detach", "vartmp">>, DetachStore)
    /\ Splits(DetachStore, <<"detach", "store">>, DetachBase)
    /\ Splits(DetachBase, <<"detach", "base">>, RemoveBaseDir)
    /\ Splits(RemoveBaseDir, <<"remove", "base">>, <<>>)
BY DEF Splits, Teardown, DetachAll, DetachStore, DetachBase, RemoveBaseDir

LEMMA ErrorSplits ==
    /\ Splits(Detaches, <<"detach", "vartmp">>, Tail(Detaches))
    /\ Splits(Tail(Detaches), <<"detach", "store">>, << <<"detach", "base">> >>)
    /\ Splits(<< <<"detach", "base">> >>, <<"detach", "base">>, <<>>)
    /\ Splits(<< <<"unwindTree", "target">> >>, <<"unwindTree", "target">>, <<>>)
    /\ Splits(<< <<"rescue", "target">> >>, <<"rescue", "target">>, <<>>)
BY DEF Splits, Detaches

LEMMA RetagType ==
    /\ Reopen \in Seq(Ops) /\ RunRetype \in Seq(Ops)
    /\ Reopen = IF Encrypted THEN OpenMapper \o MountTarget ELSE MountTarget
<1>1. Reopen = IF Encrypted THEN OpenMapper \o MountTarget ELSE MountTarget
  BY MountTargetType, NoConcat DEF Reopen, When
<1>2. Reopen \in Seq(Ops)
  BY <1>1, MountTargetType, PieceTypes, Concat
<1>3. << <<"setType", "root">>, <<"wait", "root">> >> \in Seq(Ops)
  BY OpTypes
<1> QED BY <1>1, <1>2, <1>3, Concat DEF RunRetype

LEMMA RetagSplits ==
    /\ Splits(RunRetagRoot, <<"umountTree", "target">>, IF Encrypted THEN CloseFirst ELSE RunRetype)
    /\ Splits(CloseFirst, <<"luksClose", "mapper">>, RunRetype)
    /\ Splits(RunRetype, <<"setType", "root">>, WaitAndReopen)
    /\ Splits(WaitAndReopen, <<"wait", "root">>, Reopen)
    /\ Splits(OpenMapper \o MountTarget, <<"closeStale", "mapper">>, LastOpen(MountTarget))
    /\ Splits(LastOpen(MountTarget), <<"luksOpen", "mapper">>, MountTarget)
<1> DEFINE u == << <<"umountTree", "target">> >>
           c == When(Encrypted, << <<"luksClose", "mapper">> >>)
           s == << <<"setType", "root">>, <<"wait", "root">> >>
           o == When(Encrypted, OpenMapper)
<1>0. << <<"luksClose", "mapper">> >> \in Seq(Ops)
  BY OpTypes
<1>u. u \in Seq(Ops)
  BY OpTypes
<1>c. c \in Seq(Ops)
  BY <1>0, PieceTypes DEF When
<1>s. s \in Seq(Ops)
  BY OpTypes
<1>o. o \in Seq(Ops)
  BY PieceTypes DEF When
<1>2. RunRetagRoot = (((u \o c) \o s) \o o) \o MountTarget
  BY DEF RunRetagRoot
<1>3. RunRetype = s \o (o \o MountTarget)
  BY DEF RunRetype, Reopen
<1>4. RunRetagRoot = u \o (c \o RunRetype)
  <2> HIDE DEF u, c, s, o
  <2> DEFINE p == u \o c
             q == p \o s
             m == o \o MountTarget
             k == s \o m
  <2>1. p \in Seq(Ops)
    BY <1>u, <1>c, Concat
  <2>2. m \in Seq(Ops)
    BY <1>o, MountTargetType, Concat
  <2>3. q \in Seq(Ops)
    BY <2>1, <1>s, Concat
  <2>4. k \in Seq(Ops)
    BY <2>2, <1>s, Concat
  <2>5. (q \o o) \o MountTarget = q \o m
    <3> HIDE DEF q
    <3> QED BY <2>3, <1>o, MountTargetType, Assoc3
  <2>6. q \o m = p \o k
    <3> HIDE DEF p, m
    <3> QED BY <2>1, <2>2, <1>s, Assoc3
  <2>7. p \o k = u \o (c \o k)
    <3> HIDE DEF k
    <3> QED BY <2>4, <1>u, <1>c, Assoc3
  <2> QED BY <1>2, <1>3, <2>5, <2>6, <2>7
<1>5. c \o RunRetype = IF Encrypted THEN CloseFirst ELSE RunRetype
  BY RetagType, NoConcat DEF When, CloseFirst
<1>6. Splits(RunRetagRoot, <<"umountTree", "target">>, IF Encrypted THEN CloseFirst ELSE RunRetype)
  <2>1. c \o RunRetype \in Seq(Ops)
    BY <1>c, RetagType, Concat
  <2> HIDE DEF c
  <2> QED BY <1>4, <1>5, <2>1, OpTypes, Pop1
<1>7. Splits(CloseFirst, <<"luksClose", "mapper">>, RunRetype)
  BY OpTypes, RetagType, Pop1 DEF CloseFirst
<1>8. Splits(RunRetype, <<"setType", "root">>, WaitAndReopen)
  BY OpTypes, RetagType, Pop2 DEF RunRetype, WaitAndReopen
<1>9. Splits(WaitAndReopen, <<"wait", "root">>, Reopen)
  BY OpTypes, RetagType, Pop1 DEF WaitAndReopen
<1>10. Splits(OpenMapper \o MountTarget, <<"closeStale", "mapper">>, LastOpen(MountTarget))
  BY OpTypes, MountTargetType, Pop2 DEF OpenMapper, LastOpen
<1>11. Splits(LastOpen(MountTarget), <<"luksOpen", "mapper">>, MountTarget)
  BY OpTypes, MountTargetType, Pop1 DEF LastOpen
<1> QED BY <1>6, <1>7, <1>8, <1>9, <1>10, <1>11

LEMMA FinalizeSplits ==
    /\ Splits(RunFinalize, <<"write", "trim">>, WriteReadonly)
    /\ Splits(WriteReadonly, <<"write", "readonly">>, FreezeAndThaw)
    /\ Splits(FreezeAndThaw, <<"freeze", "target">>, ThawTarget)
    /\ Splits(ThawTarget, <<"thaw", "target">>, <<>>)
BY DEF Splits, RunFinalize, WriteReadonly, FreezeAndThaw, ThawTarget

(* What the clean-up of a failing operation may find left.                 *)
Exposed(op) ==
    IF op \in {<<"mount", "boot">>, <<"mount", "esp">>} THEN TargetTree \ Binds
    ELSE IF op = <<"bind", "store">> THEN {"base"}
    ELSE IF op = <<"bind", "vartmp">> THEN {"store", "base"}
    ELSE IF op[1] = "announce" \/ op = <<"override", "on">> THEN Binds
    ELSE IF op[1] \in {"install", "mkdir", "extract"} /\ RamHost THEN Binds
    ELSE {}

(* An operation that fails leaves no more than there was.                  *)
LEMMA AbortKeeps ==
    ASSUME Aborts
    PROVE  /\ \A extra : Leak(extra) => Leak(extra)'
           /\ Thawed => Thawed'
           /\ Owed' = Owed
<1>1. Owed' = Owed
  BY DEF Aborts, Owed
<1>2. ASSUME NEW extra, Leak(extra) PROVE Leak(extra)'
  <2>1. CASE cancelled' = "late"
    BY <2>1 DEF Leak
  <2>2. CASE cancelled' # "late"
    <3>1. cancelled # "late" /\ mounts' \subseteq mounts /\ mapper' = mapper /\ blamed \subseteq blamed'
      BY <2>2 DEF Aborts
    <3> DEFINE target == IF "mount-target" \in Owed THEN TargetTree ELSE {}
    <3>2. /\ mounts \subseteq {"scratch"} \cup blamed \cup extra \cup target
          /\ mounts \cap Binds \subseteq blamed \cup extra
          /\ mapper = "open" => "luks-format" \in Owed
      BY <1>2, <3>1 DEF Leak
    <3>3. target' = target
      BY <1>1
    <3> HIDE DEF target
    <3>4. mounts' \subseteq {"scratch"} \cup blamed' \cup extra \cup target
      BY <3>1, <3>2
    <3>5. mounts' \cap Binds \subseteq blamed' \cup extra
      BY <3>1, <3>2
    <3>6. mapper' = "open" => "luks-format" \in Owed'
      BY <1>1, <3>1, <3>2
    <3> QED BY <3>3, <3>4, <3>5, <3>6 DEF Leak, target
  <2> QED BY <2>1, <2>2
<1>3. Thawed => Thawed'
  BY DEF Aborts, Thawed
<1> QED BY <1>1, <1>2, <1>3

(* ... so that the clean-up that replaces the step finds what it expects.  *)
LEMMA AbortEnters ==
    ASSUME NEW op, op = Head(todo), Aborts, Leak(Exposed(op)),
           op[1] # "thaw" => Thawed,
           ~override \/ (RamHost /\ op[1] \in {"install", "mkdir", "extract"})
    PROVE  OnErrorPath' /\ outcome' = "failed"
<1> DEFINE rescue == << <<"rescue", "target">> >>
<1>1. /\ Leak(Exposed(op))' /\ (op[1] # "thaw" => Thawed') /\ outcome' = "failed"
      /\ todo' = CleanUpOf(op, rescue) /\ override' = override
  <2>1. todo' = CleanUpOf(op, rescue) /\ override' = override /\ outcome' = "failed"
    BY DEF Aborts, CleanUp
  <2>2. Leak(Exposed(op))'
    BY AbortKeeps
  <2>3. op[1] # "thaw" => Thawed'
    BY AbortKeeps
  <2> QED BY <2>1, <2>2, <2>3
<1>2. CASE op \in {<<"mount", "boot">>, <<"mount", "esp">>}
  <2>1. todo' = << <<"unwindTree", "target">> >> /\ Exposed(op) = TargetTree \ Binds
    BY <1>1, <1>2 DEF CleanUpOf, Exposed
  <2>2. op[1] = "mount"
    BY <1>2
  <2>3. Leak(Exposed(op))' /\ Thawed' /\ ~override' /\ outcome' = "failed"
    BY <1>1, <2>2
  <2> QED BY <2>1, <2>3 DEF OnErrorPath
<1>3. CASE op[1] = "subvols"
  <2>1. todo' = << <<"umount", "scratch">> >> /\ Exposed(op) = {}
    BY <1>1, <1>3 DEF CleanUpOf, Exposed
  <2> QED BY <1>1, <1>3, <2>1 DEF OnErrorPath
<1>4. CASE op = <<"bind", "store">>
  <2>1. todo' = << <<"detach", "base">> >> /\ Exposed(op) = {"base"}
    BY <1>1, <1>4 DEF CleanUpOf, Exposed
  <2>2. op[1] = "bind"
    BY <1>4
  <2>3. Leak(Exposed(op))' /\ Thawed' /\ ~override' /\ outcome' = "failed"
    BY <1>1, <2>2
  <2> QED BY <2>1, <2>3 DEF OnErrorPath
<1>5. CASE op = <<"bind", "vartmp">>
  <2>1. todo' = Tail(Detaches) /\ Exposed(op) = {"store", "base"}
    BY <1>1, <1>5 DEF CleanUpOf, Exposed
  <2>2. op[1] = "bind"
    BY <1>5
  <2>3. Leak(Exposed(op))' /\ Thawed' /\ ~override' /\ outcome' = "failed"
    BY <1>1, <2>2
  <2> QED BY <2>1, <2>3 DEF OnErrorPath
<1>6. CASE op[1] = "announce" \/ op = <<"override", "on">>
  <2>1. todo' = Detaches /\ Exposed(op) = Binds
    BY <1>1, <1>6 DEF CleanUpOf, Exposed
  <2> QED BY <1>1, <1>6, <2>1 DEF OnErrorPath
<1>7. CASE op[1] \in {"install", "mkdir", "extract"}
  <2>1. CASE RamHost
    <3>1. todo' = Teardown /\ Exposed(op) = Binds
      BY <1>1, <1>7, <2>1 DEF CleanUpOf, Exposed, When
    <3> QED BY <1>1, <1>7, <3>1 DEF OnErrorPath
  <2>2. CASE ~RamHost
    <3>1. todo' = <<>> /\ Exposed(op) = {}
      BY <1>1, <1>7, <2>2 DEF CleanUpOf, Exposed, When
    <3> QED BY <1>1, <1>7, <2>2, <3>1 DEF OnErrorPath
  <2> QED BY <2>1, <2>2
<1>8. CASE op[1] = "thaw"
  <2>1. todo' = rescue /\ Exposed(op) = {}
    BY <1>1, <1>8 DEF CleanUpOf, Exposed
  <2> QED BY <1>1, <1>8, <2>1 DEF OnErrorPath
<1>9. CASE /\ op \notin {<<"mount", "boot">>, <<"mount", "esp">>} /\ op[1] # "subvols"
           /\ op # <<"bind", "store">> /\ op # <<"bind", "vartmp">> /\ op # <<"override", "on">>
           /\ op[1] \notin {"announce", "install", "mkdir", "extract", "thaw"}
  <2>1. todo' = <<>> /\ Exposed(op) = {}
    BY <1>1, <1>9 DEF CleanUpOf, Exposed
  <2> QED BY <1>1, <1>9, <2>1 DEF OnErrorPath
<1> QED BY <1>2, <1>3, <1>4, <1>5, <1>6, <1>7, <1>8, <1>9

-----------------------------------------------------------------------------
(* On the error paths themselves.                                          *)
LEMMA ErrorPathGoesOn ==
    ASSUME NEW what, NEW on, <<what, on>> = Head(todo), todo # <<>>, OnErrorPath,
           Advances(what, on) \/ Aborts
    PROVE  OnErrorPath' /\ outcome' \in {outcome, "failed"}
<1>0. outcome' \in {outcome, "failed"}
  BY DEF Advances, Aborts
<1>a. Aborts => what \in Commands \cup {"disclose", "report", "announce", "umount"}
                /\ <<what, on>> # <<"override", "off">>
  BY DEF Aborts
<1> DEFINE Stays == /\ mapper' = mapper /\ Owed' = Owed /\ cancelled' = cancelled
                    /\ blamed \subseteq blamed'
<1>1. CASE todo = << <<"umount", "scratch">> >> /\ Leak({}) /\ Thawed /\ ~override
  <2>1. what = "umount" /\ on = "scratch" /\ Tail(todo) = <<>>
    BY <1>1
  <2>2. CASE Aborts
    <3>1. PICK op : op = Head(todo)
      OBVIOUS
    <3>2. op[1] = "umount" /\ op = <<"umount", "scratch">> /\ Exposed(op) = {}
      BY <2>1, <3>1 DEF Exposed
    <3>3. Leak(Exposed(op))
      BY <1>1, <3>2
    <3>4. op[1] # "thaw" => Thawed
      BY <1>1
    <3>7. ~override
      BY <1>1
    <3>5. ~override \/ (RamHost /\ op[1] \in {"install", "mkdir", "extract"})
      BY <3>7
    <3>6. OnErrorPath' /\ outcome' = "failed"
      BY <2>2, <3>1, <3>3, <3>4, <3>5, AbortEnters
    <3> QED BY <3>6
  <2>3. CASE Advances("umount", "scratch")
    <3>1. todo' = <<>> /\ mounts' = mounts \ {"scratch"} /\ frozen' = frozen /\ override' = override
      BY <2>1, <2>3 DEF Advances, TodoAfter, MountsAfter, FrozenAfter, RestAfter
    <3>2. Stays
      BY <2>3 DEF Advances, StackAfter, MapperAfter, RestAfter, Owed
    <3>3. Leak({})' /\ Thawed'
      BY <1>1, <3>1, <3>2 DEF Leak, Thawed
    <3> QED BY <1>0, <1>1, <3>1, <3>3 DEF OnErrorPath
  <2> QED BY <2>1, <2>2, <2>3
<1>2. CASE todo = << <<"unwindTree", "target">> >> /\ Leak(TargetTree \ Binds) /\ Thawed /\ ~override
  <2>1. what = "unwindTree" /\ on = "target" /\ Tail(todo) = <<>>
    BY <1>2
  <2>2. Advances("unwindTree", "target")
    BY <1>a, <2>1 DEF Commands
  <2>3. /\ todo' = <<>> /\ mounts' \subseteq mounts /\ mounts' \cap TargetTree \subseteq blamed'
        /\ frozen' = frozen /\ override' = override
    BY <2>1, <2>2 DEF Advances, TodoAfter, MountsAfter, FrozenAfter, RestAfter
  <2>4. Stays
    BY <2>2 DEF Advances, StackAfter, MapperAfter, RestAfter, Owed
  <2>5. Leak({})' /\ Thawed'
    BY <1>2, <2>3, <2>4 DEF Leak, Thawed
  <2> QED BY <1>0, <1>2, <2>3, <2>5 DEF OnErrorPath
<1>3. CASE todo = << <<"rescue", "target">> >> /\ Leak({}) /\ ~override
  <2>1. what = "rescue" /\ on = "target" /\ Tail(todo) = <<>>
    BY <1>3
  <2>2. Advances("rescue", "target")
    BY <1>a, <2>1 DEF Commands
  <2>3. /\ todo' = <<>> /\ mounts' = mounts /\ (frozen' => "frozen" \in blamed') /\ override' = override
    BY <2>1, <2>2 DEF Advances, TodoAfter, MountsAfter, FrozenAfter, RestAfter
  <2>4. Stays
    BY <2>2 DEF Advances, StackAfter, MapperAfter, RestAfter, Owed
  <2>5. Leak({})' /\ Thawed'
    BY <1>3, <2>3, <2>4 DEF Leak, Thawed
  <2> QED BY <1>0, <1>3, <2>3, <2>5 DEF OnErrorPath
<1> DEFINE Detached(place) ==
        /\ todo' = Tail(todo) /\ mounts' \subseteq mounts
        /\ place \in mounts' => place \in blamed'
        /\ frozen' = frozen /\ override' = override
        /\ Stays
<1>d. ASSUME what = "detach" PROVE Detached(on)
  <2>1. Advances("detach", on)
    BY <1>a, <1>d DEF Commands
  <2>2. /\ todo' = Tail(todo) /\ mounts' \subseteq mounts /\ (on \in mounts' => on \in blamed')
        /\ frozen' = frozen /\ override' = override
    BY <2>1 DEF Advances, TodoAfter, MountsAfter, FrozenAfter, RestAfter
  <2>3. Stays
    BY <2>1 DEF Advances, StackAfter, MapperAfter, RestAfter, Owed
  <2> QED BY <2>2, <2>3
<1>4. CASE todo \in {Detaches, DetachAll} /\ Leak(Binds) /\ Thawed /\ ~override
  <2>a. todo = Detaches => Head(todo) = <<"detach", "vartmp">> /\ Tail(todo) = Tail(Detaches)
    BY ErrorSplits DEF Splits
  <2>b. todo = DetachAll => Head(todo) = <<"detach", "vartmp">> /\ Tail(todo) = DetachStore
    BY TeardownSplits DEF Splits
  <2>c. Head(todo) = <<"detach", "vartmp">> /\ Tail(todo) \in {Tail(Detaches), DetachStore}
    BY <1>4, <2>a, <2>b
  <2>1. what = "detach" /\ on = "vartmp" /\ Tail(todo) \in {Tail(Detaches), DetachStore}
    BY <2>c
  <2>2. Detached("vartmp")
    BY <2>1, <1>d
  <2>3. Leak({"store", "base"})' /\ Thawed'
    BY <1>4, <2>2 DEF Leak, Thawed, Binds
  <2> QED BY <1>0, <1>4, <2>1, <2>2, <2>3 DEF OnErrorPath
<1>5. CASE todo \in {Tail(Detaches), DetachStore} /\ Leak({"store", "base"}) /\ Thawed /\ ~override
  <2>a. todo = Tail(Detaches) => Head(todo) = <<"detach", "store">> /\ Tail(todo) = << <<"detach", "base">> >>
    BY ErrorSplits DEF Splits
  <2>b. todo = DetachStore => Head(todo) = <<"detach", "store">> /\ Tail(todo) = DetachBase
    BY TeardownSplits DEF Splits
  <2>c. Head(todo) = <<"detach", "store">> /\ Tail(todo) \in {<< <<"detach", "base">> >>, DetachBase}
    BY <1>5, <2>a, <2>b
  <2>1. what = "detach" /\ on = "store" /\ Tail(todo) \in {<< <<"detach", "base">> >>, DetachBase}
    BY <2>c
  <2>2. Detached("store")
    BY <2>1, <1>d
  <2>3. Leak({"base"})' /\ Thawed'
    BY <1>5, <2>2 DEF Leak, Thawed
  <2> QED BY <1>0, <1>5, <2>1, <2>2, <2>3 DEF OnErrorPath
<1>6. CASE todo \in {<< <<"detach", "base">> >>, DetachBase} /\ Leak({"base"}) /\ Thawed /\ ~override
  <2>a. todo = << <<"detach", "base">> >> => Head(todo) = <<"detach", "base">> /\ Tail(todo) = <<>>
    BY ErrorSplits DEF Splits
  <2>b. todo = DetachBase => Head(todo) = <<"detach", "base">> /\ Tail(todo) = RemoveBaseDir
    BY TeardownSplits DEF Splits
  <2>c. Head(todo) = <<"detach", "base">> /\ Tail(todo) \in {<<>>, RemoveBaseDir}
    BY <1>6, <2>a, <2>b
  <2>1. what = "detach" /\ on = "base" /\ Tail(todo) \in {<<>>, RemoveBaseDir}
    BY <2>c
  <2>2. Detached("base")
    BY <2>1, <1>d
  <2>3. Leak({})' /\ Thawed'
    BY <1>6, <2>2 DEF Leak, Thawed
  <2> QED BY <1>0, <1>6, <2>1, <2>2, <2>3 DEF OnErrorPath
<1>7. CASE todo = RemoveBaseDir /\ Leak({}) /\ Thawed /\ ~override
  <2>1. what = "remove" /\ on = "base" /\ Tail(todo) = <<>>
    BY <1>7, TeardownSplits DEF Splits
  <2>2. Advances("remove", "base")
    BY <1>a, <2>1 DEF Commands
  <2>3. todo' = <<>> /\ mounts' = mounts /\ frozen' = frozen /\ override' = override
    BY <2>1, <2>2 DEF Advances, TodoAfter, MountsAfter, FrozenAfter, RestAfter
  <2>4. Stays
    BY <2>2 DEF Advances, StackAfter, MapperAfter, RestAfter, Owed
  <2>5. Leak({})' /\ Thawed'
    BY <1>7, <2>3, <2>4 DEF Leak, Thawed
  <2> QED BY <1>0, <1>7, <2>3, <2>5 DEF OnErrorPath
<1>8. CASE todo = Teardown /\ Leak(Binds) /\ Thawed
  <2>1. what = "override" /\ on = "off" /\ Tail(todo) = DetachAll
    BY <1>8, TeardownSplits DEF Splits
  <2>2. Advances("override", "off")
    BY <1>a, <2>1
  <2>3. todo' = DetachAll /\ mounts' = mounts /\ frozen' = frozen /\ ~override'
    BY <2>1, <2>2 DEF Advances, TodoAfter, MountsAfter, FrozenAfter, RestAfter
  <2>4. Stays
    BY <2>2 DEF Advances, StackAfter, MapperAfter, RestAfter, Owed
  <2>5. Leak(Binds)' /\ Thawed'
    BY <1>8, <2>3, <2>4 DEF Leak, Thawed
  <2> QED BY <1>0, <2>3, <2>5 DEF OnErrorPath
<1> QED BY <1>1, <1>2, <1>3, <1>4, <1>5, <1>6, <1>7, <1>8 DEF OnErrorPath

-----------------------------------------------------------------------------
(* What an operation finds: the demands of the properties, by operation.   *)
Ready ==
    /\ todo # <<>>
    /\ Head(todo)[1] \in {"install", "extract"} /\ RamHost => override /\ Binds \subseteq mounts
    /\ Head(todo)[1] \in {"umountTree", "configure", "freeze"} =>
          ~override /\ mounts \cap Binds \subseteq blamed
    /\ Head(todo)[1] = "setType" => mapper # "open" /\ mounts \subseteq blamed
    /\ Head(todo)[1] \in {"install", "extract", "enroll", "stage", "configure", "freeze"} =>
          /\ Layout \subseteq mounts
          /\ Encrypted => luks /\ mapper = "open"
    /\ Head(todo)[1] \in {"stage", "import"} => image = "ready"
    /\ Head(todo)[1] = "luksFormat" => (Encryption = "tpm2-luks" => disclosed)

(* Operations the properties do not look at.                               *)
Harmless == {"check", "report", "announce", "write", "subvols", "install", "enroll",
             "import", "stage", "wait", "configure", "summarize", "remove"}

Same == UNCHANGED <<mounts, mapper, luks, rootType, frozen, override, image, blamed, stack>>

LEMMA HarmlessSame ==
    ASSUME NEW what \in Harmless, NEW on, Advances(what, on)
    PROVE  Same /\ disclosed' = disclosed
BY DEF Harmless, Same, Advances, StackAfter, MountsAfter, MapperAfter, FrozenAfter, RestAfter

LEMMA SameOwed == stack' = stack => Owed' = Owed
BY DEF Owed

LEMMA SameBetween ==
    ASSUME NEW D, Same, Between(D)
    PROVE  Between(D)'
<1>1. Mounted(Target(D))'
  BY DEF Same, Between, Mounted
<1>2. Opened(D)'
  BY DEF Same, Between, Opened, Container
<1>3. Owes(D)'
  BY SameOwed DEF Same, Between, Owes
<1> QED BY <1>1, <1>2, <1>3 DEF Same, Between

(* Where nothing has failed there is nothing to hide.                      *)
LEMMA Fits ==
    ASSUME NEW places, NEW extra, Mounted(places),
           places \subseteq {"scratch"} \cup extra
                            \cup (IF "mount-target" \in Owed THEN TargetTree ELSE {}),
           places \cap Binds \subseteq extra,
           mapper = "open" => "luks-format" \in Owed
    PROVE  Leak(extra)
BY DEF Leak, Mounted

LEMMA TargetFits ==
    ASSUME NEW D, Opened(D), Owes(D)
    PROVE  /\ Target(D) \subseteq IF "mount-target" \in Owed THEN TargetTree ELSE {}
           /\ Target(D) \cap Binds = {}
           /\ mapper = "open" => "luks-format" \in Owed
BY DEF Opened, Container, Owes, Target, Layout, TargetTree, Binds

LEMMA BetweenLeaksNothing ==
    ASSUME NEW D, Opened(D), Owes(D), Mounted(Target(D))
    PROVE  Leak({})
BY Fits, TargetFits

-----------------------------------------------------------------------------
LEMMA Plain ==
    ASSUME NEW what, NEW on, Head(todo) = <<what, on>>, NEW D, OnPlain(D)
    PROVE  /\ todo # <<>>
           /\ what \in {"check", "report", "write", "enroll", "stage", "configure",
                        "summarize", "import"}
           /\ TodoAfter(what, on) =>
                 todo' \in {<<>>} \cup PlainPoints
           /\ what \in {"enroll", "stage", "configure", "import"} => Installed(D)
           /\ what \in {"stage", "import"} => Mok
<1>s. << <<"summarize", "item">> >> \in Seq(Ops)
  BY OpTypes
<1>e. /\ << <<"summarize", "item">> >> \o <<>> = << <<"summarize", "item">> >>
      /\ <<>> \o <<>> = <<>>
  BY <1>s, NoConcat, PieceTypes
<1>1. CASE todo = RunPreflight
  <2>1. todo # <<>> /\ Head(todo) = <<"check", "host">> /\ Tail(todo) = << <<"report", "info">> >>
    BY <1>1, PlainSplits DEF Splits
  <2>2. what = "check" /\ on = "host"
    BY <2>1
  <2> QED BY <2>1, <2>2 DEF TodoAfter, PlainPoints, TargetPoints
<1>2. CASE todo = << <<"report", "info">> >>
  <2>1. todo # <<>> /\ Head(todo) = <<"report", "info">> /\ Tail(todo) = <<>>
    BY <1>2, PlainSplits DEF Splits
  <2>2. what = "report" /\ on = "info"
    BY <2>1
  <2> QED BY <2>1, <2>2, <1>e DEF TodoAfter, PlainPoints, TargetPoints, When
<1>3. CASE todo = RunFormatBoot
  <2>1. todo # <<>> /\ Head(todo) = <<"write", "fs">> /\ Tail(todo) \in {<<>>, << <<"write", "fs">> >>}
    BY <1>3, FormatBootSplits DEF Splits
  <2>2. what = "write" /\ on = "fs"
    BY <2>1
  <2> QED BY <2>1, <2>2 DEF TodoAfter, PlainPoints, TargetPoints
<1>4. CASE todo = << <<"write", "fs">> >>
  <2>1. todo # <<>> /\ Head(todo) = <<"write", "fs">> /\ Tail(todo) = <<>>
    BY <1>4, PlainSplits DEF Splits
  <2>2. what = "write" /\ on = "fs"
    BY <2>1
  <2> QED BY <2>1, <2>2 DEF TodoAfter, PlainPoints, TargetPoints
<1>5. CASE todo = RunTPMEnroll /\ Installed(D)
  <2>1. todo # <<>> /\ Head(todo) = <<"enroll", "target">> /\ Tail(todo) = <<>>
    BY <1>5, PlainSplits DEF Splits
  <2>2. what = "enroll" /\ on = "target"
    BY <2>1
  <2> QED BY <1>5, <2>1, <2>2 DEF TodoAfter, PlainPoints
<1>6. CASE todo = RunESPStage /\ Installed(D) /\ Mok
  <2>1. todo # <<>> /\ Head(todo) = <<"stage", "target">> /\ Tail(todo) = <<>>
    BY <1>6, PlainSplits DEF Splits
  <2>2. what = "stage" /\ on = "target"
    BY <2>1
  <2> QED BY <1>6, <2>1, <2>2 DEF TodoAfter, PlainPoints
<1>7. CASE todo = RunConfigure /\ Installed(D)
  <2>1. todo # <<>> /\ Head(todo) = <<"configure", "target">> /\ Tail(todo) = << <<"report", "item">> >>
    BY <1>7, PlainSplits DEF Splits
  <2>2. what = "configure" /\ on = "target"
    BY <2>1
  <2> QED BY <1>7, <2>1, <2>2 DEF TodoAfter, PlainPoints
<1>8. CASE todo = << <<"report", "item">> >>
  <2>1. todo # <<>> /\ Head(todo) = <<"report", "item">> /\ Tail(todo) = <<>>
    BY <1>8, PlainSplits DEF Splits
  <2>2. what = "report" /\ on = "item"
    BY <2>1
  <2> QED BY <2>1, <2>2, <1>e DEF TodoAfter, PlainPoints, TargetPoints, When
<1>9. CASE todo = << <<"summarize", "item">> >>
  <2>1. todo # <<>> /\ Head(todo) = <<"summarize", "item">> /\ Tail(todo) = <<>>
    BY <1>9, PlainSplits DEF Splits
  <2>2. what = "summarize" /\ on = "item"
    BY <2>1
  <2> QED BY <2>1, <2>2 DEF TodoAfter, PlainPoints, TargetPoints
<1>10. CASE todo = RunMOKStage /\ Installed(D) /\ Mok
  <2>1. todo # <<>> /\ Head(todo) = <<"import", "image">> /\ Tail(todo) = <<>>
    BY <1>10, PlainSplits DEF Splits
  <2>2. what = "import" /\ on = "image"
    BY <2>1
  <2> QED BY <1>10, <2>1, <2>2 DEF TodoAfter, PlainPoints
<1> QED BY <1>1, <1>2, <1>3, <1>4, <1>5, <1>6, <1>7, <1>8, <1>9, <1>10 DEF OnPlain, PlainPoints, TargetPoints

LEMMA AbortPlain ==
    ASSUME NEW what, NEW on, Head(todo) = <<what, on>>, Aborts, Leak({}), Thawed, ~override,
           what \notin {"mount", "bind", "announce", "override", "install", "mkdir", "extract"}
    PROVE  outcome' = "failed" /\ OnErrorPath'
<1>1. PICK op : op = Head(todo)
  OBVIOUS
<1>2. op = <<what, on>> /\ op[1] = what
  BY <1>1
<1>3. op \notin {<<"mount", "boot">>, <<"mount", "esp">>, <<"bind", "store">>,
                 <<"bind", "vartmp">>, <<"override", "on">>}
  BY <1>2
<1>4. Exposed(op) = {}
  BY <1>2, <1>3 DEF Exposed
<1>5. Leak(Exposed(op))
  BY <1>4
<1>6. op[1] # "thaw" => Thawed
  OBVIOUS
<1>7. ~override \/ (RamHost /\ op[1] \in {"install", "mkdir", "extract"})
  OBVIOUS
<1> QED BY <1>1, <1>5, <1>6, <1>7, AbortEnters

LEMMA SameAfter ==
    ASSUME NEW D, NEW name, Between(D)', name \notin {"partition", "luks-format", "mount-target", "bootc-install", "retag-root"}
    PROVE  Between(D \cup {name})'
<1>1. /\ Target(D \cup {name}) = Target(D) /\ TypeAfter(D \cup {name}) = TypeAfter(D)
      /\ ImageAfter(D \cup {name}) = ImageAfter(D)
  BY DEF Target, TypeAfter, ImageAfter
<1>2. Opened(D)' => Opened(D \cup {name})'
  BY DEF Opened
<1>3. Owes(D)' => Owes(D \cup {name})'
  BY DEF Owes
<1> QED BY <1>1, <1>2, <1>3 DEF Between

LEMMA PlainGoesOn ==
    ASSUME NEW what, NEW on, Head(todo) = <<what, on>>,
           NEW D, OnPlain(D), NEW name,
           name \notin {"partition", "luks-format", "mount-target", "bootc-install", "retag-root"}
    PROVE  /\ Ready
           /\ Advances(what, on) \/ Aborts =>
                 \/ /\ outcome' = outcome
                    /\ OnPlain(D)' \/ (todo' = <<>> /\ Between(D \cup {name})')
                 \/ outcome' = "failed" /\ OnErrorPath'
<1>1. /\ todo # <<>>
      /\ what \in {"check", "report", "write", "enroll", "stage", "configure",
                   "summarize", "import"}
      /\ TodoAfter(what, on) => todo' \in {<<>>} \cup PlainPoints
      /\ what \in {"enroll", "stage", "configure", "import"} => Installed(D)
      /\ what \in {"stage", "import"} => Mok
  BY Plain
<1>2. Between(D) /\ Head(todo)[1] = what
  BY DEF OnPlain
<1>3. mounts \cap Binds \subseteq blamed
  BY <1>2, TargetFits DEF Between, Mounted
<1>4. Ready
  <2>1. Installed(D) => Layout \subseteq mounts /\ (Encrypted => luks /\ mapper = "open")
    BY <1>2 DEF Between, Installed, Mounted, Target, Opened, Container
  <2>2. Installed(D) /\ Mok => image = "ready"
    BY <1>2 DEF Between, Installed, ImageAfter
  <2>3. ~override
    BY <1>2 DEF Between
  <2> QED BY <1>1, <1>2, <1>3, <2>1, <2>2, <2>3 DEF Ready
<1>5. CASE Advances(what, on)
  <2>1. what \in Harmless
    BY <1>1 DEF Harmless
  <2>2. Between(D)'
    BY <1>2, <1>5, <2>1, HarmlessSame, SameBetween
  <2>3. todo' = <<>> \/ todo' \in PlainPoints
    BY <1>1, <1>5 DEF Advances
  <2>4. Between(D \cup {name})'
    BY <2>2, SameAfter
  <2> QED BY <1>4, <1>5, <2>2, <2>3, <2>4 DEF OnPlain, Advances
<1>6. CASE Aborts
  <2>1. Leak({}) /\ Thawed /\ ~override
    BY <1>2, BetweenLeaksNothing DEF Between, Thawed
  <2> QED BY <1>1, <1>4, <1>6, <2>1, AbortPlain
<1> QED BY <1>4, <1>5, <1>6

LEMMA PartitionGoesOn ==
    ASSUME NEW what, NEW on, Head(todo) = <<what, on>>,
           NEW D, OnPartition(D), "retag-root" \notin D
    PROVE  /\ Ready
           /\ Advances(what, on) \/ Aborts =>
                 \/ outcome' = outcome /\ todo' = <<>> /\ Between(D \cup {"partition"})'
                 \/ outcome' = "failed" /\ OnErrorPath'
<1>1. todo # <<>> /\ Head(todo) = <<"partition", "disk">> /\ Tail(todo) = <<>> /\ Between(D)
  BY PlainSplits DEF OnPartition, Splits
<1>2. what = "partition" /\ on = "disk"
  BY <1>1
<1>3. Ready
  BY <1>1 DEF Ready
<1>4. CASE Advances("partition", "disk")
  <2>1. /\ outcome' = outcome /\ todo' = <<>> /\ stack' = stack /\ mounts' = mounts
        /\ mapper' = mapper /\ frozen' = frozen /\ luks' = luks /\ rootType' = "linux"
        /\ image' = image /\ override' = override /\ blamed' = blamed
    BY <1>1, <1>4
    DEF Advances, TodoAfter, StackAfter, MountsAfter, MapperAfter, FrozenAfter, RestAfter
  <2> DEFINE F == D \cup {"partition"}
  <2>2. Target(F) = Target(D) /\ TypeAfter(F) = "linux" /\ ImageAfter(F) = ImageAfter(D)
    BY DEF Target, TypeAfter, ImageAfter
  <2>3. Opened(F)'
    BY <1>1, <2>1 DEF Between, Opened, Container
  <2>4. Owes(F)'
    BY <1>1, <2>1, SameOwed DEF Between, Owes
  <2>5. Mounted(Target(F))'
    BY <1>1, <2>1, <2>2 DEF Between, Mounted
  <2> QED BY <1>1, <1>3, <2>1, <2>2, <2>3, <2>4, <2>5 DEF Between
<1>5. CASE Aborts
  <2>1. Leak({}) /\ Thawed /\ ~override
    BY <1>1, BetweenLeaksNothing DEF Between, Thawed
  <2> QED BY <1>2, <1>3, <1>5, <2>1, AbortPlain
<1> QED BY <1>2, <1>3, <1>4, <1>5

(* What registers an undo adds the step to those that owe one.             *)
LEMMA Deferred ==
    ASSUME stack[Me] \in Seq(Nat), Me \in DOMAIN stack,
           stack' = [stack EXCEPT ![Me] = Append(@, step[Me])], step[Me] \in Nat
    PROVE  Owed' = Owed \cup {Steps[step[Me]]}
<1> DEFINE s == stack[Me]
           n == Len(s)
<1>1. stack'[Me] = Append(s, step[Me]) /\ n \in Nat
  BY LenProperties
<1>2. /\ DOMAIN Append(s, step[Me]) = 1..(n + 1) /\ DOMAIN s = 1..n
      /\ \A i \in 1..n : Append(s, step[Me])[i] = s[i]
      /\ Append(s, step[Me])[n + 1] = step[Me]
  BY AppendProperties, LenProperties
<1>3. 1..(n + 1) = 1..n \cup {n + 1}
  BY <1>1
<1> HIDE DEF n
<1>4. Owed' = {Steps[Append(s, step[Me])[i]] : i \in 1..n \cup {n + 1}}
  BY <1>1, <1>2, <1>3 DEF Owed
<1>5. Owed = {Steps[s[i]] : i \in 1..n}
  BY <1>2 DEF Owed
<1> QED BY <1>2, <1>4, <1>5

LEMMA TargetOwed ==
    ASSUME NEW D, Owes(D)
    PROVE  /\ Target(D) \subseteq IF "mount-target" \in Owed THEN TargetTree ELSE {}
           /\ Target(D) \cap Binds = {}
BY DEF Owes, Target, Layout, TargetTree, Binds

LEMMA LeaksNothing ==
    ASSUME NEW D, Owes(D), Mounted(Target(D)), mapper = "open" => "luks-format" \in Owed
    PROVE  Leak({})
BY Fits, TargetOwed

LEMMA LuksFormatGoesOn ==
    ASSUME NEW what, NEW on, Head(todo) = <<what, on>>,
           NEW D, OnLuksFormat(D), {"luks-format", "mount-target", "bootc-install"} \cap D = {},
           stack[Me] \in Seq(Nat), Me \in DOMAIN stack, step[Me] \in Nat,
           Steps[step[Me]] = "luks-format"
    PROVE  /\ Ready
           /\ Advances(what, on) \/ Aborts =>
                 \/ /\ outcome' = outcome
                    /\ OnLuksFormat(D)' \/ (todo' = <<>> /\ Between(D \cup {"luks-format"})')
                 \/ outcome' = "failed" /\ OnErrorPath'
<1> DEFINE Goes ==
       \/ /\ outcome' = outcome
          /\ OnLuksFormat(D)' \/ (todo' = <<>> /\ Between(D \cup {"luks-format"})')
       \/ outcome' = "failed" /\ OnErrorPath'
<1>a. /\ Mounted(Target(D)) /\ Owes(D) /\ rootType = TypeAfter(D) /\ image = ImageAfter(D)
      /\ ~override /\ ~frozen
  BY DEF OnLuksFormat
<1>b. ASSUME mapper # "open", Aborts,
             what \in {"disclose", "check", "luksFormat", "closeStale", "luksOpen"}
      PROVE  outcome' = "failed" /\ OnErrorPath'
  <2>1. Leak({}) /\ Thawed /\ ~override
    BY <1>a, <1>b, LeaksNothing DEF Thawed
  <2> QED BY <1>b, <2>1, AbortPlain
<1>c. ASSUME mounts' = mounts, stack' = stack, rootType' = rootType, image' = image,
             ~override', ~frozen', blamed' = blamed
      PROVE  /\ Mounted(Target(D))' /\ Owes(D)' /\ rootType' = TypeAfter(D)
             /\ image' = ImageAfter(D) /\ ~override' /\ ~frozen'
  <2>1. Owes(D)'
    BY <1>a, <1>c, SameOwed DEF Owes
  <2>2. Mounted(Target(D))'
    BY <1>a, <1>c DEF Mounted
  <2> QED BY <1>a, <1>c, <2>1, <2>2
<1> USE DEF Container
<1>1. CASE todo = RunLuksFormat /\ Container(FALSE, FALSE)
  <2>1. /\ todo # <<>> /\ Tail(todo) = FormatAndOpen
        /\ Head(todo) = IF Encryption = "tpm2-luks" THEN <<"disclose", "key">> ELSE <<"check", "key">>
    BY <1>1, LuksSplits DEF Splits
  <2>2. CASE Encryption = "tpm2-luks"
    <3>1. what = "disclose" /\ on = "key"
      BY <2>1, <2>2
    <3>2. Ready
      BY <2>1, <3>1 DEF Ready
    <3>3. CASE Advances("disclose", "key")
      <4>1. /\ mounts' = mounts /\ stack' = stack /\ rootType' = rootType /\ image' = image
            /\ ~override' /\ ~frozen' /\ blamed' = blamed /\ mapper' = mapper /\ luks' = luks
            /\ disclosed' /\ outcome' = outcome /\ todo' = FormatAndOpen
        BY <1>a, <2>1, <3>3
        DEF Advances, TodoAfter, StackAfter, MountsAfter, MapperAfter, FrozenAfter, RestAfter
      <4>2. OnLuksFormat(D)'
        BY <1>1, <1>c, <4>1 DEF OnLuksFormat
      <4> QED BY <3>2, <4>1, <4>2
    <3> QED BY <1>1, <1>b, <3>1, <3>2, <3>3
  <2>3. CASE Encryption # "tpm2-luks"
    <3>1. what = "check" /\ on = "key"
      BY <2>1, <2>3
    <3>2. Ready
      BY <2>1, <3>1 DEF Ready
    <3>3. CASE Advances("check", "key")
      <4>1. /\ mounts' = mounts /\ stack' = stack /\ rootType' = rootType /\ image' = image
            /\ ~override' /\ ~frozen' /\ blamed' = blamed /\ mapper' = mapper /\ luks' = luks
            /\ outcome' = outcome /\ todo' = FormatAndOpen
        BY <1>a, <2>1, <3>3
        DEF Advances, TodoAfter, StackAfter, MountsAfter, MapperAfter, FrozenAfter, RestAfter
      <4>2. OnLuksFormat(D)'
        BY <1>1, <1>c, <2>3, <4>1 DEF OnLuksFormat
      <4> QED BY <3>2, <4>1, <4>2
    <3> QED BY <1>1, <1>b, <3>1, <3>2, <3>3
  <2> QED BY <2>2, <2>3
<1>2. CASE /\ todo = FormatAndOpen
           /\ Container(FALSE, FALSE) /\ (Encryption = "tpm2-luks" => disclosed)
  <2>1. todo # <<>> /\ Head(todo) = <<"luksFormat", "root">> /\ Tail(todo) = OpenLuks
    BY <1>2, LuksSplits DEF Splits
  <2>2. what = "luksFormat" /\ on = "root"
    BY <2>1
  <2>3. Ready
    BY <1>2, <2>1, <2>2 DEF Ready
  <2>4. CASE Advances("luksFormat", "root")
    <3>1. /\ mounts' = mounts /\ stack' = stack /\ rootType' = rootType /\ image' = image
          /\ ~override' /\ ~frozen' /\ blamed' = blamed /\ mapper' = mapper /\ luks'
          /\ outcome' = outcome /\ todo' = OpenLuks
      BY <1>a, <2>1, <2>4
      DEF Advances, TodoAfter, StackAfter, MountsAfter, MapperAfter, FrozenAfter, RestAfter
    <3>2. OnLuksFormat(D)'
      BY <1>2, <1>c, <3>1 DEF OnLuksFormat
    <3> QED BY <2>3, <3>1, <3>2
  <2> QED BY <1>2, <1>b, <2>2, <2>3, <2>4
<1>3. CASE todo = OpenLuks /\ Container(TRUE, FALSE)
  <2>1. todo # <<>> /\ Head(todo) = <<"closeStale", "mapper">> /\ Tail(todo) = LastOpen(DeferMapper)
    BY <1>3, LuksSplits DEF Splits
  <2>2. what = "closeStale" /\ on = "mapper"
    BY <2>1
  <2>3. Ready
    BY <2>1, <2>2 DEF Ready
  <2>4. CASE Advances("closeStale", "mapper")
    <3>1. /\ mounts' = mounts /\ stack' = stack /\ rootType' = rootType /\ image' = image
          /\ ~override' /\ ~frozen' /\ blamed' = blamed /\ mapper' = "closed" /\ luks' = luks
          /\ outcome' = outcome /\ todo' = LastOpen(DeferMapper)
      BY <1>a, <2>1, <2>4
      DEF Advances, TodoAfter, StackAfter, MountsAfter, MapperAfter, FrozenAfter, RestAfter
    <3>2. OnLuksFormat(D)'
      BY <1>3, <1>c, <3>1 DEF OnLuksFormat
    <3> QED BY <2>3, <3>1, <3>2
  <2> QED BY <1>3, <1>b, <2>2, <2>3, <2>4
<1>4. CASE todo = LastOpen(DeferMapper) /\ Container(TRUE, FALSE)
  <2>1. todo # <<>> /\ Head(todo) = <<"luksOpen", "mapper">> /\ Tail(todo) = DeferMapper
    BY <1>4, LuksSplits DEF Splits
  <2>2. what = "luksOpen" /\ on = "mapper"
    BY <2>1
  <2>3. Ready
    BY <2>1, <2>2 DEF Ready
  <2>4. CASE Advances("luksOpen", "mapper")
    <3>1. /\ mounts' = mounts /\ stack' = stack /\ rootType' = rootType /\ image' = image
          /\ ~override' /\ ~frozen' /\ blamed' = blamed /\ mapper' = "open" /\ luks' = luks
          /\ outcome' = outcome /\ todo' = DeferMapper
      BY <1>a, <2>1, <2>4
      DEF Advances, TodoAfter, StackAfter, MountsAfter, MapperAfter, FrozenAfter, RestAfter
    <3>2. OnLuksFormat(D)'
      BY <1>4, <1>c, <3>1 DEF OnLuksFormat
    <3> QED BY <2>3, <3>1, <3>2
  <2> QED BY <1>4, <1>b, <2>2, <2>3, <2>4
<1>5. CASE todo = DeferMapper /\ Container(TRUE, TRUE)
  <2>1. todo # <<>> /\ Head(todo) = <<"defer", "mapper">> /\ Tail(todo) = <<>>
    BY <1>5, LuksSplits DEF Splits
  <2>2. what = "defer" /\ on = "mapper"
    BY <2>1
  <2>3. Ready
    BY <2>1, <2>2 DEF Ready
  <2> SUFFICES ASSUME Advances(what, on) \/ Aborts PROVE Goes
    BY <2>3
  <2>4. Advances("defer", "mapper")
    <3>1. ~Aborts
      BY <2>1 DEF Aborts, Commands
    <3> QED BY <2>2, <3>1
  <2>5. /\ mounts' = mounts /\ stack' = [stack EXCEPT ![Me] = Append(@, step[Me])]
        /\ rootType' = rootType /\ image' = image
        /\ ~override' /\ ~frozen' /\ blamed' = blamed /\ mapper' = mapper /\ luks' = luks
        /\ outcome' = outcome /\ todo' = <<>>
    BY <1>a, <2>1, <2>4
    DEF Advances, TodoAfter, StackAfter, MountsAfter, MapperAfter, FrozenAfter, RestAfter
  <2>6. Owed' = Owed \cup {"luks-format"}
    BY <2>5, Deferred
  <2> DEFINE F == D \cup {"luks-format"}
  <2>7. Target(F) = Target(D) /\ TypeAfter(F) = TypeAfter(D) /\ ImageAfter(F) = ImageAfter(D)
    BY DEF Target, TypeAfter, ImageAfter
  <2>8. Opened(F)'
    BY <1>5, <2>5 DEF Opened
  <2>9. Owes(F)'
    BY <1>a, <2>6 DEF Owes
  <2>10. Mounted(Target(F))'
    BY <1>a, <2>5, <2>7 DEF Mounted
  <2> QED BY <1>a, <2>3, <2>5, <2>7, <2>8, <2>9, <2>10 DEF Between
<1> QED BY <1>1, <1>2, <1>3, <1>4, <1>5 DEF OnLuksFormat

LEMMA AbortMount ==
    ASSUME NEW what, NEW on, Head(todo) = <<what, on>>, Aborts, Leak({}), Thawed, ~override,
           what \in {"mount", "bind"}, on \in {"scratch", "root", "base"}
    PROVE  outcome' = "failed" /\ OnErrorPath'
<1>1. PICK op : op = Head(todo)
  OBVIOUS
<1>2. op = <<what, on>> /\ op[1] = what
  BY <1>1
<1>3. op \notin {<<"mount", "boot">>, <<"mount", "esp">>, <<"bind", "store">>,
                 <<"bind", "vartmp">>, <<"override", "on">>}
  BY <1>2
<1>4. Exposed(op) = {}
  BY <1>2, <1>3 DEF Exposed
<1>5. Leak(Exposed(op))
  BY <1>4
<1>6. op[1] # "thaw" => Thawed
  OBVIOUS
<1>7. ~override \/ (RamHost /\ op[1] \in {"install", "mkdir", "extract"})
  OBVIOUS
<1> QED BY <1>1, <1>5, <1>6, <1>7, AbortEnters

LEMMA FormatRootGoesOn ==
    ASSUME NEW what, NEW on, Head(todo) = <<what, on>>,
           NEW D, OnFormatRoot(D)
    PROVE  /\ Ready
           /\ Advances(what, on) \/ Aborts =>
                 \/ /\ outcome' = outcome
                    /\ OnFormatRoot(D)' \/ (todo' = <<>> /\ Between(D \cup {"format-root"})')
                 \/ outcome' = "failed" /\ OnErrorPath'
<1>a. /\ Opened(D) /\ Owes(D) /\ rootType = TypeAfter(D) /\ image = ImageAfter(D)
      /\ ~override /\ ~frozen
  BY DEF OnFormatRoot
<1>b. ASSUME Aborts, Mounted(Target(D)) \/ Mounted(Target(D) \cup {"scratch"}),
             what \in {"write", "subvols", "umount"} \/ (what = "mount" /\ on = "scratch")
      PROVE  outcome' = "failed" /\ OnErrorPath'
  <2>1. Leak({})
    BY <1>a, <1>b, Fits, TargetFits
  <2>2. Thawed /\ ~override
    BY <1>a DEF Thawed
  <2> QED BY <1>b, <2>1, <2>2, AbortPlain, AbortMount
<1>c. ASSUME mapper' = mapper, luks' = luks, stack' = stack, rootType' = rootType, image' = image,
             ~override', ~frozen'
      PROVE  /\ Opened(D)' /\ Owes(D)' /\ rootType' = TypeAfter(D)
             /\ image' = ImageAfter(D) /\ ~override' /\ ~frozen'
  <2>1. Owes(D)'
    BY <1>a, <1>c, SameOwed DEF Owes
  <2>2. Opened(D)'
    BY <1>a, <1>c DEF Opened, Container
  <2> QED BY <1>a, <1>c, <2>1, <2>2
<1>d. "scratch" \notin Target(D)
  BY DEF Target, Layout
<1>1. CASE todo = RunFormatRoot /\ Mounted(Target(D))
  <2>1. /\ todo # <<>> /\ Head(todo) = <<"write", "fs">>
        /\ Tail(todo) = IF Subvolumes THEN RunSubvolumes ELSE <<>>
    BY <1>1, FormatRootSplits DEF Splits
  <2>2. what = "write" /\ on = "fs"
    BY <2>1
  <2>3. Ready
    BY <2>1, <2>2 DEF Ready
  <2>4. CASE Advances("write", "fs")
    <3>1. /\ mounts' = mounts /\ stack' = stack /\ rootType' = rootType /\ image' = image
          /\ ~override' /\ ~frozen' /\ blamed' = blamed /\ mapper' = mapper /\ luks' = luks
          /\ outcome' = outcome /\ todo' \in {RunSubvolumes, <<>>}
      BY <1>a, <2>1, <2>4
      DEF Advances, TodoAfter, StackAfter, MountsAfter, MapperAfter, FrozenAfter, RestAfter
    <3>2. Mounted(Target(D))'
      BY <1>1, <3>1 DEF Mounted
    <3>3. CASE todo' = RunSubvolumes
      BY <1>c, <2>3, <3>1, <3>2, <3>3 DEF OnFormatRoot
    <3>4. CASE todo' = <<>>
      <4>1. Between(D)'
        BY <1>c, <3>1, <3>2 DEF Between
      <4>2. Between(D \cup {"format-root"})'
        BY <4>1, SameAfter
      <4> QED BY <2>3, <3>1, <3>4, <4>2
    <3> QED BY <3>1, <3>3, <3>4
  <2> QED BY <1>1, <1>b, <2>2, <2>3, <2>4
<1>2. CASE todo = RunSubvolumes /\ Mounted(Target(D))
  <2>1. todo # <<>> /\ Head(todo) = <<"mount", "scratch">> /\ Tail(todo) = Subvols
    BY <1>2, FormatRootSplits DEF Splits
  <2>2. what = "mount" /\ on = "scratch"
    BY <2>1
  <2>3. Ready
    BY <2>1, <2>2 DEF Ready
  <2>4. CASE Advances("mount", "scratch")
    <3>1. /\ mounts' = mounts \cup {"scratch"} /\ stack' = stack /\ rootType' = rootType
          /\ image' = image /\ ~override' /\ ~frozen' /\ blamed' = blamed /\ mapper' = mapper
          /\ luks' = luks /\ outcome' = outcome /\ todo' = Subvols
      BY <1>a, <2>1, <2>4
      DEF Advances, TodoAfter, StackAfter, MountsAfter, MapperAfter, FrozenAfter, RestAfter
    <3>2. Mounted(Target(D) \cup {"scratch"})'
      BY <1>2, <3>1 DEF Mounted
    <3> QED BY <1>c, <2>3, <3>1, <3>2 DEF OnFormatRoot
  <2> QED BY <1>2, <1>b, <2>2, <2>3, <2>4
<1>3. CASE todo = Subvols /\ Mounted(Target(D) \cup {"scratch"})
  <2>1. todo # <<>> /\ Head(todo) = <<"subvols", "scratch">> /\ Tail(todo) = << <<"umount", "scratch">> >>
    BY <1>3, FormatRootSplits DEF Splits
  <2>2. what = "subvols" /\ on = "scratch"
    BY <2>1
  <2>3. Ready
    BY <2>1, <2>2 DEF Ready
  <2>4. CASE Advances("subvols", "scratch")
    <3>1. /\ mounts' = mounts /\ stack' = stack /\ rootType' = rootType
          /\ image' = image /\ ~override' /\ ~frozen' /\ blamed' = blamed /\ mapper' = mapper
          /\ luks' = luks /\ outcome' = outcome /\ todo' = << <<"umount", "scratch">> >>
      BY <1>a, <2>1, <2>4
      DEF Advances, TodoAfter, StackAfter, MountsAfter, MapperAfter, FrozenAfter, RestAfter
    <3>2. Mounted(Target(D) \cup {"scratch"})'
      BY <1>3, <3>1 DEF Mounted
    <3> QED BY <1>c, <2>3, <3>1, <3>2 DEF OnFormatRoot
  <2> QED BY <1>3, <1>b, <2>2, <2>3, <2>4
<1>4. CASE todo = << <<"umount", "scratch">> >> /\ Mounted(Target(D) \cup {"scratch"})
  <2>1. todo # <<>> /\ Head(todo) = <<"umount", "scratch">> /\ Tail(todo) = <<>>
    BY <1>4, FormatRootSplits DEF Splits
  <2>2. what = "umount" /\ on = "scratch"
    BY <2>1
  <2>3. Ready
    BY <2>1, <2>2 DEF Ready
  <2>4. CASE Advances("umount", "scratch")
    <3>1. /\ mounts' = mounts \ {"scratch"} /\ stack' = stack /\ rootType' = rootType
          /\ image' = image /\ ~override' /\ ~frozen' /\ blamed' = blamed /\ mapper' = mapper
          /\ luks' = luks /\ outcome' = outcome /\ todo' = <<>>
      BY <1>a, <2>1, <2>4
      DEF Advances, TodoAfter, StackAfter, MountsAfter, MapperAfter, FrozenAfter, RestAfter
    <3>2. Mounted(Target(D))'
      BY <1>4, <1>d, <3>1 DEF Mounted
    <3>3. Between(D)'
      BY <1>c, <3>1, <3>2 DEF Between
    <3>4. Between(D \cup {"format-root"})'
      BY <3>3, SameAfter
    <3> QED BY <2>3, <3>1, <3>4
  <2> QED BY <1>4, <1>b, <2>2, <2>3, <2>4
<1> QED BY <1>1, <1>2, <1>3, <1>4 DEF OnFormatRoot

-----------------------------------------------------------------------------
(* disk.MountTarget, wherever it runs.                                     *)
MountKept == UNCHANGED <<mapper, luks, rootType, frozen, override, image, blamed, stack>>

LEMMA MountsGoOn ==
    ASSUME NEW what, NEW on, Head(todo) = <<what, on>>,
           NEW rest \in Seq(Ops), OnMounts(rest), ~frozen, ~override,
           mapper = "open" => "luks-format" \in Owed
    PROVE  /\ Ready
           /\ Advances(what, on) \/ Aborts =>
                 \/ /\ outcome' = outcome /\ MountKept
                    /\ OnMounts(rest)' \/ (todo' = rest /\ Mounted(Layout)')
                 \/ outcome' = "failed" /\ OnErrorPath'
<1>a. Thawed
  BY DEF Thawed
<1>b. ASSUME NEW place \in {"root", "boot", "esp"}, Advances("mount", place)
      PROVE  /\ outcome' = outcome /\ MountKept
             /\ mounts' = mounts \cup {place} /\ todo' = Tail(todo)
  BY <1>b DEF MountKept, Advances, TodoAfter, StackAfter, MountsAfter, MapperAfter, FrozenAfter, RestAfter
<1>c. ASSUME NEW place \in {"boot", "esp"}, Head(todo) = <<"mount", place>>,
             Mounted({"root"}) \/ Mounted(Layout \ {"esp"}), Aborts
      PROVE  outcome' = "failed" /\ OnErrorPath'
  <2>1. PICK op : op = Head(todo)
    OBVIOUS
  <2>2. op \in {<<"mount", "boot">>, <<"mount", "esp">>} /\ op[1] = "mount"
    BY <1>c, <2>1
  <2>3. Exposed(op) = TargetTree \ Binds
    BY <2>2 DEF Exposed
  <2>4. Leak(TargetTree \ Binds)
    BY <1>c, Fits DEF Layout, TargetTree, Binds
  <2>5. Leak(Exposed(op)) /\ (op[1] # "thaw" => Thawed)
    BY <1>a, <2>3, <2>4
  <2>6. ~override \/ (RamHost /\ op[1] \in {"install", "mkdir", "extract"})
    OBVIOUS
  <2> QED BY <1>c, <2>1, <2>5, <2>6, AbortEnters
<1>1. CASE todo = MountTarget \o rest /\ Mounted({})
  <2>1. /\ todo # <<>> /\ Head(todo) = <<"mount", "root">>
        /\ Tail(todo) = (IF Bootloader = "grub2" THEN MountBoot ELSE MountESP) \o rest
    BY <1>1, MountSplits DEF Splits
  <2>2. what = "mount" /\ on = "root"
    BY <2>1
  <2>3. Ready
    BY <2>1, <2>2 DEF Ready
  <2>4. CASE Advances("mount", "root")
    <3>1. /\ outcome' = outcome /\ MountKept /\ mounts' = mounts \cup {"root"}
          /\ todo' = (IF Bootloader = "grub2" THEN MountBoot ELSE MountESP) \o rest
      BY <1>b, <2>1, <2>4
    <3>2. Mounted({"root"})'
      BY <1>1, <3>1 DEF Mounted, MountKept
    <3>3. CASE Bootloader = "grub2"
      BY <2>3, <3>1, <3>2, <3>3 DEF OnMounts
    <3>4. CASE Bootloader # "grub2"
      <4>1. Layout \ {"esp"} = {"root"}
        BY <3>4 DEF Layout
      <4>2. Mounted(Layout \ {"esp"})'
        BY <3>2, <4>1
      <4>3. todo' = MountESP \o rest
        BY <3>1, <3>4
      <4>4. OnMounts(rest)'
        BY <4>2, <4>3 DEF OnMounts
      <4> QED BY <2>3, <3>1, <4>4
    <3> QED BY <3>3, <3>4
  <2>5. CASE Aborts
    <3>1. Leak({})
      BY <1>1, Fits
    <3> QED BY <1>a, <2>2, <2>3, <2>5, <3>1, AbortMount
  <2> QED BY <2>2, <2>3, <2>4, <2>5
<1>2. CASE todo = MountBoot \o rest /\ Bootloader = "grub2" /\ Mounted({"root"})
  <2>1. todo # <<>> /\ Head(todo) = <<"mount", "boot">> /\ Tail(todo) = MountESP \o rest
    BY <1>2, MountSplits DEF Splits
  <2>2. what = "mount" /\ on = "boot"
    BY <2>1
  <2>3. Ready
    BY <2>1, <2>2 DEF Ready
  <2>4. CASE Advances("mount", "boot")
    <3>1. /\ outcome' = outcome /\ MountKept /\ mounts' = mounts \cup {"boot"}
          /\ todo' = MountESP \o rest
      BY <1>b, <2>1, <2>4
    <3>2. Mounted(Layout \ {"esp"})'
      BY <1>2, <3>1 DEF Mounted, MountKept, Layout
    <3>3. OnMounts(rest)'
      BY <3>1, <3>2 DEF OnMounts
    <3> QED BY <2>3, <3>1, <3>3
  <2> QED BY <1>2, <1>c, <2>1, <2>2, <2>3, <2>4
<1>3. CASE todo = MountESP \o rest /\ Mounted(Layout \ {"esp"})
  <2>1. todo # <<>> /\ Head(todo) = <<"mount", "esp">> /\ Tail(todo) = rest
    BY <1>3, MountSplits DEF Splits
  <2>2. what = "mount" /\ on = "esp"
    BY <2>1
  <2>3. Ready
    BY <2>1, <2>2 DEF Ready
  <2>4. CASE Advances("mount", "esp")
    <3>1. /\ outcome' = outcome /\ MountKept /\ mounts' = mounts \cup {"esp"}
          /\ todo' = rest
      BY <1>b, <2>1, <2>4
    <3>2. Mounted(Layout)'
      BY <1>3, <3>1 DEF Mounted, MountKept, Layout
    <3> QED BY <2>3, <3>1, <3>2
  <2> QED BY <1>3, <1>c, <2>1, <2>2, <2>3, <2>4
<1> QED BY <1>1, <1>2, <1>3 DEF OnMounts

LEMMA MountTargetGoesOn ==
    ASSUME NEW what, NEW on, Head(todo) = <<what, on>>,
           NEW D, OnMountTarget(D), {"mount-target", "bootc-install"} \cap D = {},
           stack[Me] \in Seq(Nat), Me \in DOMAIN stack, step[Me] \in Nat,
           Steps[step[Me]] = "mount-target"
    PROVE  /\ Ready
           /\ Advances(what, on) \/ Aborts =>
                 \/ /\ outcome' = outcome
                    /\ OnMountTarget(D)' \/ (todo' = <<>> /\ Between(D \cup {"mount-target"})')
                 \/ outcome' = "failed" /\ OnErrorPath'
<1> DEFINE Goes ==
       \/ /\ outcome' = outcome
          /\ OnMountTarget(D)' \/ (todo' = <<>> /\ Between(D \cup {"mount-target"})')
       \/ outcome' = "failed" /\ OnErrorPath'
<1>a. /\ Opened(D) /\ Owes(D) /\ rootType = TypeAfter(D) /\ image = ImageAfter(D)
      /\ ~override /\ ~frozen
  BY DEF OnMountTarget
<1>1. CASE OnMounts(DeferTarget)
  <2>1. mapper = "open" => "luks-format" \in Owed
    BY <1>a, TargetFits
  <2>2. DeferTarget \in Seq(Ops)
    BY PieceTypes
  <2>3. /\ Ready
        /\ Advances(what, on) \/ Aborts =>
              \/ /\ outcome' = outcome /\ MountKept
                 /\ OnMounts(DeferTarget)' \/ (todo' = DeferTarget /\ Mounted(Layout)')
              \/ outcome' = "failed" /\ OnErrorPath'
    BY <1>1, <1>a, <2>1, <2>2, MountsGoOn
  <2>4. ASSUME MountKept
        PROVE  /\ Opened(D)' /\ Owes(D)' /\ rootType' = TypeAfter(D) /\ image' = ImageAfter(D)
               /\ ~override' /\ ~frozen'
    <3>1. Opened(D)'
      BY <1>a, <2>4 DEF MountKept, Opened, Container
    <3>2. Owes(D)'
      BY <1>a, <2>4, SameOwed DEF MountKept, Owes
    <3> QED BY <1>a, <2>4, <3>1, <3>2 DEF MountKept
  <2> QED BY <2>3, <2>4 DEF OnMountTarget
<1>2. CASE todo = DeferTarget /\ Mounted(Layout)
  <2>1. todo # <<>> /\ Head(todo) = <<"defer", "target">> /\ Tail(todo) = <<>>
    BY <1>2, DeferTargetSplits DEF Splits
  <2>2. what = "defer" /\ on = "target"
    BY <2>1
  <2>3. Ready
    BY <2>1, <2>2 DEF Ready
  <2> SUFFICES ASSUME Advances(what, on) \/ Aborts PROVE Goes
    BY <2>3
  <2>4. Advances("defer", "target")
    <3>1. ~Aborts
      BY <2>1 DEF Aborts, Commands
    <3> QED BY <2>2, <3>1
  <2>5. /\ mounts' = mounts /\ stack' = [stack EXCEPT ![Me] = Append(@, step[Me])]
        /\ rootType' = rootType /\ image' = image
        /\ ~override' /\ ~frozen' /\ blamed' = blamed /\ mapper' = mapper /\ luks' = luks
        /\ outcome' = outcome /\ todo' = <<>>
    BY <1>a, <2>1, <2>4
    DEF Advances, TodoAfter, StackAfter, MountsAfter, MapperAfter, FrozenAfter, RestAfter
  <2>6. Owed' = Owed \cup {"mount-target"}
    BY <2>5, Deferred
  <2> DEFINE F == D \cup {"mount-target"}
  <2>7. Target(F) = Layout /\ TypeAfter(F) = TypeAfter(D) /\ ImageAfter(F) = ImageAfter(D)
    BY DEF Target, TypeAfter, ImageAfter
  <2>8. Opened(F)'
    BY <1>a, <2>5 DEF Opened, Container
  <2>9. Owes(F)'
    BY <1>a, <2>6 DEF Owes
  <2>10. Mounted(Target(F))'
    BY <1>2, <2>5, <2>7 DEF Mounted
  <2> QED BY <1>a, <2>3, <2>5, <2>7, <2>8, <2>9, <2>10 DEF Between
<1> QED BY <1>1, <1>2 DEF OnMountTarget

InstallKept == UNCHANGED <<mapper, luks, rootType, frozen>>

LEMMA InstallKeeps ==
    ASSUME NEW what \in {"bind", "announce", "override", "install", "mkdir", "extract",
                         "defer", "detach", "remove"},
           NEW on, Advances(what, on)
    PROVE  InstallKept /\ outcome' = outcome
BY DEF InstallKept, Advances, MapperAfter, FrozenAfter, RestAfter

LEMMA InstallBase ==
    ASSUME NEW D, InstallKept, Opened(D), rootType = TypeAfter(D), ~frozen
    PROVE  Opened(D)' /\ rootType' = TypeAfter(D) /\ ~frozen'
BY DEF InstallKept, Opened, Container

(* What is mounted for podman may be left to its teardown.                 *)
LEMMA InstallLeaks ==
    ASSUME NEW D, Opened(D), Owes(D), "mount-target" \in D,
           NEW extra \in SUBSET Binds, Mounted(Layout \cup extra)
    PROVE  Leak(extra)
<1>1. mapper = "open" => "luks-format" \in Owed
  BY TargetFits
<1>2. "mount-target" \in Owed
  BY DEF Owes
<1> QED BY <1>1, <1>2, Fits DEF Layout, TargetTree, Binds

-----------------------------------------------------------------------------
LEMMA RedirectGoesOn ==
    ASSUME NEW what, NEW on, Head(todo) = <<what, on>>,
           NEW D, OnRedirect, Opened(D), Owes(D), "mount-target" \in D, ~frozen
    PROVE  /\ Ready
           /\ Advances(what, on) \/ Aborts =>
                 \/ /\ outcome' = outcome /\ InstallKept /\ image' = image /\ stack' = stack
                    /\ OnRedirect' \/ (todo' = RunInstall /\ Redirected')
                 \/ outcome' = "failed" /\ OnErrorPath'
<1>a. RamHost /\ ~override /\ Thawed
  BY DEF OnRedirect, Thawed
<1>b. ASSUME NEW op, op = Head(todo), op[1] # "thaw", NEW extra \in SUBSET Binds,
             Mounted(Layout \cup extra), Exposed(op) = extra, Aborts
      PROVE  outcome' = "failed" /\ OnErrorPath'
  <2>1. Leak(Exposed(op))
    BY <1>b, InstallLeaks
  <2>2. ~override \/ (RamHost /\ op[1] \in {"install", "mkdir", "extract"})
    BY <1>a
  <2>3. op[1] # "thaw" => Thawed
    BY <1>a
  <2> QED BY <1>b, <2>1, <2>2, <2>3, AbortEnters
<1>1. CASE todo = Redirect \o RunInstall /\ Mounted(Layout)
  <2>1. todo # <<>> /\ Head(todo) = <<"bind", "base">> /\ Tail(todo) = RedirectStore \o RunInstall
    BY <1>1, RedirectSplits DEF Splits
  <2>2. what = "bind" /\ on = "base"
    BY <2>1
  <2>3. Ready
    BY <2>1, <2>2 DEF Ready
  <2>4. CASE Advances("bind", "base")
    <3>1. /\ outcome' = outcome /\ image' = image /\ stack' = stack /\ ~override'
          /\ mounts' = mounts \cup {"base"} /\ blamed' = blamed
          /\ todo' = RedirectStore \o RunInstall
      BY <1>a, <2>1, <2>4 DEF Advances, TodoAfter, StackAfter, MountsAfter, RestAfter
    <3>2. Mounted(Layout \cup {"base"})'
      BY <1>1, <3>1 DEF Mounted
    <3>3. OnRedirect'
      BY <1>a, <3>1, <3>2 DEF OnRedirect
    <3> QED BY <2>3, <2>4, <3>1, <3>3, InstallKeeps
  <2>5. CASE Aborts
    <3>1. Mounted(Layout \cup {})
      BY <1>1
    <3>2. Leak({})
      BY <3>1, InstallLeaks
    <3> QED BY <1>a, <2>2, <2>3, <2>5, <3>2, AbortMount
  <2> QED BY <2>2, <2>3, <2>4, <2>5
<1>2. CASE todo = RedirectStore \o RunInstall /\ Mounted(Layout \cup {"base"})
  <2>1. todo # <<>> /\ Head(todo) = <<"bind", "store">> /\ Tail(todo) = RedirectVarTmp \o RunInstall
    BY <1>2, RedirectSplits DEF Splits
  <2>2. what = "bind" /\ on = "store"
    BY <2>1
  <2>3. Ready
    BY <2>1, <2>2 DEF Ready
  <2>4. CASE Advances("bind", "store")
    <3>1. /\ outcome' = outcome /\ image' = image /\ stack' = stack /\ ~override'
          /\ mounts' = mounts \cup {"store"} /\ blamed' = blamed
          /\ todo' = RedirectVarTmp \o RunInstall
      BY <1>a, <2>1, <2>4 DEF Advances, TodoAfter, StackAfter, MountsAfter, RestAfter
    <3>2. Mounted(Layout \cup {"base", "store"})'
      BY <1>2, <3>1 DEF Mounted
    <3>3. OnRedirect'
      BY <1>a, <3>1, <3>2 DEF OnRedirect
    <3> QED BY <2>3, <2>4, <3>1, <3>3, InstallKeeps
  <2>5. CASE Aborts
    <3>1. PICK op : op = Head(todo)
      OBVIOUS
    <3>2. op[1] # "thaw" /\ Exposed(op) = {"base"} /\ {"base"} \in SUBSET Binds
      BY <2>1, <3>1 DEF Exposed, Binds
    <3>3. outcome' = "failed" /\ OnErrorPath'
      BY <1>2, <1>b, <2>5, <3>1, <3>2
    <3> QED BY <2>3, <3>3
  <2> QED BY <2>2, <2>3, <2>4, <2>5
<1>3. CASE todo = RedirectVarTmp \o RunInstall /\ Mounted(Layout \cup {"base", "store"})
  <2>1. todo # <<>> /\ Head(todo) = <<"bind", "vartmp">> /\ Tail(todo) = Announce \o RunInstall
    BY <1>3, RedirectSplits DEF Splits
  <2>2. what = "bind" /\ on = "vartmp"
    BY <2>1
  <2>3. Ready
    BY <2>1, <2>2 DEF Ready
  <2>4. CASE Advances("bind", "vartmp")
    <3>1. /\ outcome' = outcome /\ image' = image /\ stack' = stack /\ ~override'
          /\ mounts' = mounts \cup {"vartmp"} /\ blamed' = blamed
          /\ todo' = Announce \o RunInstall
      BY <1>a, <2>1, <2>4 DEF Advances, TodoAfter, StackAfter, MountsAfter, RestAfter
    <3>2. Mounted(Layout \cup Binds)'
      BY <1>3, <3>1 DEF Mounted, Binds
    <3>3. OnRedirect'
      BY <1>a, <3>1, <3>2 DEF OnRedirect
    <3> QED BY <2>3, <2>4, <3>1, <3>3, InstallKeeps
  <2>5. CASE Aborts
    <3>1. PICK op : op = Head(todo)
      OBVIOUS
    <3>2. op[1] # "thaw" /\ Exposed(op) = {"base", "store"} /\ {"base", "store"} \in SUBSET Binds
      BY <2>1, <3>1 DEF Exposed, Binds
    <3>3. outcome' = "failed" /\ OnErrorPath'
      BY <1>3, <1>b, <2>5, <3>1, <3>2
    <3> QED BY <2>3, <3>3
  <2> QED BY <2>2, <2>3, <2>4, <2>5
<1>4. CASE todo = Announce \o RunInstall /\ Mounted(Layout \cup Binds)
  <2>1. todo # <<>> /\ Head(todo) = <<"announce", "redirect">> /\ Tail(todo) = OverrideOn \o RunInstall
    BY <1>4, RedirectSplits DEF Splits
  <2>2. what = "announce" /\ on = "redirect"
    BY <2>1
  <2>3. Ready
    BY <2>1, <2>2 DEF Ready
  <2>4. CASE Advances("announce", "redirect")
    <3>1. /\ outcome' = outcome /\ image' = image /\ stack' = stack /\ ~override'
          /\ mounts' = mounts /\ blamed' = blamed
      BY <1>a, <2>1, <2>4 DEF Advances, StackAfter, MountsAfter, RestAfter
    <3>2. todo' = OverrideOn \o RunInstall
      <4>1. OverrideOn \o RunInstall \in Seq(Ops)
        BY InstallType, PieceTypes, Concat
      <4>2. <<>> \o (OverrideOn \o RunInstall) = OverrideOn \o RunInstall
        BY <4>1, NoConcat
      <4> QED BY <2>1, <2>4, <4>2 DEF Advances, TodoAfter, When
    <3>3. Mounted(Layout \cup Binds)'
      BY <1>4, <3>1 DEF Mounted
    <3>4. OnRedirect'
      BY <1>a, <3>1, <3>2, <3>3 DEF OnRedirect
    <3> QED BY <2>3, <2>4, <3>1, <3>4, InstallKeeps
  <2>5. CASE Aborts
    <3>1. PICK op : op = Head(todo)
      OBVIOUS
    <3>2. op[1] # "thaw" /\ Exposed(op) = Binds /\ Binds \in SUBSET Binds
      BY <2>1, <3>1 DEF Exposed
    <3>3. outcome' = "failed" /\ OnErrorPath'
      BY <1>4, <1>b, <2>5, <3>1, <3>2
    <3> QED BY <2>3, <3>3
  <2> QED BY <2>2, <2>3, <2>4, <2>5
<1>5. CASE todo = OverrideOn \o RunInstall /\ Mounted(Layout \cup Binds)
  <2>1. todo # <<>> /\ Head(todo) = <<"override", "on">> /\ Tail(todo) = RunInstall
    BY <1>5, RedirectSplits DEF Splits
  <2>2. what = "override" /\ on = "on"
    BY <2>1
  <2>3. Ready
    BY <2>1, <2>2 DEF Ready
  <2>4. CASE Advances("override", "on")
    <3>1. /\ outcome' = outcome /\ image' = image /\ stack' = stack /\ override'
          /\ mounts' = mounts /\ blamed' = blamed /\ todo' = RunInstall
      BY <2>1, <2>4 DEF Advances, TodoAfter, StackAfter, MountsAfter, RestAfter
    <3>2. Mounted(Layout \cup Binds)'
      BY <1>5, <3>1 DEF Mounted
    <3>3. Redirected'
      BY <1>a, <3>1, <3>2 DEF Redirected
    <3> QED BY <2>3, <2>4, <3>1, <3>3, InstallKeeps
  <2>5. CASE Aborts
    <3>1. PICK op : op = Head(todo)
      OBVIOUS
    <3>2. op[1] # "thaw" /\ Exposed(op) = Binds /\ Binds \in SUBSET Binds
      BY <2>1, <3>1 DEF Exposed
    <3>3. outcome' = "failed" /\ OnErrorPath'
      BY <1>5, <1>b, <2>5, <3>1, <3>2
    <3> QED BY <2>3, <3>3
  <2> QED BY <2>2, <2>3, <2>4, <2>5
<1> QED BY <1>1, <1>2, <1>3, <1>4, <1>5 DEF OnRedirect

-----------------------------------------------------------------------------
(* A podman command that fails is followed by the teardown of the redirect. *)
LEMMA AbortInstall ==
    ASSUME NEW what, NEW on, Head(todo) = <<what, on>>, Aborts,
           what \in {"install", "mkdir", "extract"},
           NEW D, Redirected, Opened(D), Owes(D), "mount-target" \in D, ~frozen
    PROVE  outcome' = "failed" /\ OnErrorPath'
<1>1. PICK op : op = Head(todo)
  OBVIOUS
<1>2. op = <<what, on>> /\ op[1] = what
  BY <1>1
<1>3. Exposed(op) = IF RamHost THEN Binds ELSE {}
  BY <1>2 DEF Exposed
<1>4. Leak(Exposed(op))
  <2>1. CASE RamHost
    BY <1>3, <2>1, InstallLeaks DEF Redirected
  <2>2. CASE ~RamHost
    <3>1. Mounted(Layout \cup {})
      BY <2>2 DEF Redirected
    <3> QED BY <1>3, <2>2, <3>1, InstallLeaks
  <2> QED BY <2>1, <2>2
<1>5. op[1] # "thaw" => Thawed
  BY DEF Thawed
<1>6. ~override \/ (RamHost /\ op[1] \in {"install", "mkdir", "extract"})
  BY <1>2 DEF Redirected
<1> QED BY <1>1, <1>4, <1>5, <1>6, AbortEnters

(* After podman, the teardown; without one, the step is over.              *)
LEMMA InstallEnds ==
    ASSUME NEW D, "mount-target" \in D, todo' = LastTeardown, Redirected',
           image' = ImageAfter(D \cup {"bootc-install"}), Owes(D \cup {"bootc-install"})',
           Opened(D)', rootType' = TypeAfter(D), ~frozen'
    PROVE  OnBootcInstall(D)' \/ (todo' = <<>> /\ Between(D \cup {"bootc-install"})')
<1>1. CASE RamHost
  <2>1. todo' = Teardown
    BY <1>1 DEF LastTeardown, When
  <2>2. OnTeardown'
    BY <1>1, <2>1 DEF OnTeardown, Redirected
  <2> QED BY <2>2 DEF OnBootcInstall
<1>2. CASE ~RamHost
  <2> DEFINE F == D \cup {"bootc-install"}
  <2>1. todo' = <<>>
    BY <1>2 DEF LastTeardown, When
  <2>2. Target(F) = Layout /\ TypeAfter(F) = TypeAfter(D)
    BY DEF Target, TypeAfter
  <2>3. Opened(F)'
    BY DEF Opened
  <2>4. Mounted(Layout)' /\ ~override'
    BY <1>2 DEF Redirected
  <2> QED BY <2>1, <2>2, <2>3, <2>4 DEF Between
<1> QED BY <1>1, <1>2

LEMMA RedirectedKept ==
    ASSUME Redirected, mounts' = mounts, blamed' = blamed, override' = override
    PROVE  Redirected'
BY DEF Redirected, Mounted

LEMMA InstallGoesOn ==
    ASSUME NEW what, NEW on, Head(todo) = <<what, on>>,
           NEW D, todo = RunInstall, Redirected, image = "none", Opened(D), Owes(D),
           rootType = TypeAfter(D), ~frozen, "mount-target" \in D, "bootc-install" \notin D,
           Encrypted => "luks-format" \in D
    PROVE  /\ Ready
           /\ Advances(what, on) \/ Aborts =>
                 \/ /\ outcome' = outcome
                    /\ OnBootcInstall(D)' \/ (todo' = <<>> /\ Between(D \cup {"bootc-install"})')
                 \/ outcome' = "failed" /\ OnErrorPath'
<1>1. /\ todo # <<>> /\ Head(todo) = <<"install", "target">>
      /\ Tail(todo) = IF Mok THEN ExtractImage \o LastTeardown ELSE LastTeardown
  BY InstallSplits DEF Splits
<1>2. what = "install" /\ on = "target"
  BY <1>1
<1>3. Ready
  <2>1. Layout \subseteq mounts /\ (RamHost => override /\ Binds \subseteq mounts)
    BY DEF Redirected, Mounted
  <2>2. Encrypted => luks /\ mapper = "open"
    BY DEF Opened, Container
  <2> QED BY <1>1, <1>2, <2>1, <2>2 DEF Ready
<1>4. CASE Advances("install", "target")
  <2>1. /\ outcome' = outcome /\ image' = image /\ stack' = stack /\ override' = override
        /\ mounts' = mounts /\ blamed' = blamed
        /\ todo' = IF Mok THEN ExtractImage \o LastTeardown ELSE LastTeardown
    BY <1>1, <1>4 DEF Advances, TodoAfter, StackAfter, MountsAfter, RestAfter
  <2>2. Opened(D)' /\ rootType' = TypeAfter(D) /\ ~frozen'
    BY <1>4, InstallKeeps, InstallBase
  <2>3. Redirected'
    BY <2>1, RedirectedKept
  <2>4. Owes(D)'
    BY <2>1, SameOwed DEF Owes
  <2>5. CASE Mok
    <3>1. OnExtract'
      BY <2>1, <2>3, <2>5 DEF OnExtract
    <3>2. OnBootcInstall(D)'
      BY <2>2, <2>4, <3>1 DEF OnBootcInstall
    <3> QED BY <1>3, <2>1, <3>2
  <2>6. CASE ~Mok
    <3>1. image' = ImageAfter(D \cup {"bootc-install"}) /\ todo' = LastTeardown
      BY <2>1, <2>6 DEF ImageAfter
    <3>2. Owes(D \cup {"bootc-install"})'
      BY <2>4, <2>6 DEF Owes
    <3>3. OnBootcInstall(D)' \/ (todo' = <<>> /\ Between(D \cup {"bootc-install"})')
      BY <2>2, <2>3, <3>1, <3>2, InstallEnds
    <3> QED BY <1>3, <2>1, <3>3
  <2> QED BY <2>5, <2>6
<1>5. CASE Aborts
  BY <1>2, <1>3, <1>5, AbortInstall
<1> QED BY <1>2, <1>3, <1>4, <1>5

LEMMA ExtractGoesOn ==
    ASSUME NEW what, NEW on, Head(todo) = <<what, on>>,
           NEW D, OnExtract, Opened(D), Owes(D), rootType = TypeAfter(D), ~frozen,
           "mount-target" \in D, Encrypted => "luks-format" \in D,
           stack[Me] \in Seq(Nat), Me \in DOMAIN stack, step[Me] \in Nat,
           Steps[step[Me]] = "bootc-install"
    PROVE  /\ Ready
           /\ Advances(what, on) \/ Aborts =>
                 \/ /\ outcome' = outcome
                    /\ OnBootcInstall(D)' \/ (todo' = <<>> /\ Between(D \cup {"bootc-install"})')
                 \/ outcome' = "failed" /\ OnErrorPath'
<1> DEFINE Goes ==
       \/ /\ outcome' = outcome
          /\ OnBootcInstall(D)' \/ (todo' = <<>> /\ Between(D \cup {"bootc-install"})')
       \/ outcome' = "failed" /\ OnErrorPath'
<1>a. /\ Mok /\ Redirected
      /\ Layout \subseteq mounts /\ (RamHost => override /\ Binds \subseteq mounts)
      /\ Encrypted => luks /\ mapper = "open"
  BY DEF OnExtract, Redirected, Mounted, Opened, Container
<1>1. CASE todo = ExtractImage \o LastTeardown /\ image = "none"
  <2>1. todo # <<>> /\ Head(todo) = <<"mkdir", "image">> /\ Tail(todo) = Extract \o LastTeardown
    BY <1>1, InstallSplits DEF Splits
  <2>2. what = "mkdir" /\ on = "image"
    BY <2>1
  <2>3. Ready
    BY <1>a, <2>1, <2>2 DEF Ready
  <2>4. CASE Advances("mkdir", "image")
    <3>1. /\ outcome' = outcome /\ image' = "dir" /\ stack' = stack /\ override' = override
          /\ mounts' = mounts /\ blamed' = blamed /\ todo' = Extract \o LastTeardown
      BY <2>1, <2>4 DEF Advances, TodoAfter, StackAfter, MountsAfter, RestAfter
    <3>2. Opened(D)' /\ rootType' = TypeAfter(D) /\ ~frozen'
      BY <2>4, InstallKeeps, InstallBase
    <3>3. Redirected'
      BY <1>a, <3>1, RedirectedKept
    <3>4. Owes(D)'
      BY <3>1, SameOwed DEF Owes
    <3>5. OnExtract'
      BY <1>a, <3>1, <3>3 DEF OnExtract
    <3>6. OnBootcInstall(D)'
      BY <3>2, <3>4, <3>5 DEF OnBootcInstall
    <3> QED BY <2>3, <3>1, <3>6
  <2>5. CASE Aborts
    BY <1>a, <2>2, <2>3, <2>5, AbortInstall
  <2> QED BY <2>2, <2>3, <2>4, <2>5
<1>2. CASE todo = Extract \o LastTeardown /\ image = "dir"
  <2>1. todo # <<>> /\ Head(todo) = <<"extract", "image">> /\ Tail(todo) = DeferImage \o LastTeardown
    BY <1>2, InstallSplits DEF Splits
  <2>2. what = "extract" /\ on = "image"
    BY <2>1
  <2>3. Ready
    BY <1>a, <2>1, <2>2 DEF Ready
  <2>4. CASE Advances("extract", "image")
    <3>1. /\ outcome' = outcome /\ image' = "ready" /\ stack' = stack /\ override' = override
          /\ mounts' = mounts /\ blamed' = blamed /\ todo' = DeferImage \o LastTeardown
      BY <2>1, <2>4 DEF Advances, TodoAfter, StackAfter, MountsAfter, RestAfter
    <3>2. Opened(D)' /\ rootType' = TypeAfter(D) /\ ~frozen'
      BY <2>4, InstallKeeps, InstallBase
    <3>3. Redirected'
      BY <1>a, <3>1, RedirectedKept
    <3>4. Owes(D)'
      BY <3>1, SameOwed DEF Owes
    <3>5. OnExtract'
      BY <1>a, <3>1, <3>3 DEF OnExtract
    <3>6. OnBootcInstall(D)'
      BY <3>2, <3>4, <3>5 DEF OnBootcInstall
    <3> QED BY <2>3, <3>1, <3>6
  <2>5. CASE Aborts
    BY <1>a, <2>2, <2>3, <2>5, AbortInstall
  <2> QED BY <2>2, <2>3, <2>4, <2>5
<1>3. CASE todo = DeferImage \o LastTeardown /\ image = "ready"
  <2>1. todo # <<>> /\ Head(todo) = <<"defer", "image">> /\ Tail(todo) = LastTeardown
    BY <1>3, InstallSplits DEF Splits
  <2>2. what = "defer" /\ on = "image"
    BY <2>1
  <2>3. Ready
    BY <2>1, <2>2 DEF Ready
  <2> SUFFICES ASSUME Advances(what, on) \/ Aborts PROVE Goes
    BY <2>3
  <2>4. Advances("defer", "image")
    <3>1. ~Aborts
      BY <2>1 DEF Aborts, Commands
    <3> QED BY <2>2, <3>1
  <2>5. /\ outcome' = outcome /\ image' = image /\ override' = override
        /\ stack' = [stack EXCEPT ![Me] = Append(@, step[Me])]
        /\ mounts' = mounts /\ blamed' = blamed /\ todo' = LastTeardown
    BY <2>1, <2>4 DEF Advances, TodoAfter, StackAfter, MountsAfter, RestAfter
  <2>6. Opened(D)' /\ rootType' = TypeAfter(D) /\ ~frozen'
    BY <2>4, InstallKeeps, InstallBase
  <2>7. Redirected'
    BY <1>a, <2>5, RedirectedKept
  <2>8. Owed' = Owed \cup {"bootc-install"}
    BY <2>5, Deferred
  <2>9. Owes(D \cup {"bootc-install"})'
    BY <2>8 DEF Owes
  <2>10. image' = ImageAfter(D \cup {"bootc-install"})
    BY <1>a, <1>3, <2>5 DEF ImageAfter
  <2>11. OnBootcInstall(D)' \/ (todo' = <<>> /\ Between(D \cup {"bootc-install"})')
    BY <2>5, <2>6, <2>7, <2>9, <2>10, InstallEnds
  <2> QED BY <2>3, <2>5, <2>11
<1> QED BY <1>1, <1>2, <1>3 DEF OnExtract

LEMMA TeardownGoesOn ==
    ASSUME NEW what, NEW on, Head(todo) = <<what, on>>,
           NEW D, OnTeardown, Opened(D), rootType = TypeAfter(D), ~frozen, "mount-target" \in D,
           image = ImageAfter(D \cup {"bootc-install"}), Owes(D \cup {"bootc-install"})
    PROVE  /\ Ready
           /\ Advances(what, on) \/ Aborts =>
                 \/ /\ outcome' = outcome
                    /\ OnBootcInstall(D)' \/ (todo' = <<>> /\ Between(D \cup {"bootc-install"})')
                 \/ outcome' = "failed" /\ OnErrorPath'
<1> DEFINE Goes ==
       \/ /\ outcome' = outcome
          /\ OnBootcInstall(D)' \/ (todo' = <<>> /\ Between(D \cup {"bootc-install"})')
       \/ outcome' = "failed" /\ OnErrorPath'
<1> DEFINE F == D \cup {"bootc-install"}
<1>a. RamHost
  BY DEF OnTeardown
<1>b. ASSUME what \in {"detach", "remove"} \/ (what = "override" /\ on = "off") PROVE ~Aborts
  BY <1>b DEF Aborts, Commands
<1>c. ASSUME what \in {"override", "detach", "remove"}, Advances(what, on)
      PROVE  /\ outcome' = outcome /\ todo' = Tail(todo) /\ image' = ImageAfter(F) /\ Owes(F)'
             /\ Opened(D)' /\ rootType' = TypeAfter(D) /\ ~frozen'
  <2>1. image' = image /\ stack' = stack /\ todo' = Tail(todo)
    BY <1>c DEF Advances, TodoAfter, StackAfter, RestAfter
  <2>2. Owes(F)'
    BY <2>1, SameOwed DEF Owes
  <2>3. Opened(D)' /\ rootType' = TypeAfter(D) /\ ~frozen'
    BY <1>c, InstallKeeps, InstallBase
  <2>4. outcome' = outcome
    BY <1>c DEF Advances
  <2> QED BY <2>1, <2>2, <2>3, <2>4
<1>d. ASSUME NEW place \in Binds, NEW places, place \notin places,
             Mounted(places \cup {place}), Advances("detach", place), ~override
      PROVE  Mounted(places)' /\ ~override'
  <2>1. /\ mounts \ {place} \subseteq mounts' /\ mounts' \subseteq mounts
        /\ place \in mounts' => place \in blamed'
        /\ blamed \subseteq blamed' /\ ~override'
    BY <1>d DEF Advances, MountsAfter, RestAfter
  <2> QED BY <1>d, <2>1 DEF Mounted
<1>1. CASE todo = Teardown /\ Mounted(Layout \cup Binds)
  <2>1. todo # <<>> /\ Head(todo) = <<"override", "off">> /\ Tail(todo) = DetachAll
    BY <1>1, TeardownSplits DEF Splits
  <2>2. what = "override" /\ on = "off"
    BY <2>1
  <2>3. Ready
    BY <2>1, <2>2 DEF Ready
  <2> SUFFICES ASSUME Advances(what, on) \/ Aborts PROVE Goes
    BY <2>3
  <2>4. Advances("override", "off")
    BY <1>b, <2>2
  <2>5. ~override' /\ mounts' = mounts /\ blamed' = blamed
    BY <2>4 DEF Advances, MountsAfter, RestAfter
  <2>6. Mounted(Layout \cup Binds)'
    BY <1>1, <2>5 DEF Mounted
  <2>7. OnTeardown'
    BY <1>a, <1>c, <2>1, <2>2, <2>4, <2>5, <2>6 DEF OnTeardown
  <2>8. OnBootcInstall(D)' /\ outcome' = outcome
    BY <1>c, <2>2, <2>4, <2>7 DEF OnBootcInstall
  <2> QED BY <2>3, <2>8
<1>2. CASE todo = DetachAll /\ Mounted(Layout \cup Binds) /\ ~override
  <2>1. todo # <<>> /\ Head(todo) = <<"detach", "vartmp">> /\ Tail(todo) = DetachStore
    BY <1>2, TeardownSplits DEF Splits
  <2>2. what = "detach" /\ on = "vartmp"
    BY <2>1
  <2>3. Ready
    BY <2>1, <2>2 DEF Ready
  <2> SUFFICES ASSUME Advances(what, on) \/ Aborts PROVE Goes
    BY <2>3
  <2>4. Advances("detach", "vartmp")
    BY <1>b, <2>2
  <2>5. /\ Layout \cup Binds = (Layout \cup {"base", "store"}) \cup {"vartmp"} /\ "vartmp" \in Binds
        /\ "vartmp" \notin Layout \cup {"base", "store"}
    BY DEF Binds, Layout
  <2>6. Mounted((Layout \cup {"base", "store"}) \cup {"vartmp"}) /\ ~override
    BY <1>2, <2>5
  <2>7. Mounted(Layout \cup {"base", "store"})' /\ ~override'
    BY <1>d, <2>4, <2>5, <2>6
  <2>8. OnTeardown'
    BY <1>a, <1>c, <2>1, <2>2, <2>4, <2>7 DEF OnTeardown
  <2>9. OnBootcInstall(D)' /\ outcome' = outcome
    BY <1>c, <2>2, <2>4, <2>8 DEF OnBootcInstall
  <2> QED BY <2>3, <2>9
<1>3. CASE todo = DetachStore /\ Mounted(Layout \cup {"base", "store"}) /\ ~override
  <2>1. todo # <<>> /\ Head(todo) = <<"detach", "store">> /\ Tail(todo) = DetachBase
    BY <1>3, TeardownSplits DEF Splits
  <2>2. what = "detach" /\ on = "store"
    BY <2>1
  <2>3. Ready
    BY <2>1, <2>2 DEF Ready
  <2> SUFFICES ASSUME Advances(what, on) \/ Aborts PROVE Goes
    BY <2>3
  <2>4. Advances("detach", "store")
    BY <1>b, <2>2
  <2>5. /\ Layout \cup {"base", "store"} = (Layout \cup {"base"}) \cup {"store"} /\ "store" \in Binds
        /\ "store" \notin Layout \cup {"base"}
    BY DEF Binds, Layout
  <2>6. Mounted((Layout \cup {"base"}) \cup {"store"}) /\ ~override
    BY <1>3, <2>5
  <2>7. Mounted(Layout \cup {"base"})' /\ ~override'
    BY <1>d, <2>4, <2>5, <2>6
  <2>8. OnTeardown'
    BY <1>a, <1>c, <2>1, <2>2, <2>4, <2>7 DEF OnTeardown
  <2>9. OnBootcInstall(D)' /\ outcome' = outcome
    BY <1>c, <2>2, <2>4, <2>8 DEF OnBootcInstall
  <2> QED BY <2>3, <2>9
<1>4. CASE todo = DetachBase /\ Mounted(Layout \cup {"base"}) /\ ~override
  <2>1. todo # <<>> /\ Head(todo) = <<"detach", "base">> /\ Tail(todo) = RemoveBaseDir
    BY <1>4, TeardownSplits DEF Splits
  <2>2. what = "detach" /\ on = "base"
    BY <2>1
  <2>3. Ready
    BY <2>1, <2>2 DEF Ready
  <2> SUFFICES ASSUME Advances(what, on) \/ Aborts PROVE Goes
    BY <2>3
  <2>4. Advances("detach", "base")
    BY <1>b, <2>2
  <2>5. /\ Layout \cup {"base"} = (Layout) \cup {"base"} /\ "base" \in Binds
        /\ "base" \notin Layout
    BY DEF Binds, Layout
  <2>6. Mounted((Layout) \cup {"base"}) /\ ~override
    BY <1>4, <2>5
  <2>7. Mounted(Layout)' /\ ~override'
    BY <1>d, <2>4, <2>5, <2>6
  <2>8. OnTeardown'
    BY <1>a, <1>c, <2>1, <2>2, <2>4, <2>7 DEF OnTeardown
  <2>9. OnBootcInstall(D)' /\ outcome' = outcome
    BY <1>c, <2>2, <2>4, <2>8 DEF OnBootcInstall
  <2> QED BY <2>3, <2>9
<1>5. CASE todo = RemoveBaseDir /\ Mounted(Layout) /\ ~override
  <2>1. todo # <<>> /\ Head(todo) = <<"remove", "base">> /\ Tail(todo) = <<>>
    BY <1>5, TeardownSplits DEF Splits
  <2>2. what = "remove" /\ on = "base"
    BY <2>1
  <2>3. Ready
    BY <2>1, <2>2 DEF Ready
  <2> SUFFICES ASSUME Advances(what, on) \/ Aborts PROVE Goes
    BY <2>3
  <2>4. Advances("remove", "base")
    BY <1>b, <2>2
  <2>5. ~override' /\ mounts' = mounts /\ blamed' = blamed
    BY <1>5, <2>4 DEF Advances, MountsAfter, RestAfter
  <2>6. Mounted(Layout)'
    BY <1>5, <2>5 DEF Mounted
  <2>7. Target(F) = Layout /\ TypeAfter(F) = TypeAfter(D)
    BY DEF Target, TypeAfter
  <2>8. /\ outcome' = outcome /\ todo' = <<>> /\ image' = ImageAfter(F) /\ Owes(F)'
        /\ Opened(D)' /\ rootType' = TypeAfter(D) /\ ~frozen'
    BY <1>c, <2>1, <2>2, <2>4
  <2>9. Opened(F)'
    BY <2>8 DEF Opened
  <2>10. Between(F)'
    BY <2>5, <2>6, <2>7, <2>8, <2>9 DEF Between
  <2> QED BY <2>3, <2>8, <2>10
<1> QED BY <1>1, <1>2, <1>3, <1>4, <1>5 DEF OnTeardown

LEMMA BootcInstallGoesOn ==
    ASSUME NEW what, NEW on, Head(todo) = <<what, on>>,
           NEW D, OnBootcInstall(D), "mount-target" \in D, "bootc-install" \notin D,
           Encrypted => "luks-format" \in D,
           stack[Me] \in Seq(Nat), Me \in DOMAIN stack, step[Me] \in Nat,
           Steps[step[Me]] = "bootc-install"
    PROVE  /\ Ready
           /\ Advances(what, on) \/ Aborts =>
                 \/ /\ outcome' = outcome
                    /\ OnBootcInstall(D)' \/ (todo' = <<>> /\ Between(D \cup {"bootc-install"})')
                 \/ outcome' = "failed" /\ OnErrorPath'
<1>a. Opened(D) /\ rootType = TypeAfter(D) /\ ~frozen
  BY DEF OnBootcInstall
<1>1. CASE OnRedirect /\ image = "none" /\ Owes(D)
  <2>1. /\ Ready
        /\ Advances(what, on) \/ Aborts =>
              \/ /\ outcome' = outcome /\ InstallKept /\ image' = image /\ stack' = stack
                 /\ OnRedirect' \/ (todo' = RunInstall /\ Redirected')
              \/ outcome' = "failed" /\ OnErrorPath'
    BY <1>1, <1>a, RedirectGoesOn
  <2>2. ASSUME InstallKept, image' = image, stack' = stack,
               OnRedirect' \/ (todo' = RunInstall /\ Redirected')
        PROVE  OnBootcInstall(D)'
    <3>1. Opened(D)' /\ rootType' = TypeAfter(D) /\ ~frozen'
      BY <1>a, <2>2, InstallBase
    <3>2. Owes(D)'
      BY <1>1, <2>2, SameOwed DEF Owes
    <3> QED BY <1>1, <2>2, <3>1, <3>2 DEF OnBootcInstall
  <2> QED BY <2>1, <2>2
<1>2. CASE todo = RunInstall /\ Redirected /\ image = "none" /\ Owes(D)
  BY <1>2, <1>a, InstallGoesOn
<1>3. CASE OnExtract /\ Owes(D)
  BY <1>3, <1>a, ExtractGoesOn
<1>4. CASE /\ OnTeardown
           /\ image = ImageAfter(D \cup {"bootc-install"}) /\ Owes(D \cup {"bootc-install"})
  BY <1>4, <1>a, TeardownGoesOn
<1> QED BY <1>1, <1>2, <1>3, <1>4 DEF OnBootcInstall

LEMMA RetagGoesOn ==
    ASSUME NEW what, NEW on, Head(todo) = <<what, on>>,
           NEW D, OnRetag(D), "mount-target" \in D, "retag-root" \notin D,
           Encrypted <=> "luks-format" \in D
    PROVE  /\ Ready
           /\ Advances(what, on) \/ Aborts =>
                 \/ /\ outcome' = outcome
                    /\ OnRetag(D)' \/ (todo' = <<>> /\ Between(D \cup {"retag-root"})')
                 \/ outcome' = "failed" /\ OnErrorPath'
<1>a. Owes(D) /\ image = ImageAfter(D) /\ ~override /\ ~frozen /\ Thawed
  BY DEF OnRetag, Thawed
<1>b. Opened(D) <=> Container(Encrypted, Encrypted)
  BY DEF Opened, Container
<1>c. ASSUME Mounted(Layout) \/ Mounted({}),
             Container(Encrypted, Encrypted) \/ Container(Encrypted, FALSE)
      PROVE  Leak({}) /\ (mapper = "open" => "luks-format" \in Owed)
  <2>1. mapper = "open" => "luks-format" \in Owed
    BY <1>a, <1>c DEF Container, Owes
  <2>2. "mount-target" \in Owed
    BY <1>a DEF Owes
  <2> QED BY <1>c, <2>1, <2>2, Fits DEF Layout, TargetTree, Binds
<1>d. ASSUME Aborts, Leak({}), what \in {"umountTree", "luksClose", "setType", "wait", "closeStale", "luksOpen"}
      PROVE  outcome' = "failed" /\ OnErrorPath'
  BY <1>a, <1>d, AbortPlain
<1>e. ASSUME stack' = stack, image' = image, override' = override, frozen' = frozen
      PROVE  Owes(D)' /\ image' = ImageAfter(D) /\ ~override' /\ ~frozen'
  BY <1>a, <1>e, SameOwed DEF Owes
<1> DEFINE Kept2 == stack' = stack /\ image' = image /\ override' = override /\ frozen' = frozen /\ blamed' = blamed
<1>1. CASE todo = RunRetagRoot /\ Mounted(Layout) /\ Opened(D) /\ rootType = TypeAfter(D)
  <2>1. /\ todo # <<>> /\ Head(todo) = <<"umountTree", "target">>
        /\ Tail(todo) = IF Encrypted THEN CloseFirst ELSE RunRetype
    BY <1>1, RetagSplits DEF Splits
  <2>2. what = "umountTree" /\ on = "target"
    BY <2>1
  <2>3. Ready
    <3>1. mounts \cap Binds \subseteq blamed
      BY <1>1 DEF Mounted, Layout, Binds
    <3> QED BY <1>a, <2>1, <2>2, <3>1 DEF Ready
  <2>4. CASE Advances("umountTree", "target")
    <3>1. /\ outcome' = outcome /\ Kept2 /\ mounts' = mounts \ TargetTree /\ mapper' = mapper
          /\ luks' = luks /\ rootType' = rootType
          /\ todo' = IF Encrypted THEN CloseFirst ELSE RunRetype
      BY <2>1, <2>4
      DEF Advances, TodoAfter, StackAfter, MountsAfter, MapperAfter, FrozenAfter, RestAfter
    <3>2. Mounted({})'
      BY <1>1, <3>1 DEF Mounted, Layout, TargetTree
    <3>3. Container(Encrypted, Encrypted)'
      BY <1>1, <1>b, <3>1 DEF Container
    <3>4. Opened(D)'
      BY <1>1, <3>1 DEF Opened, Container
    <3>5. CASE Encrypted
      BY <1>1, <1>e, <2>3, <3>1, <3>2, <3>4, <3>5 DEF OnRetag
    <3>6. CASE ~Encrypted
      <4>1. Container(Encrypted, FALSE)'
        BY <3>3, <3>6 DEF Container
      <4> QED BY <1>1, <1>e, <2>3, <3>1, <3>2, <3>6, <4>1 DEF OnRetag
    <3> QED BY <3>5, <3>6
  <2> QED BY <1>1, <1>b, <1>c, <1>d, <2>2, <2>3, <2>4
<1>2. CASE todo = CloseFirst /\ Encrypted /\ Mounted({}) /\ Opened(D) /\ rootType = TypeAfter(D)
  <2>1. todo # <<>> /\ Head(todo) = <<"luksClose", "mapper">> /\ Tail(todo) = RunRetype
    BY <1>2, RetagSplits DEF Splits
  <2>2. what = "luksClose" /\ on = "mapper"
    BY <2>1
  <2>3. Ready
    BY <2>1, <2>2 DEF Ready
  <2>4. CASE Advances("luksClose", "mapper")
    <3>1. /\ outcome' = outcome /\ Kept2 /\ mounts' = mounts /\ mapper' = "closed"
          /\ luks' = luks /\ rootType' = rootType /\ todo' = RunRetype
      BY <2>1, <2>4
      DEF Advances, TodoAfter, StackAfter, MountsAfter, MapperAfter, FrozenAfter, RestAfter
    <3>2. Mounted({})'
      BY <1>2, <3>1 DEF Mounted
    <3>3. Container(Encrypted, FALSE)'
      BY <1>2, <1>b, <3>1 DEF Container
    <3> QED BY <1>2, <1>e, <2>3, <3>1, <3>2, <3>3 DEF OnRetag
  <2> QED BY <1>2, <1>b, <1>c, <1>d, <2>2, <2>3, <2>4
<1>3. CASE todo = RunRetype /\ Mounted({}) /\ Container(Encrypted, FALSE) /\ rootType = TypeAfter(D)
  <2>1. todo # <<>> /\ Head(todo) = <<"setType", "root">> /\ Tail(todo) = WaitAndReopen
    BY <1>3, RetagSplits DEF Splits
  <2>2. what = "setType" /\ on = "root"
    BY <2>1
  <2>3. Ready
    <3>1. mapper # "open" /\ mounts \subseteq blamed
      BY <1>3 DEF Mounted, Container
    <3> QED BY <2>1, <2>2, <3>1 DEF Ready
  <2>4. CASE Advances("setType", "root")
    <3>1. /\ outcome' = outcome /\ Kept2 /\ mounts' = mounts /\ mapper' = mapper
          /\ luks' = luks /\ rootType' = "dps" /\ todo' = WaitAndReopen
      BY <2>1, <2>4
      DEF Advances, TodoAfter, StackAfter, MountsAfter, MapperAfter, FrozenAfter, RestAfter
    <3>2. Mounted({})'
      BY <1>3, <3>1 DEF Mounted
    <3>3. Container(Encrypted, FALSE)'
      BY <1>3, <3>1 DEF Container
    <3> QED BY <1>e, <2>3, <3>1, <3>2, <3>3 DEF OnRetag
  <2> QED BY <1>3, <1>c, <1>d, <2>2, <2>3, <2>4
<1>4. CASE todo = WaitAndReopen /\ Mounted({}) /\ Container(Encrypted, FALSE) /\ rootType = "dps"
  <2>1. todo # <<>> /\ Head(todo) = <<"wait", "root">> /\ Tail(todo) = Reopen
    BY <1>4, RetagSplits DEF Splits
  <2>2. what = "wait" /\ on = "root"
    BY <2>1
  <2>3. Ready
    BY <2>1, <2>2 DEF Ready
  <2>4. CASE Advances("wait", "root")
    <3>1. /\ outcome' = outcome /\ Kept2 /\ mounts' = mounts /\ mapper' = mapper
          /\ luks' = luks /\ rootType' = rootType
          /\ todo' = IF Encrypted THEN OpenMapper \o MountTarget ELSE MountTarget
      BY <2>1, <2>4, RetagType
      DEF Advances, TodoAfter, StackAfter, MountsAfter, MapperAfter, FrozenAfter, RestAfter
    <3>2. Mounted({})'
      BY <1>4, <3>1 DEF Mounted
    <3>3. Container(Encrypted, FALSE)'
      BY <1>4, <3>1 DEF Container
    <3>4. CASE Encrypted
      BY <1>4, <1>e, <2>3, <3>1, <3>2, <3>3, <3>4 DEF OnRetag
    <3>5. CASE ~Encrypted
      <4>1. Container(Encrypted, Encrypted)'
        BY <3>3, <3>5 DEF Container
      <4>2. todo' = MountTarget \o <<>>
        BY <3>1, <3>5, MountTargetType, NoConcat
      <4>3. OnMounts(<<>>)'
        BY <3>2, <4>2 DEF OnMounts
      <4> QED BY <1>4, <1>e, <2>3, <3>1, <4>1, <4>3 DEF OnRetag
    <3> QED BY <3>4, <3>5
  <2> QED BY <1>4, <1>c, <1>d, <2>2, <2>3, <2>4
<1>5. CASE /\ todo = OpenMapper \o MountTarget /\ Encrypted
           /\ Mounted({}) /\ Container(Encrypted, FALSE) /\ rootType = "dps"
  <2>1. todo # <<>> /\ Head(todo) = <<"closeStale", "mapper">> /\ Tail(todo) = LastOpen(MountTarget)
    BY <1>5, RetagSplits DEF Splits
  <2>2. what = "closeStale" /\ on = "mapper"
    BY <2>1
  <2>3. Ready
    BY <2>1, <2>2 DEF Ready
  <2>4. CASE Advances("closeStale", "mapper")
    <3>1. /\ outcome' = outcome /\ Kept2 /\ mounts' = mounts /\ mapper' = "closed"
          /\ luks' = luks /\ rootType' = rootType /\ todo' = LastOpen(MountTarget)
      BY <2>1, <2>4
      DEF Advances, TodoAfter, StackAfter, MountsAfter, MapperAfter, FrozenAfter, RestAfter
    <3>2. Mounted({})'
      BY <1>5, <3>1 DEF Mounted
    <3>3. Container(Encrypted, FALSE)'
      BY <1>5, <3>1 DEF Container
    <3> QED BY <1>5, <1>e, <2>3, <3>1, <3>2, <3>3 DEF OnRetag
  <2> QED BY <1>5, <1>c, <1>d, <2>2, <2>3, <2>4
<1>6. CASE /\ todo = LastOpen(MountTarget) /\ Encrypted
           /\ Mounted({}) /\ Container(Encrypted, FALSE) /\ rootType = "dps"
  <2>1. todo # <<>> /\ Head(todo) = <<"luksOpen", "mapper">> /\ Tail(todo) = MountTarget
    BY <1>6, RetagSplits DEF Splits
  <2>2. what = "luksOpen" /\ on = "mapper"
    BY <2>1
  <2>3. Ready
    BY <2>1, <2>2 DEF Ready
  <2>4. CASE Advances("luksOpen", "mapper")
    <3>1. /\ outcome' = outcome /\ Kept2 /\ mounts' = mounts /\ mapper' = "open"
          /\ luks' = luks /\ rootType' = rootType /\ todo' = MountTarget
      BY <2>1, <2>4
      DEF Advances, TodoAfter, StackAfter, MountsAfter, MapperAfter, FrozenAfter, RestAfter
    <3>2. Mounted({})'
      BY <1>6, <3>1 DEF Mounted
    <3>3. Container(Encrypted, Encrypted)'
      BY <1>6, <3>1 DEF Container
    <3>4. todo' = MountTarget \o <<>>
      BY <3>1, MountTargetType, NoConcat
    <3>5. OnMounts(<<>>)'
      BY <3>2, <3>4 DEF OnMounts
    <3> QED BY <1>6, <1>e, <2>3, <3>1, <3>3, <3>5 DEF OnRetag
  <2> QED BY <1>6, <1>c, <1>d, <2>2, <2>3, <2>4
<1>7. CASE OnMounts(<<>>) /\ Container(Encrypted, Encrypted) /\ rootType = "dps"
  <2>1. mapper = "open" => "luks-format" \in Owed
    BY <1>a, <1>7 DEF Container, Owes
  <2>2. <<>> \in Seq(Ops)
    BY PieceTypes
  <2>3. /\ Ready
        /\ Advances(what, on) \/ Aborts =>
              \/ /\ outcome' = outcome /\ MountKept
                 /\ OnMounts(<<>>)' \/ (todo' = <<>> /\ Mounted(Layout)')
              \/ outcome' = "failed" /\ OnErrorPath'
    BY <1>a, <1>7, <2>1, <2>2, MountsGoOn
  <2>4. ASSUME MountKept
        PROVE  /\ Container(Encrypted, Encrypted)' /\ rootType' = "dps"
               /\ Owes(D)' /\ image' = ImageAfter(D) /\ ~override' /\ ~frozen'
    BY <1>7, <1>e, <2>4 DEF MountKept, Container
  <2>5. ASSUME MountKept, OnMounts(<<>>)' PROVE OnRetag(D)'
    BY <2>4, <2>5 DEF OnRetag
  <2>6. ASSUME MountKept, todo' = <<>>, Mounted(Layout)' PROVE Between(D \cup {"retag-root"})'
    <3> DEFINE F == D \cup {"retag-root"}
    <3>1. Target(F) = Layout /\ TypeAfter(F) = "dps" /\ ImageAfter(F) = ImageAfter(D)
      BY DEF Target, TypeAfter, ImageAfter
    <3>2. Opened(F)'
      BY <2>4, <2>6 DEF Opened, Container
    <3>3. Owes(F)'
      BY <2>4, <2>6 DEF Owes
    <3> QED BY <2>4, <2>6, <3>1, <3>2, <3>3 DEF Between
  <2> QED BY <2>3, <2>5, <2>6
<1> QED BY <1>1, <1>2, <1>3, <1>4, <1>5, <1>6, <1>7 DEF OnRetag

-----------------------------------------------------------------------------
LEMMA FinalizeGoesOn ==
    ASSUME NEW what, NEW on, Head(todo) = <<what, on>>,
           NEW D, OnFinalize(D), Installed(D)
    PROVE  /\ Ready
           /\ Advances(what, on) \/ Aborts =>
                 \/ /\ outcome' = outcome
                    /\ OnFinalize(D)' \/ (todo' = <<>> /\ Between(D \cup {"finalize"})')
                 \/ outcome' = "failed" /\ OnErrorPath'
<1>a. /\ Mounted(Target(D)) /\ Opened(D) /\ Owes(D)
      /\ rootType = TypeAfter(D) /\ image = ImageAfter(D) /\ ~override
  BY DEF OnFinalize
<1>b. Leak({})
  BY <1>a, BetweenLeaksNothing
<1>c. ASSUME ~frozen, Aborts, what \in {"write", "freeze"} PROVE outcome' = "failed" /\ OnErrorPath'
  <2>1. Thawed
    BY <1>c DEF Thawed
  <2> QED BY <1>a, <1>b, <1>c, <2>1, AbortPlain
<1>d. ASSUME Advances(what, on), what \in {"write", "freeze", "thaw"}
      PROVE  /\ outcome' = outcome /\ todo' = Tail(todo)
             /\ Mounted(Target(D))' /\ Opened(D)' /\ Owes(D)'
             /\ rootType' = TypeAfter(D) /\ image' = ImageAfter(D) /\ ~override'
  <2>1. /\ outcome' = outcome /\ todo' = Tail(todo) /\ mounts' = mounts /\ stack' = stack
        /\ mapper' = mapper /\ luks' = luks /\ rootType' = rootType /\ image' = image
        /\ override' = override /\ blamed' = blamed
    BY <1>d DEF Advances, TodoAfter, StackAfter, MountsAfter, MapperAfter, RestAfter
  <2>2. Mounted(Target(D))'
    BY <1>a, <2>1 DEF Mounted
  <2>3. Opened(D)'
    BY <1>a, <2>1 DEF Opened, Container
  <2>4. Owes(D)'
    BY <1>a, <2>1, SameOwed DEF Owes
  <2> QED BY <1>a, <2>1, <2>2, <2>3, <2>4
<1>1. CASE todo = RunFinalize /\ ~frozen
  <2>1. todo # <<>> /\ Head(todo) = <<"write", "trim">> /\ Tail(todo) = WriteReadonly
    BY <1>1, FinalizeSplits DEF Splits
  <2>2. what = "write" /\ on = "trim"
    BY <2>1
  <2>3. Ready
    BY <2>1, <2>2 DEF Ready
  <2>4. CASE Advances("write", "trim")
    <3>1. ~frozen'
      BY <1>1, <2>4 DEF Advances, FrozenAfter
    <3> QED BY <1>d, <2>1, <2>2, <2>3, <2>4, <3>1 DEF OnFinalize
  <2> QED BY <1>1, <1>c, <2>2, <2>3, <2>4
<1>2. CASE todo = WriteReadonly /\ ~frozen
  <2>1. todo # <<>> /\ Head(todo) = <<"write", "readonly">> /\ Tail(todo) = FreezeAndThaw
    BY <1>2, FinalizeSplits DEF Splits
  <2>2. what = "write" /\ on = "readonly"
    BY <2>1
  <2>3. Ready
    BY <2>1, <2>2 DEF Ready
  <2>4. CASE Advances("write", "readonly")
    <3>1. ~frozen'
      BY <1>2, <2>4 DEF Advances, FrozenAfter
    <3> QED BY <1>d, <2>1, <2>2, <2>3, <2>4, <3>1 DEF OnFinalize
  <2> QED BY <1>2, <1>c, <2>2, <2>3, <2>4
<1>3. CASE todo = FreezeAndThaw /\ ~frozen
  <2>1. todo # <<>> /\ Head(todo) = <<"freeze", "target">> /\ Tail(todo) = ThawTarget
    BY <1>3, FinalizeSplits DEF Splits
  <2>2. what = "freeze" /\ on = "target"
    BY <2>1
  <2>3. Ready
    <3>1. Layout \subseteq mounts /\ mounts \cap Binds \subseteq blamed
      BY <1>a, TargetOwed DEF Mounted, Target, Installed
    <3>2. Encrypted => luks /\ mapper = "open"
      BY <1>a DEF Opened, Container, Installed
    <3> QED BY <1>a, <2>1, <2>2, <3>1, <3>2 DEF Ready
  <2>4. CASE Advances("freeze", "target")
    <3>1. frozen'
      BY <2>4 DEF Advances, FrozenAfter
    <3> QED BY <1>d, <2>1, <2>2, <2>3, <2>4, <3>1 DEF OnFinalize
  <2> QED BY <1>3, <1>c, <2>2, <2>3, <2>4
<1>4. CASE todo = ThawTarget /\ frozen
  <2>1. todo # <<>> /\ Head(todo) = <<"thaw", "target">> /\ Tail(todo) = <<>>
    BY <1>4, FinalizeSplits DEF Splits
  <2>2. what = "thaw" /\ on = "target"
    BY <2>1
  <2>3. Ready
    BY <2>1, <2>2 DEF Ready
  <2>4. CASE Advances("thaw", "target")
    <3>1. ~frozen'
      BY <2>4 DEF Advances, FrozenAfter
    <3>2. Between(D)' /\ todo' = <<>> /\ outcome' = outcome
      BY <1>d, <2>1, <2>2, <2>4, <3>1 DEF Between
    <3>3. Between(D \cup {"finalize"})'
      BY <3>2, SameAfter
    <3> QED BY <2>3, <3>2, <3>3
  <2>5. CASE Aborts
    <3>1. PICK op : op = Head(todo)
      OBVIOUS
    <3>2. op[1] = "thaw" /\ Exposed(op) = {}
      BY <2>1, <3>1 DEF Exposed
    <3>3. Leak(Exposed(op)) /\ (op[1] # "thaw" => Thawed)
      BY <1>b, <3>2
    <3>4. ~override \/ (RamHost /\ op[1] \in {"install", "mkdir", "extract"})
      BY <1>a
    <3>5. outcome' = "failed" /\ OnErrorPath'
      BY <2>5, <3>1, <3>3, <3>4, AbortEnters
    <3> QED BY <2>3, <3>5
  <2> QED BY <2>2, <2>3, <2>4, <2>5
<1> QED BY <1>1, <1>2, <1>3, <1>4 DEF OnFinalize

-----------------------------------------------------------------------------
(* Where the steps of a run stand in the order.                            *)
LEMMA NameOrder ==
    ASSUME NEW name \in Assembled, NEW D, D = {m \in Assembled : Rank(m) < Rank(name)}
    PROVE  /\ name = "partition" => "retag-root" \notin D
           /\ name = "luks-format" => {"luks-format", "mount-target", "bootc-install"} \cap D = {}
           /\ name = "mount-target" => {"mount-target", "bootc-install"} \cap D = {}
           /\ name = "bootc-install" => "mount-target" \in D /\ "bootc-install" \notin D
           /\ name = "retag-root" => "mount-target" \in D /\ "retag-root" \notin D
           /\ name \in {"bootc-install", "retag-root"} => (Encrypted <=> "luks-format" \in D)
           /\ name \in {"tpm-enroll", "esp-stage", "flatpaks", "sysconfig", "finalize", "mok-stage"} =>
                 Installed(D)
           /\ name \in {"esp-stage", "mok-stage"} => Mok
<1>1. name \in Names
  BY DEF Assembled, Names
<1>2. "luks-format" \in Assembled <=> Encrypted
  BY DEF Assembled
<1>3. {"mount-target", "bootc-install"} \subseteq Assembled
  BY DEF Assembled
<1>4. "esp-stage" \in Assembled \/ "mok-stage" \in Assembled => Mok
  BY DEF Assembled
<1>5. /\ Rank("luks-format") = 7 /\ Rank("mount-target") = 9 /\ Rank("bootc-install") = 10
      /\ Rank("retag-root") = 13 /\ Rank("partition") = 5
      /\ Rank("tpm-enroll") = 11 /\ Rank("esp-stage") = 12 /\ Rank("flatpaks") = 14
      /\ Rank("sysconfig") = 15 /\ Rank("finalize") = 16 /\ Rank("mok-stage") = 17
  BY DEF Rank
<1>6. CASE name = "partition"
  BY <1>5, <1>6
<1>7. CASE name = "luks-format"
  BY <1>5, <1>7
<1>8. CASE name = "mount-target"
  BY <1>5, <1>8
<1>9. CASE name = "bootc-install"
  BY <1>2, <1>3, <1>5, <1>9
<1>10. CASE name = "retag-root"
  BY <1>2, <1>3, <1>5, <1>10
<1>11. CASE name \in {"tpm-enroll", "esp-stage", "flatpaks", "sysconfig", "finalize", "mok-stage"}
  <2>1. "mount-target" \in D /\ "bootc-install" \in D /\ (Encrypted => "luks-format" \in D)
    BY <1>2, <1>3, <1>5, <1>11
  <2> QED BY <1>4, <1>11, <2>1 DEF Installed
<1> QED BY <1>6, <1>7, <1>8, <1>9, <1>10, <1>11

TodoOK == todo \in Seq(Ops)

LEMMA StepTypes ==
    ASSUME EngineInv
    PROVE  /\ step[Me] \in Nat /\ step[Me] \in 0..Len(Steps) /\ Me \in DOMAIN stack
           /\ stack[Me] \in Seq(Nat)
<1>1. step \in [{Me} -> 0..Len(Steps)]
  BY DEF EngineInv, E!TypeOK
<1>2. stack \in [{Me} -> Seq({s \in DOMAIN Steps : Steps[s] \in Deferring})]
  BY DEF EngineInv, E!TypeOK, Deferring
<1>3. {s \in DOMAIN Steps : Steps[s] \in Deferring} \subseteq Nat
  BY StepsDomain
<1>4. stack[Me] \in Seq({s \in DOMAIN Steps : Steps[s] \in Deferring})
  BY <1>2
<1>5. stack[Me] \in Seq(Nat)
  BY <1>3, <1>4
<1> QED BY <1>1, <1>2, <1>5, StepsDomain

(* A step that executes: what was done before it, and with it.             *)
LEMMA StepPlace ==
    ASSUME EngineInv, PlaceInv, pc[Me] = "run", P!Executes(Me),
           NEW D, D = Done(step[Me] - 1), NEW name, name = Steps[step[Me]]
    PROVE  /\ step[Me] \in DOMAIN Steps /\ name \in Assembled /\ name \in Names
           /\ Me \in dry => D = {} /\ name \in Preflights
           /\ Me \notin dry => D = {m \in Assembled : Rank(m) < Rank(name)}
           /\ Done(step[Me]) = IF Me \in dry THEN {} ELSE D \cup {name}
<1>1. PICK k : k = step[Me]
  OBVIOUS
<1>2. k \in DOMAIN Steps
  BY <1>1 DEF PlaceInv
<1>3. name \in Assembled /\ name \in Names
  BY <1>1, <1>2, StepsDomain
<1>4. Me \notin dry => D = Before(k) /\ Done(step[Me]) = UpTo(k)
  BY <1>1 DEF Done, Before, UpTo
<1>5. Before(k) = {m \in Assembled : Rank(m) < Rank(Steps[k])} /\ UpTo(k) = Before(k) \cup {Steps[k]}
  BY <1>2, StepOrder
<1>6. Me \in dry => D = {} /\ Done(step[Me]) = {} /\ name \in Preflights
  <2>1. Me \in dry => k <= 4
    BY <1>1 DEF P!Executes, P!Preflight
  <2> QED BY <1>1, <1>2, <2>1, PreflightFirst DEF Done
<1> QED BY <1>1, <1>2, <1>3, <1>4, <1>5, <1>6

LEMMA SameBefore ==
    ASSUME NEW D, NEW name, Between(D \cup {name})',
           name \notin {"partition", "luks-format", "mount-target", "bootc-install", "retag-root"}
    PROVE  Between(D)'
<1>1. /\ Target(D \cup {name}) = Target(D) /\ TypeAfter(D \cup {name}) = TypeAfter(D)
      /\ ImageAfter(D \cup {name}) = ImageAfter(D)
  BY DEF Target, TypeAfter, ImageAfter
<1>2. Opened(D \cup {name})' => Opened(D)'
  BY DEF Opened
<1>3. Owes(D \cup {name})' => Owes(D)'
  BY DEF Owes
<1> QED BY <1>1, <1>2, <1>3 DEF Between

(* An operation of a step that has not failed.                             *)
LEMMA StepGoesOn ==
    ASSUME EngineInv, PlaceInv, pc[Me] = "run", P!Executes(Me),
           NEW D, D = Done(step[Me] - 1), NEW name, name = Steps[step[Me]], On(name, D),
           NEW what, NEW on, Head(todo) = <<what, on>>
    PROVE  /\ Ready
           /\ Advances(what, on) \/ Aborts =>
                 \/ outcome' = outcome /\ (On(name, D)' \/ (todo' = <<>> /\ Between(D \cup {name})'))
                 \/ outcome' = "failed" /\ OnErrorPath'
<1>1. /\ name \in Assembled /\ name \in Names
      /\ Me \in dry => D = {} /\ name \in Preflights
      /\ Me \notin dry => D = {m \in Assembled : Rank(m) < Rank(name)}
  BY StepPlace
<1>2. /\ step[Me] \in Nat /\ Me \in DOMAIN stack /\ stack[Me] \in Seq(Nat)
  BY StepTypes
<1>3. CASE name = "partition"
  <2>1. "retag-root" \notin D
    BY <1>1, <1>3, NameOrder DEF Preflights
  <2>2. OnPartition(D)
    BY <1>3 DEF On
  <2>3. /\ Ready
        /\ Advances(what, on) \/ Aborts =>
              \/ outcome' = outcome /\ todo' = <<>> /\ Between(D \cup {"partition"})'
              \/ outcome' = "failed" /\ OnErrorPath'
    BY <2>1, <2>2, PartitionGoesOn
  <2> QED BY <1>3, <2>3
<1>4. CASE name = "luks-format"
  <2>1. {"luks-format", "mount-target", "bootc-install"} \cap D = {}
    BY <1>1, <1>4, NameOrder DEF Preflights
  <2>2. OnLuksFormat(D) /\ Steps[step[Me]] = "luks-format"
    BY <1>4 DEF On
  <2>3. /\ Ready
        /\ Advances(what, on) \/ Aborts =>
              \/ /\ outcome' = outcome
                 /\ OnLuksFormat(D)' \/ (todo' = <<>> /\ Between(D \cup {"luks-format"})')
              \/ outcome' = "failed" /\ OnErrorPath'
    BY <1>2, <2>1, <2>2, LuksFormatGoesOn
  <2> QED BY <1>4, <2>3 DEF On
<1>5. CASE name = "format-root"
  <2>1. OnFormatRoot(D)
    BY <1>5 DEF On
  <2>2. /\ Ready
        /\ Advances(what, on) \/ Aborts =>
              \/ /\ outcome' = outcome
                 /\ OnFormatRoot(D)' \/ (todo' = <<>> /\ Between(D \cup {"format-root"})')
              \/ outcome' = "failed" /\ OnErrorPath'
    BY <2>1, FormatRootGoesOn
  <2> QED BY <1>5, <2>2 DEF On
<1>6. CASE name = "mount-target"
  <2>1. {"mount-target", "bootc-install"} \cap D = {}
    BY <1>1, <1>6, NameOrder DEF Preflights
  <2>2. OnMountTarget(D) /\ Steps[step[Me]] = "mount-target"
    BY <1>6 DEF On
  <2>3. /\ Ready
        /\ Advances(what, on) \/ Aborts =>
              \/ /\ outcome' = outcome
                 /\ OnMountTarget(D)' \/ (todo' = <<>> /\ Between(D \cup {"mount-target"})')
              \/ outcome' = "failed" /\ OnErrorPath'
    BY <1>2, <2>1, <2>2, MountTargetGoesOn
  <2> QED BY <1>6, <2>3 DEF On
<1>7. CASE name = "bootc-install"
  <2>1. "mount-target" \in D /\ "bootc-install" \notin D /\ (Encrypted => "luks-format" \in D)
    BY <1>1, <1>7, NameOrder DEF Preflights
  <2>2. OnBootcInstall(D) /\ Steps[step[Me]] = "bootc-install"
    BY <1>7 DEF On
  <2>3. /\ Ready
        /\ Advances(what, on) \/ Aborts =>
              \/ /\ outcome' = outcome
                 /\ OnBootcInstall(D)' \/ (todo' = <<>> /\ Between(D \cup {"bootc-install"})')
              \/ outcome' = "failed" /\ OnErrorPath'
    BY <1>2, <2>1, <2>2, BootcInstallGoesOn
  <2> QED BY <1>7, <2>3 DEF On
<1>8. CASE name = "retag-root"
  <2>1. "mount-target" \in D /\ "retag-root" \notin D /\ (Encrypted <=> "luks-format" \in D)
    BY <1>1, <1>8, NameOrder DEF Preflights
  <2>2. OnRetag(D)
    BY <1>8 DEF On
  <2>3. /\ Ready
        /\ Advances(what, on) \/ Aborts =>
              \/ /\ outcome' = outcome
                 /\ OnRetag(D)' \/ (todo' = <<>> /\ Between(D \cup {"retag-root"})')
              \/ outcome' = "failed" /\ OnErrorPath'
    BY <2>1, <2>2, RetagGoesOn
  <2> QED BY <1>8, <2>3 DEF On
<1>9. CASE name = "finalize"
  <2>1. Installed(D)
    BY <1>1, <1>9, NameOrder DEF Preflights
  <2>2. OnFinalize(D)
    BY <1>9 DEF On
  <2>3. /\ Ready
        /\ Advances(what, on) \/ Aborts =>
              \/ /\ outcome' = outcome
                 /\ OnFinalize(D)' \/ (todo' = <<>> /\ Between(D \cup {"finalize"})')
              \/ outcome' = "failed" /\ OnErrorPath'
    BY <2>1, <2>2, FinalizeGoesOn
  <2> QED BY <1>9, <2>3 DEF On
<1>10. CASE name \notin {"partition", "luks-format", "format-root", "mount-target",
                         "bootc-install", "retag-root", "finalize"}
  <2>1. OnPlain(D) /\ (OnPlain(D)' => On(name, D)')
    BY <1>10 DEF On
  <2>2. /\ Ready
        /\ Advances(what, on) \/ Aborts =>
              \/ /\ outcome' = outcome
                 /\ OnPlain(D)' \/ (todo' = <<>> /\ Between(D \cup {name})')
              \/ outcome' = "failed" /\ OnErrorPath'
    BY <1>10, <2>1, PlainGoesOn
  <2> QED BY <2>1, <2>2
<1> QED BY <1>3, <1>4, <1>5, <1>6, <1>7, <1>8, <1>9, <1>10

LEMMA OpOf ==
    ASSUME TodoOK, todo # <<>>
    PROVE  /\ Head(todo) = <<Head(todo)[1], Head(todo)[2]>> /\ Head(todo) \in Ops
           /\ Tail(todo) \in Seq(Ops)
<1>1. Head(todo) \in Ops /\ Tail(todo) \in Seq(Ops)
  BY HeadTailProperties DEF TodoOK
<1> QED BY <1>1 DEF Ops

(* Where a step has not failed its next operation finds what it needs.     *)
LEMMA RunReady ==
    ASSUME EngineInv, TodoOK, PlaceInv, MachineInv, pc[Me] = "run", outcome = "ok", todo # <<>>
    PROVE  Ready
<1>1. P!Executes(Me)
  BY DEF PlaceInv
<1>2. PICK D : D = Done(step[Me] - 1)
  OBVIOUS
<1>3. PICK name : name = Steps[step[Me]]
  OBVIOUS
<1>4. PICK what, on : Head(todo) = <<what, on>>
  BY OpOf
<1>5. On(name, D)
  BY <1>2, <1>3 DEF MachineInv, InOrder
<1> QED BY <1>1, <1>2, <1>3, <1>4, <1>5, StepGoesOn

LEMMA OperationKeeps ==
    ASSUME EngineInv, TodoOK, PlaceInv, MachineInv, Operation
    PROVE  MachineInv' /\ PlaceInv'
<1>1. /\ pc[Me] = "run" /\ todo # <<>> /\ Kept
      /\ Advances(Head(todo)[1], Head(todo)[2]) \/ Aborts
  BY OperationDoes
<1>2. P!Executes(Me)
  BY <1>1 DEF PlaceInv
<1>3. PICK D : D = Done(step[Me] - 1)
  OBVIOUS
<1>4. PICK name : name = Steps[step[Me]]
  OBVIOUS
<1>5. PICK what : what = Head(todo)[1]
  OBVIOUS
<1>6. PICK on : on = Head(todo)[2]
  OBVIOUS
<1>7. Head(todo) = <<what, on>>
  BY <1>1, <1>5, <1>6, OpOf
<1>8. Advances(what, on) \/ Aborts
  BY <1>1, <1>5, <1>6
<1>9. pc' = pc /\ step' = step /\ dry' = dry
  BY <1>1 DEF Kept
<1>10. PlaceInv'
  <2>1. P!Executes(Me)'
    BY <1>2, <1>9 DEF P!Executes, P!Preflight
  <2> QED BY <1>1, <1>9, <2>1 DEF PlaceInv
<1>11. CASE outcome = "ok"
  <2>1. On(name, D)
    BY <1>1, <1>3, <1>4, <1>11 DEF MachineInv, InOrder
  <2>2. \/ outcome' = outcome /\ (On(name, D)' \/ (todo' = <<>> /\ Between(D \cup {name})'))
        \/ outcome' = "failed" /\ OnErrorPath'
    BY <1>1, <1>2, <1>3, <1>4, <1>7, <1>8, <2>1, StepGoesOn
  <2>3. Done(step[Me] - 1)' = D /\ Done(step[Me])' = Done(step[Me]) /\ name = Steps[step'[Me]]
    BY <1>3, <1>4, <1>9 DEF Done
  <2>4. ASSUME todo' = <<>>, Between(D \cup {name})' PROVE Between(Done(step[Me]))'
    <3>1. /\ Me \in dry => D = {} /\ name \in Preflights
          /\ Done(step[Me]) = IF Me \in dry THEN {} ELSE D \cup {name}
      BY <1>1, <1>2, <1>3, <1>4, StepPlace
    <3>2. CASE Me \notin dry
      <4>1. PICK F : F = D \cup {name}
        OBVIOUS
      <4>2. Between(F)' /\ Done(step[Me])' = F
        BY <2>3, <2>4, <3>1, <3>2, <4>1
      <4> QED BY <4>2
    <3>3. CASE Me \in dry
      <4>1. Between(D)'
        BY <2>4, <3>1, <3>3, SameBefore DEF Preflights
      <4>2. Done(step[Me])' = D
        BY <2>3, <3>1, <3>3
      <4> QED BY <4>1, <4>2
    <3> QED BY <3>2, <3>3
  <2>5. CASE outcome' = outcome /\ On(name, D)'
    <3>1. On(Steps[step[Me]], Done(step[Me] - 1))'
      BY <2>3, <2>5
    <3>2. InOrder'
      BY <3>1 DEF InOrder
    <3> QED BY <1>1, <1>9, <1>10, <1>11, <2>2, <2>5, <3>2 DEF MachineInv
  <2>6. CASE outcome' = outcome /\ todo' = <<>> /\ Between(D \cup {name})'
    <3>1. InOrder'
      BY <2>4, <2>6 DEF InOrder
    <3> QED BY <1>1, <1>9, <1>10, <1>11, <2>2, <2>6, <3>1 DEF MachineInv
  <2>7. CASE outcome' = "failed" /\ OnErrorPath'
    BY <1>1, <1>9, <1>10, <2>2, <2>7 DEF MachineInv
  <2> QED BY <2>2, <2>5, <2>6, <2>7
<1>12. CASE outcome # "ok"
  <2>1. OnErrorPath
    BY <1>1, <1>12 DEF MachineInv
  <2>2. OnErrorPath' /\ outcome' \in {outcome, "failed"}
    BY <1>1, <1>7, <1>8, <2>1, ErrorPathGoesOn
  <2> QED BY <1>1, <1>9, <1>10, <1>12, <2>2 DEF MachineInv
<1> QED BY <1>11, <1>12

-----------------------------------------------------------------------------
(* The step that is over is over.                                          *)
LEMMA ErrorPathEnds ==
    ASSUME OnErrorPath, todo = <<>> PROVE Leak({}) /\ Thawed /\ ~override
BY ErrorSplits, TeardownSplits DEF OnErrorPath, Splits

LEMMA PointsGoOn ==
    ASSUME NEW name, NEW D, On(name, D) PROVE todo # <<>>
<1> USE DEF Splits
<1>1. ASSUME OnPlain(D) PROVE todo # <<>>
  BY <1>1, PlainSplits, FormatBootSplits DEF OnPlain, PlainPoints, TargetPoints
<1>2. ASSUME OnPartition(D) PROVE todo # <<>>
  BY <1>2, PlainSplits DEF OnPartition
<1>3. ASSUME OnLuksFormat(D) PROVE todo # <<>>
  BY <1>3, LuksSplits DEF OnLuksFormat
<1>4. ASSUME OnFormatRoot(D) PROVE todo # <<>>
  BY <1>4, FormatRootSplits DEF OnFormatRoot
<1>5. ASSUME NEW rest \in Seq(Ops), OnMounts(rest) PROVE todo # <<>>
  BY <1>5, MountSplits DEF OnMounts
<1>6. ASSUME OnMountTarget(D) PROVE todo # <<>>
  BY <1>5, <1>6, DeferTargetSplits, PieceTypes DEF OnMountTarget
<1>7. ASSUME OnBootcInstall(D) PROVE todo # <<>>
  <2>1. OnRedirect => todo # <<>>
    BY RedirectSplits DEF OnRedirect
  <2>2. OnExtract => todo # <<>>
    BY InstallSplits DEF OnExtract
  <2>3. OnTeardown => todo # <<>>
    BY TeardownSplits DEF OnTeardown
  <2>4. RunInstall # <<>>
    BY InstallSplits
  <2> QED BY <1>7, <2>1, <2>2, <2>3, <2>4 DEF OnBootcInstall
<1>8. ASSUME OnRetag(D) PROVE todo # <<>>
  <2>1. OnMounts(<<>>) => todo # <<>>
    BY <1>5, PieceTypes
  <2> QED BY <1>8, <2>1, RetagSplits DEF OnRetag
<1>9. ASSUME OnFinalize(D) PROVE todo # <<>>
  BY <1>9, FinalizeSplits DEF OnFinalize
<1> QED BY <1>1, <1>2, <1>3, <1>4, <1>6, <1>7, <1>8, <1>9 DEF On

(* A step begins at its first point.                                       *)
LEMMA StepBegins ==
    ASSUME NEW name \in Assembled, NEW D, Between(D),
           (D = {} /\ name \in Preflights) \/ D = {m \in Assembled : Rank(m) < Rank(name)},
           todo' = Body(name), UNCHANGED machine, UNCHANGED stack
    PROVE  On(name, D)'
<1>0. Between(D)'
  <2>1. Same
    BY DEF Same, machine
  <2> QED BY <2>1, SameBetween
<1>1. CASE name = "partition"
  BY <1>0, <1>1 DEF On, OnPartition, Body
<1>2. CASE name = "luks-format"
  <2>1. "luks-format" \notin D
    BY <1>2, NameOrder DEF Preflights
  <2>2. Container(FALSE, FALSE)'
    BY <1>0, <2>1 DEF Between, Opened, Container
  <2>3. OnLuksFormat(D)'
    BY <1>0, <1>2, <2>2 DEF OnLuksFormat, Between, Body
  <2> QED BY <1>2, <2>3 DEF On
<1>3. CASE name = "format-root"
  <2>1. OnFormatRoot(D)'
    BY <1>0, <1>3 DEF OnFormatRoot, Between, Body
  <2> QED BY <1>3, <2>1 DEF On
<1>4. CASE name = "mount-target"
  <2>1. Target(D) = {}
    BY <1>4, NameOrder DEF Preflights, Target
  <2>2. todo' = MountTarget \o DeferTarget /\ Mounted({})'
    BY <1>0, <1>4, <2>1 DEF Body, RunMountTarget, DeferTarget, Between
  <2>3. OnMounts(DeferTarget)'
    BY <2>2 DEF OnMounts
  <2>4. OnMountTarget(D)'
    BY <1>0, <2>3 DEF OnMountTarget, Between
  <2> QED BY <1>4, <2>4 DEF On
<1>5. CASE name = "bootc-install"
  <2>1. Target(D) = Layout /\ ImageAfter(D) = "none"
    BY <1>5, NameOrder DEF Preflights, Target, ImageAfter
  <2>2. todo' = IF RamHost THEN Redirect \o RunInstall ELSE RunInstall
    BY <1>5, BootcInstallIs DEF Body
  <2>3. Mounted(Layout)' /\ image' = "none" /\ ~override'
    BY <1>0, <2>1 DEF Between
  <2>4. CASE RamHost
    <3>1. OnRedirect'
      BY <2>2, <2>3, <2>4 DEF OnRedirect
    <3>2. OnBootcInstall(D)'
      BY <1>0, <2>3, <3>1 DEF OnBootcInstall, Between
    <3> QED BY <1>5, <3>2 DEF On
  <2>5. CASE ~RamHost
    <3>1. Redirected' /\ todo' = RunInstall
      BY <2>2, <2>3, <2>5 DEF Redirected
    <3>2. OnBootcInstall(D)'
      BY <1>0, <2>3, <3>1 DEF OnBootcInstall, Between
    <3> QED BY <1>5, <3>2 DEF On
  <2> QED BY <2>4, <2>5
<1>6. CASE name = "retag-root"
  <2>1. Target(D) = Layout
    BY <1>6, NameOrder DEF Preflights, Target
  <2>2. OnRetag(D)'
    BY <1>0, <1>6, <2>1 DEF OnRetag, Between, Body
  <2> QED BY <1>6, <2>2 DEF On
<1>7. CASE name = "finalize"
  <2>1. OnFinalize(D)'
    BY <1>0, <1>7 DEF OnFinalize, Between, Body
  <2> QED BY <1>7, <2>1 DEF On
<1>8. CASE name \in {"tpm-enroll", "esp-stage", "flatpaks", "sysconfig", "mok-stage"}
  <2>1. Installed(D) /\ (name \in {"esp-stage", "mok-stage"} => Mok)
    BY <1>8, NameOrder DEF Preflights
  <2>2. todo' \in {RunTPMEnroll, RunESPStage, RunConfigure, RunMOKStage}
    BY <1>8 DEF Body
  <2>3. todo' \in {RunESPStage, RunMOKStage} => Mok
    <3>1. /\ Head(RunESPStage) = <<"stage", "target">> /\ Head(RunMOKStage) = <<"import", "image">>
          /\ Head(RunTPMEnroll) = <<"enroll", "target">> /\ Head(RunConfigure) = <<"configure", "target">>
      BY PlainSplits DEF Splits
    <3>2. todo' \in {RunESPStage, RunMOKStage} => Head(todo') \in {<<"stage", "target">>, <<"import", "image">>}
      BY <3>1
    <3>3. todo' \in {RunESPStage, RunMOKStage} => name \in {"esp-stage", "mok-stage"}
      BY <1>8, <3>1, <3>2 DEF Body
    <3> QED BY <2>1, <3>3
  <2>4. OnPlain(D)'
    BY <1>0, <2>1, <2>2, <2>3 DEF OnPlain, TargetPoints
  <2> QED BY <1>8, <2>4 DEF On
<1>9. CASE name \in Preflights \cup {"format-boot"}
  <2>1. todo' \in PlainPoints
    BY <1>9 DEF Body, PlainPoints, Preflights
  <2>2. OnPlain(D)'
    BY <1>0, <2>1 DEF OnPlain
  <2> QED BY <1>9, <2>2 DEF On, Preflights
<1>10. name \in Names
  BY DEF Assembled, Names
<1> QED BY <1>1, <1>2, <1>3, <1>4, <1>5, <1>6, <1>7, <1>8, <1>9, <1>10 DEF Names, Preflights

-----------------------------------------------------------------------------
(* The engine around the steps.                                            *)
MachineKept == UNCHANGED machine /\ UNCHANGED stack /\ UNCHANGED cancelled

LEMMA KeptBetween ==
    ASSUME NEW D, Between(D), MachineKept PROVE Between(D)'
BY SameBetween DEF MachineKept, Same, machine

LEMMA KeptLeak ==
    ASSUME MachineKept PROVE (Leak({}) => Leak({})') /\ (Thawed => Thawed')
BY SameOwed DEF MachineKept, machine, Leak, Thawed

(* A run that stops with an error owes what it has registered, and leaves  *)
(* nothing else.                                                           *)
LEMMA StopsShort ==
    ASSUME MachineKept, Leak({}), Thawed, ~override, Me \in err'
    PROVE  Unwinding'
<1>1. Leak({})' /\ Thawed' /\ ~override'
  BY KeptLeak DEF MachineKept, machine
<1>2. cancelled' # "late" => mounts' \cap Binds \subseteq blamed'
  BY <1>1 DEF Leak
<1> QED BY <1>1, <1>2 DEF Unwinding

LEMMA BetweenStops ==
    ASSUME NEW D, Between(D) PROVE Leak({}) /\ Thawed /\ ~override
BY BetweenLeaksNothing DEF Between, Thawed

LEMMA UnwindingKept ==
    ASSUME MachineKept, Unwinding, fails' = fails, err \subseteq err', dry' = dry
    PROVE  Unwinding'
<1>1. Owed' = Owed
  BY SameOwed DEF MachineKept
<1>2. Leak({}) => Leak({})'
  BY KeptLeak
<1>3. Thawed' /\ ~override'
  BY KeptLeak DEF Unwinding, MachineKept, machine
<1>4. cancelled' # "late" => mounts' \cap Binds \subseteq blamed'
  BY DEF Unwinding, MachineKept, machine
<1>5. fails'[Me] = 0 => Leak({})'
  BY <1>2 DEF Unwinding
<1>6. Done(Len(Steps))' = Done(Len(Steps))
  BY DEF Done
<1>7. ASSUME Me \notin err' \cup dry', fails'[Me] = 0
      PROVE  LET D == Done(Len(Steps))' IN
             /\ mounts' \subseteq (IF "mount-target" \in Owed' THEN Layout ELSE {}) \cup (blamed' \cap Binds)
             /\ (luks' <=> Encrypted) /\ rootType' = TypeAfter(D) /\ ~frozen'
             /\ mapper' = "open" => "luks-format" \in Owed'
             /\ image' # "none" => "bootc-install" \in Owed'
  <2>1. LET D == Done(Len(Steps)) IN
        /\ mounts \subseteq (IF "mount-target" \in Owed THEN Layout ELSE {}) \cup (blamed \cap Binds)
        /\ (luks <=> Encrypted) /\ rootType = TypeAfter(D) /\ ~frozen
        /\ mapper = "open" => "luks-format" \in Owed
        /\ image # "none" => "bootc-install" \in Owed
    BY <1>7 DEF Unwinding
  <2> QED BY <1>1, <1>6, <2>1 DEF MachineKept, machine
<1> QED BY <1>3, <1>4, <1>5, <1>7 DEF Unwinding

(* All the steps are done.                                                 *)
LEMMA AllDone ==
    ASSUME MachineKept, Between(Done(Len(Steps))), dry' = dry
    PROVE  Unwinding'
<1>1. Leak({}) /\ Thawed /\ ~override
  BY BetweenStops
<1>2. Leak({})' /\ Thawed' /\ ~override'
  BY <1>1, KeptLeak DEF MachineKept, machine
<1>3. cancelled' # "late" => mounts' \cap Binds \subseteq blamed'
  BY <1>2 DEF Leak
<1>4. Done(Len(Steps))' = Done(Len(Steps)) /\ Owed' = Owed
  BY SameOwed DEF Done, MachineKept
<1>5. ASSUME Me \notin err' \cup dry'
      PROVE  LET D == Done(Len(Steps))' IN
             /\ mounts' \subseteq (IF "mount-target" \in Owed' THEN Layout ELSE {}) \cup (blamed' \cap Binds)
             /\ (luks' <=> Encrypted) /\ rootType' = TypeAfter(D) /\ ~frozen'
             /\ mapper' = "open" => "luks-format" \in Owed'
             /\ image' # "none" => "bootc-install" \in Owed'
  <2>1. PICK D : D = Done(Len(Steps))
    OBVIOUS
  <2>2. D = Assembled
    BY <1>5, <2>1, AllSteps DEF Done, UpTo
  <2>3. "mount-target" \in D /\ ("luks-format" \in D <=> Encrypted) /\ "bootc-install" \in D
    BY <2>2 DEF Assembled
  <2>4. Between(D)
    BY <2>1
  <2>5. mounts \subseteq Layout \cup (blamed \cap Binds) /\ "mount-target" \in Owed
    BY <2>3, <2>4 DEF Between, Mounted, Target, Owes
  <2>6. (luks <=> Encrypted) /\ (mapper = "open" => "luks-format" \in Owed)
    BY <2>3, <2>4 DEF Between, Opened, Container, Owes
  <2>7. rootType = TypeAfter(D) /\ ~frozen
    BY <2>4 DEF Between
  <2>8. image # "none" => "bootc-install" \in Owed
    BY <2>3, <2>4 DEF Between, ImageAfter, Owes
  <2> QED BY <1>4, <2>1, <2>5, <2>6, <2>7, <2>8 DEF MachineKept, machine
<1> QED BY <1>2, <1>3, <1>5 DEF Unwinding

-----------------------------------------------------------------------------
LEMMA StartStepKeeps ==
    ASSUME EngineInv, PlaceInv, MachineInv, StartStep
    PROVE  MachineInv' /\ PlaceInv'
<1>0. PICK ok \in BOOLEAN :
         /\ P!StartStep(Me, ok)
         /\ todo' = IF ok /\ P!Executes(Me)' THEN Body(Steps[step[Me] + 1]) ELSE <<>>
  BY DEF StartStep
<1>1. /\ outcome' = "ok" /\ MachineKept /\ dry' = dry
      /\ pc[Me] = "steps" /\ step[Me] < Len(Steps)
  BY <1>0 DEF StartStep, P!StartStep, MachineKept
<1>2. /\ pc \in [{Me} -> P!PCs] /\ step \in [{Me} -> 0..Len(Steps)] /\ Len(Steps) \in Nat
  BY StepsDomain DEF EngineInv, E!TypeOK, E!PCs, P!PCs
<1>3. step'[Me] = step[Me] + 1
  BY <1>0, <1>2 DEF P!StartStep
<1>4. PICK k : k = step[Me]
  OBVIOUS
<1>5. k \in 0..Len(Steps) /\ k < Len(Steps) /\ (k + 1) - 1 = k /\ k + 1 \in DOMAIN Steps
  BY <1>1, <1>2, <1>4, StepsDomain
<1>6. PICK D : D = Done(k)
  OBVIOUS
<1>7. Between(D)
  BY <1>1, <1>4, <1>6 DEF MachineInv
<1>8. CASE ~ok
  <2>1. pc'[Me] = "unwind" /\ Me \in err' /\ todo' = <<>>
    BY <1>0, <1>2, <1>8 DEF P!StartStep, P!Proceed, P!Goto, P!Fail
  <2>2. Leak({}) /\ Thawed /\ ~override
    BY <1>7, BetweenStops
  <2>3. Unwinding'
    BY <1>1, <2>1, <2>2, StopsShort
  <2> QED BY <2>1, <2>3 DEF MachineInv, PlaceInv
<1>9. CASE ok
  <2>1. pc'[Me] = "run"
    BY <1>0, <1>2, <1>9 DEF P!StartStep, P!Proceed, P!Goto
  <2>2. PlaceInv'
    BY <1>0, <1>1, <1>3, <1>4, <1>5, <2>1 DEF PlaceInv
  <2>3. Done(step[Me] - 1)' = D
    BY <1>1, <1>3, <1>4, <1>5, <1>6 DEF Done
  <2>4. PICK name : name = Steps[k + 1]
    OBVIOUS
  <2>5. Steps[step[Me]]' = name
    BY <1>3, <1>4, <2>4
  <2>6. CASE P!Executes(Me)'
    <3>1. todo' = Body(name)
      BY <1>0, <1>4, <1>9, <2>4, <2>6
    <3>2. (D = {} /\ name \in Preflights) \/ D = {m \in Assembled : Rank(m) < Rank(name)}
      <4>1. CASE Me \in dry
        <5>1. k + 1 <= 4
          BY <1>1, <1>3, <1>4, <2>6, <4>1 DEF P!Executes, P!Preflight
        <5> QED BY <1>5, <1>6, <2>4, <4>1, <5>1, PreflightFirst DEF Done
      <4>2. CASE Me \notin dry
        <5>1. D = Before(k + 1)
          BY <1>5, <1>6, <4>2 DEF Done, Before
        <5> QED BY <1>5, <2>4, <5>1, StepOrder
      <4> QED BY <4>1, <4>2
    <3>3. name \in Assembled
      BY <1>5, <2>4, StepsDomain
    <3>4. UNCHANGED machine /\ UNCHANGED stack
      BY <1>1 DEF MachineKept
    <3>5. On(name, D)'
      BY <1>7, <3>1, <3>2, <3>3, <3>4, StepBegins
    <3>6. InOrder'
      BY <2>3, <2>5, <3>5 DEF InOrder
    <3> QED BY <1>1, <2>1, <2>2, <3>6 DEF MachineInv
  <2>7. CASE ~P!Executes(Me)'
    <3>1. Me \in dry /\ todo' = <<>>
      BY <1>0, <1>1, <2>7 DEF P!Executes
    <3>2. Done(step[Me])' = D
      BY <1>1, <1>6, <3>1 DEF Done
    <3>3. Between(D)'
      BY <1>1, <1>7, KeptBetween
    <3>4. InOrder'
      BY <3>1, <3>2, <3>3 DEF InOrder
    <3> QED BY <1>1, <2>1, <2>2, <3>4 DEF MachineInv
  <2> QED BY <2>6, <2>7
<1> QED BY <1>8, <1>9

LEMMA StepReturnsKeeps ==
    ASSUME EngineInv, PlaceInv, MachineInv, StepReturns
    PROVE  MachineInv' /\ PlaceInv'
<1>1. PICK ok \in BOOLEAN : ok = (outcome = "ok") /\ P!StepReturns(Me, ok)
  BY DEF StepReturns
<1>2. /\ pc[Me] = "run" /\ todo = <<>> /\ todo' = <<>> /\ outcome' = outcome /\ MachineKept
      /\ dry' = dry /\ step' = step
  BY <1>1 DEF StepReturns, P!StepReturns, control, MachineKept
<1>3. pc \in [{Me} -> P!PCs]
  BY DEF EngineInv, E!TypeOK, E!PCs, P!PCs
<1>4. PICK D : D = Done(step[Me])
  OBVIOUS
<1>5. outcome = "ok" => Between(D)
  BY <1>2, <1>4, PointsGoOn DEF MachineInv, InOrder
<1>6. Leak({}) /\ Thawed /\ ~override
  BY <1>2, <1>5, BetweenStops, ErrorPathEnds DEF MachineInv
<1>7. CASE ok /\ Me \notin emitErr
  <2>1. pc'[Me] = "steps"
    BY <1>1, <1>3, <1>7 DEF P!StepReturns, P!Goto
  <2>2. Between(D)'
    BY <1>1, <1>2, <1>5, <1>7, KeptBetween
  <2>3. Done(step[Me])' = D
    BY <1>2, <1>4 DEF Done
  <2>4. Between(Done(step[Me]))'
    BY <2>2, <2>3
  <2> QED BY <1>2, <2>1, <2>4 DEF MachineInv, PlaceInv
<1>8. CASE ~(ok /\ Me \notin emitErr)
  <2>1. pc'[Me] = "unwind" /\ Me \in err'
    BY <1>1, <1>3, <1>8 DEF P!StepReturns, P!Goto, P!Fail
  <2>2. Unwinding'
    BY <1>2, <1>6, <2>1, StopsShort
  <2> QED BY <1>2, <2>1, <2>2 DEF MachineInv, PlaceInv
<1> QED BY <1>7, <1>8

LEMMA UndoKeeps ==
    ASSUME EngineInv, PlaceInv, MachineInv, Undo
    PROVE  MachineInv' /\ PlaceInv'
<1>1. PICK ok \in BOOLEAN :
         /\ P!Undo(Me, ok)
         /\ LET name == Steps[stack[Me][Len(stack[Me])]] IN
            \/ name = "luks-format"   /\ CloseMapper(ok)
            \/ name = "mount-target"  /\ UnmountTarget(ok)
            \/ name = "bootc-install" /\ RemoveImageRoot(ok)
  BY DEF Undo
<1>2. /\ pc[Me] = "unwind" /\ pc' = pc /\ err' = err /\ dry' = dry /\ step' = step
      /\ UNCHANGED <<control, luks, disclosed, rootType, frozen, override, blamed>>
      /\ stack' = [stack EXCEPT ![Me] = SubSeq(@, 1, Len(@) - 1)]
      /\ fails' = [fails EXCEPT ![Me] = IF ok THEN @ ELSE @ + 1] /\ stack[Me] # <<>>
  BY <1>1 DEF Undo, P!Undo
<1>3. stack[Me] \in Seq(Nat) /\ Me \in DOMAIN stack
  BY StepTypes
<1>4. PICK name : name = Steps[stack[Me][Len(stack[Me])]]
  OBVIOUS
<1>5. Owed \ {name} \subseteq Owed'
  <2>1. PICK s \in Seq(Nat) : s = stack[Me]
    BY <1>3
  <2>2. PICK n \in Nat : n = Len(s)
    BY LenProperties
  <2>3. n > 0 /\ DOMAIN s = 1..n
    BY <1>2, <2>1, <2>2, EmptySeq, LenProperties
  <2>4. stack'[Me] = SubSeq(s, 1, n - 1)
    BY <1>2, <1>3, <2>1, <2>2
  <2>5. Len(SubSeq(s, 1, n - 1)) = n - 1 /\ DOMAIN SubSeq(s, 1, n - 1) = 1..(n - 1)
        /\ \A i \in 1..(n - 1) : SubSeq(s, 1, n - 1)[i] = s[i]
    BY <2>2, <2>3
  <2>6. Owed' = {Steps[s[i]] : i \in 1..(n - 1)}
    <3>1. PICK t : t = stack'[Me]
      OBVIOUS
    <3>2. DOMAIN t = 1..(n - 1) /\ \A i \in 1..(n - 1) : t[i] = s[i]
      BY <2>4, <2>5, <3>1
    <3>3. Owed' = {Steps[t[i]] : i \in DOMAIN t}
      BY <3>1 DEF Owed
    <3> QED BY <3>2, <3>3
  <2>7. Owed = {Steps[s[i]] : i \in 1..n}
    BY <2>1, <2>3 DEF Owed
  <2>8. name = Steps[s[n]]
    BY <1>4, <2>1, <2>2
  <2>9. 1..n = 1..(n - 1) \cup {n}
    BY <2>3
  <2> QED BY <2>6, <2>7, <2>8, <2>9
<1>6. /\ mounts' \subseteq mounts
      /\ mapper' \in {mapper, "closed"} /\ image' \in {image, "none"}
  BY <1>1 DEF CloseMapper, UnmountTarget, RemoveImageRoot, PartOfTree
<1>7. fails'[Me] = 0 => ok /\ fails[Me] = 0
  <2>1. fails \in [{Me} -> Nat]
    BY DEF EngineInv, E!TypeOK
  <2> QED BY <1>2, <2>1
<1>8. ASSUME ok
      PROVE  \/ name = "luks-format" /\ mapper' = "closed"
             \/ name = "mount-target" /\ mounts' = mounts \ TargetTree
             \/ name = "bootc-install" /\ image' = "none"
  BY <1>1, <1>4, <1>8 DEF CloseMapper, UnmountTarget, RemoveImageRoot
<1>9. Unwinding
  BY <1>2 DEF MachineInv
<1>10. ~override' /\ Thawed' /\ (cancelled' # "late" => mounts' \cap Binds \subseteq blamed')
  BY <1>2, <1>6, <1>9 DEF Unwinding, Thawed, control
<1>11. ASSUME fails'[Me] = 0 PROVE Leak({})'
  <2>0. Leak({}) /\ ok /\ cancelled' = cancelled /\ blamed' = blamed
    BY <1>2, <1>7, <1>9, <1>11 DEF Unwinding, control
  <2>1. CASE cancelled = "late"
    BY <2>0, <2>1 DEF Leak
  <2>2. CASE cancelled # "late"
    <3>1. /\ mounts \subseteq {"scratch"} \cup blamed
                       \cup (IF "mount-target" \in Owed THEN TargetTree ELSE {})
          /\ mounts \cap Binds \subseteq blamed
          /\ mapper = "open" => "luks-format" \in Owed
      BY <2>0, <2>2 DEF Leak
    <3>2. mapper' = "open" => "luks-format" \in Owed'
      BY <1>5, <1>6, <1>8, <2>0, <3>1
    <3>3. mounts' \cap Binds \subseteq blamed'
      BY <1>6, <2>0, <3>1
    <3>4. mounts' \subseteq {"scratch"} \cup blamed'
                       \cup (IF "mount-target" \in Owed' THEN TargetTree ELSE {})
      <4>1. CASE name = "mount-target"
        <5>1. mounts' = mounts \ TargetTree
          BY <1>8, <2>0, <4>1
        <5> QED BY <2>0, <3>1, <5>1
      <4>2. CASE name # "mount-target"
        <5>1. "mount-target" \in Owed => "mount-target" \in Owed'
          BY <1>5, <4>2
        <5> QED BY <1>6, <2>0, <3>1, <5>1
      <4> QED BY <4>1, <4>2
    <3> QED BY <3>2, <3>3, <3>4 DEF Leak
  <2> QED BY <2>1, <2>2
<1>12. ASSUME Me \notin err' \cup dry', fails'[Me] = 0
       PROVE  LET D == Done(Len(Steps))' IN
              /\ mounts' \subseteq (IF "mount-target" \in Owed' THEN Layout ELSE {}) \cup (blamed' \cap Binds)
              /\ (luks' <=> Encrypted) /\ rootType' = TypeAfter(D) /\ ~frozen'
              /\ mapper' = "open" => "luks-format" \in Owed'
              /\ image' # "none" => "bootc-install" \in Owed'
  <2>1. /\ mounts \subseteq (IF "mount-target" \in Owed THEN Layout ELSE {}) \cup (blamed \cap Binds)
        /\ (luks <=> Encrypted) /\ rootType = TypeAfter(Done(Len(Steps))) /\ ~frozen
        /\ mapper = "open" => "luks-format" \in Owed
        /\ image # "none" => "bootc-install" \in Owed
    BY <1>2, <1>7, <1>9, <1>12 DEF Unwinding
  <2>2. ok
    BY <1>7, <1>12
  <2>3. mapper' = "open" => "luks-format" \in Owed'
    BY <1>5, <1>6, <1>8, <2>1, <2>2
  <2>4. image' # "none" => "bootc-install" \in Owed'
    BY <1>5, <1>6, <1>8, <2>1, <2>2
  <2>5. mounts' \subseteq (IF "mount-target" \in Owed' THEN Layout ELSE {}) \cup (blamed' \cap Binds)
    <3>1. CASE name = "mount-target"
      <4>1. mounts' = mounts \ TargetTree
        BY <1>8, <2>2, <3>1
      <4> QED BY <1>2, <2>1, <4>1 DEF Layout, TargetTree
    <3>2. CASE name # "mount-target"
      <4>1. "mount-target" \in Owed => "mount-target" \in Owed'
        BY <1>5, <3>2
      <4> QED BY <1>2, <1>6, <2>1, <4>1
    <3> QED BY <3>1, <3>2
  <2>6. Done(Len(Steps))' = Done(Len(Steps))
    BY <1>2 DEF Done
  <2> QED BY <1>2, <2>1, <2>3, <2>4, <2>5, <2>6
<1>13. Unwinding'
  BY <1>10, <1>11, <1>12 DEF Unwinding
<1>14. PlaceInv'
  BY <1>2 DEF PlaceInv, control
<1> QED BY <1>2, <1>13, <1>14 DEF MachineInv

(* What the invariant says does not depend on a cancellation, unless it    *)
(* comes too late.                                                         *)
Unmoved == /\ UNCHANGED <<machine, stack, todo, outcome>>
           /\ cancelled = "late" => cancelled' = "late"

LEMMA UnmovedParts ==
    ASSUME Unmoved
    PROVE  /\ Owed' = Owed
           /\ \A D : /\ Between(D) => Between(D)'
                     /\ Opened(D) => Opened(D)'
                     /\ Owes(D) => Owes(D)'
           /\ \A places : Mounted(places) => Mounted(places)'
           /\ \A made, open : Container(made, open) => Container(made, open)'
           /\ \A extra : Leak(extra) => Leak(extra)'
           /\ Thawed => Thawed'
<1>1. Owed' = Owed
  BY SameOwed DEF Unmoved
<1>2. \A places : Mounted(places) => Mounted(places)'
  BY DEF Unmoved, machine, Mounted
<1>3. \A made, open : Container(made, open) => Container(made, open)'
  BY DEF Unmoved, machine, Container
<1>4. \A D : Opened(D) => Opened(D)'
  BY <1>3 DEF Opened
<1>5. \A D : Owes(D) => Owes(D)'
  BY <1>1 DEF Owes
<1>6. \A D : Between(D) => Between(D)'
  BY <1>2, <1>4, <1>5 DEF Unmoved, machine, Between
<1>7. \A extra : Leak(extra) => Leak(extra)'
  BY <1>1 DEF Unmoved, machine, Leak
<1>8. Thawed => Thawed'
  BY DEF Unmoved, machine, Thawed
<1> QED BY <1>1, <1>2, <1>3, <1>4, <1>5, <1>6, <1>7, <1>8

LEMMA UnmovedOn ==
    ASSUME Unmoved, NEW name, NEW D, On(name, D) PROVE On(name, D)'
<1>0. /\ mounts' = mounts /\ mapper' = mapper /\ luks' = luks /\ disclosed' = disclosed
      /\ rootType' = rootType /\ frozen' = frozen /\ override' = override
      /\ image' = image /\ blamed' = blamed /\ todo' = todo
  BY DEF Unmoved, machine
<1>a. /\ \A places : Mounted(places) => Mounted(places)'
      /\ \A made, open : Container(made, open) => Container(made, open)'
  BY UnmovedParts
<1>b. /\ Between(D) => Between(D)'
      /\ Opened(D) => Opened(D)'
      /\ Owes(D) => Owes(D)'
      /\ Mounted(Target(D)) => Mounted(Target(D))'
  BY UnmovedParts
<1>1. OnPlain(D) => OnPlain(D)'
  BY <1>0, <1>a, <1>b DEF OnPlain
<1>2. OnPartition(D) => OnPartition(D)'
  BY <1>0, <1>a, <1>b DEF OnPartition
<1>3. OnLuksFormat(D) => OnLuksFormat(D)'
  BY <1>0, <1>a, <1>b DEF OnLuksFormat
<1>4. OnFormatRoot(D) => OnFormatRoot(D)'
  BY <1>0, <1>a, <1>b DEF OnFormatRoot
<1>5. \A rest : OnMounts(rest) => OnMounts(rest)'
  BY <1>0, <1>a, <1>b DEF OnMounts
<1>6. OnMountTarget(D) => OnMountTarget(D)'
  BY <1>0, <1>a, <1>b, <1>5 DEF OnMountTarget
<1>7. OnBootcInstall(D) => OnBootcInstall(D)'
  <2>1. OnRedirect => OnRedirect'
    BY <1>0, <1>a, <1>b DEF OnRedirect
  <2>2. Redirected => Redirected'
    BY <1>0, <1>a DEF Redirected
  <2>3. OnExtract => OnExtract'
    BY <1>0, <2>2 DEF OnExtract
  <2>4. OnTeardown => OnTeardown'
    BY <1>0, <1>a, <1>b DEF OnTeardown
  <2>5. Owes(D \cup {"bootc-install"}) => Owes(D \cup {"bootc-install"})'
    BY UnmovedParts
  <2> QED BY <1>0, <1>a, <1>b, <2>1, <2>2, <2>3, <2>4, <2>5 DEF OnBootcInstall
<1>8. OnRetag(D) => OnRetag(D)'
  BY <1>0, <1>a, <1>b, <1>5 DEF OnRetag
<1>9. OnFinalize(D) => OnFinalize(D)'
  BY <1>0, <1>a, <1>b DEF OnFinalize
<1> QED BY <1>1, <1>2, <1>3, <1>4, <1>6, <1>7, <1>8, <1>9 DEF On

LEMMA UnmovedKeeps ==
    ASSUME PlaceInv, MachineInv, Unmoved, UNCHANGED engine
    PROVE  PlaceInv' /\ MachineInv'
<1>1. /\ pc' = pc /\ step' = step /\ dry' = dry /\ err' = err /\ fails' = fails /\ stack' = stack
  BY DEF engine
<1>2. todo' = todo /\ outcome' = outcome /\ override' = override
  BY DEF Unmoved, machine
<1>3. P!Executes(Me)' <=> P!Executes(Me)
  BY <1>1 DEF P!Executes, P!Preflight
<1>4. PlaceInv'
  BY <1>1, <1>2, <1>3 DEF PlaceInv
<1>5. Done(step[Me])' = Done(step[Me]) /\ Done(step[Me] - 1)' = Done(step[Me] - 1)
      /\ Done(Len(Steps))' = Done(Len(Steps))
  BY <1>1 DEF Done
<1>6. Between(Done(step[Me])) => Between(Done(step[Me]))'
  <2>1. PICK D : D = Done(step[Me])
    OBVIOUS
  <2>2. Between(D) => Between(D)'
    BY UnmovedParts
  <2>3. Done(step[Me])' = D
    BY <1>5, <2>1
  <2> QED BY <2>1, <2>2, <2>3
<1>7. On(Steps[step[Me]], Done(step[Me] - 1)) => On(Steps[step[Me]], Done(step[Me] - 1))'
  <2>1. PICK D : D = Done(step[Me] - 1)
    OBVIOUS
  <2>2. PICK name : name = Steps[step[Me]]
    OBVIOUS
  <2>3. On(name, D) => On(name, D)'
    BY UnmovedOn
  <2>4. Done(step[Me] - 1)' = D /\ Steps[step[Me]]' = name
    BY <1>1, <1>5, <2>1, <2>2
  <2> QED BY <2>1, <2>2, <2>3, <2>4
<1>8. InOrder => InOrder'
  BY <1>2, <1>6, <1>7 DEF InOrder
<1>9. OnErrorPath => OnErrorPath'
  BY <1>2, UnmovedParts DEF OnErrorPath
<1>10. Unwinding => Unwinding'
  <2> SUFFICES ASSUME Unwinding PROVE Unwinding'
    OBVIOUS
  <2>1. Owed' = Owed /\ Thawed' /\ ~override' /\ (fails'[Me] = 0 => Leak({})')
    BY <1>1, <1>2, UnmovedParts DEF Unwinding
  <2>2. cancelled' # "late" => mounts' \cap Binds \subseteq blamed'
    BY DEF Unwinding, Unmoved, machine
  <2>3. ASSUME Me \notin err' \cup dry', fails'[Me] = 0
        PROVE  LET D == Done(Len(Steps))' IN
               /\ mounts' \subseteq (IF "mount-target" \in Owed' THEN Layout ELSE {}) \cup (blamed' \cap Binds)
               /\ (luks' <=> Encrypted) /\ rootType' = TypeAfter(D) /\ ~frozen'
               /\ mapper' = "open" => "luks-format" \in Owed'
               /\ image' # "none" => "bootc-install" \in Owed'
    <3>1. LET D == Done(Len(Steps)) IN
          /\ mounts \subseteq (IF "mount-target" \in Owed THEN Layout ELSE {}) \cup (blamed \cap Binds)
          /\ (luks <=> Encrypted) /\ rootType = TypeAfter(D) /\ ~frozen
          /\ mapper = "open" => "luks-format" \in Owed
          /\ image # "none" => "bootc-install" \in Owed
      BY <1>1, <2>3 DEF Unwinding
    <3> QED BY <1>5, <2>1, <3>1 DEF Unmoved, machine
  <2> QED BY <2>1, <2>2, <2>3 DEF Unwinding
<1> QED BY <1>1, <1>2, <1>4, <1>6, <1>8, <1>9, <1>10 DEF MachineInv

-----------------------------------------------------------------------------
(* The steps of the engine that do not run a step.                         *)
LEMMA EarlyKeeps ==
    ASSUME EngineInv, PlaceInv, MachineInv, MachineKept, UNCHANGED <<control, dry, step>>,
           pc[Me] \in {"idle", "started"},
           \/ pc'[Me] \in {"started", "steps"}
           \/ pc'[Me] = "unwind" /\ Me \in err'
    PROVE  MachineInv' /\ PlaceInv'
<1>1. step[Me] = 0 /\ todo = <<>>
  BY DEF PlaceInv
<1>2. todo' = <<>> /\ step' = step /\ dry' = dry
  BY <1>1 DEF control
<1>3. PICK D : D = Done(step[Me])
  OBVIOUS
<1>4. Between(D) /\ Done(step[Me])' = D
  BY <1>2, <1>3 DEF MachineInv, Done
<1>5. CASE pc'[Me] \in {"started", "steps"}
  <2>1. Between(D)'
    BY <1>4, KeptBetween
  <2>2. Between(Done(step[Me]))'
    BY <1>4, <2>1
  <2> QED BY <1>1, <1>2, <1>5, <2>2 DEF MachineInv, PlaceInv
<1>6. CASE pc'[Me] = "unwind" /\ Me \in err'
  <2>1. Unwinding'
    BY <1>4, <1>6, BetweenStops, StopsShort
  <2> QED BY <1>2, <1>6, <2>1 DEF MachineInv, PlaceInv
<1> QED BY <1>5, <1>6

LEMMA SkipKeeps ==
    ASSUME EngineInv, PlaceInv, MachineInv, MachineKept, UNCHANGED <<control, dry, step>>,
           pc[Me] = "run", ~P!Executes(Me),
           \/ pc'[Me] = "steps"
           \/ pc'[Me] = "unwind" /\ Me \in err'
    PROVE  MachineInv' /\ PlaceInv'
<1>1. outcome = "ok" /\ todo = <<>>
  BY DEF PlaceInv
<1>2. todo' = <<>> /\ step' = step /\ dry' = dry
  BY <1>1 DEF control
<1>3. PICK D : D = Done(step[Me])
  OBVIOUS
<1>4. Between(D) /\ Done(step[Me])' = D
  BY <1>1, <1>2, <1>3, PointsGoOn DEF MachineInv, InOrder, Done
<1>5. CASE pc'[Me] = "steps"
  <2>1. Between(D)'
    BY <1>4, KeptBetween
  <2>2. Between(Done(step[Me]))'
    BY <1>4, <2>1
  <2> QED BY <1>2, <1>5, <2>2 DEF MachineInv, PlaceInv
<1>6. CASE pc'[Me] = "unwind" /\ Me \in err'
  <2>1. Unwinding'
    BY <1>4, <1>6, BetweenStops, StopsShort
  <2> QED BY <1>2, <1>6, <2>1 DEF MachineInv, PlaceInv
<1> QED BY <1>5, <1>6

Late == {"unwind", "report", "summary", "verdict", "returned"}

LEMMA LateKeeps ==
    ASSUME PlaceInv, MachineInv, MachineKept, UNCHANGED <<control, dry, step, fails>>,
           err \subseteq err', pc[Me] \in Late, pc'[Me] \in Late
    PROVE  MachineInv' /\ PlaceInv'
<1>1. Unwinding /\ todo = <<>>
  BY DEF MachineInv, PlaceInv, Late
<1>2. todo' = <<>> /\ dry' = dry /\ fails' = fails
  BY <1>1 DEF control
<1>3. Unwinding'
  BY <1>1, <1>2, UnwindingKept
<1> QED BY <1>2, <1>3 DEF MachineInv, PlaceInv, Late

LEMMA EngineStepKeeps ==
    ASSUME EngineInv, PlaceInv, MachineInv, EngineStep
    PROVE  MachineInv' /\ PlaceInv'
<1>0. pc \in [{Me} -> P!PCs]
  BY DEF EngineInv, E!TypeOK, E!PCs, P!PCs
<1>a. UNCHANGED control /\ UNCHANGED machine /\ cancelled' = cancelled
  BY DEF EngineStep, control
<1>b. stack' = stack => MachineKept
  BY <1>a DEF MachineKept
<1> USE DEF P!Goto, P!Fail, P!Succeed, P!Proceed
<1>1. ASSUME NEW ok \in BOOLEAN, P!Begin(Me, ok) PROVE MachineInv' /\ PlaceInv'
  <2>1. /\ pc[Me] = "idle" /\ UNCHANGED <<dry, step, stack>>
        /\ pc'[Me] \in {"started", "steps"} \/ (pc'[Me] = "unwind" /\ Me \in err')
    BY <1>0, <1>1 DEF P!Begin
  <2> QED BY <1>a, <1>b, <2>1, EarlyKeeps
<1>2. ASSUME NEW ok \in BOOLEAN, P!DeprecationWarning(Me, ok) PROVE MachineInv' /\ PlaceInv'
  <2>1. /\ pc[Me] = "started" /\ UNCHANGED <<dry, step, stack>>
        /\ pc'[Me] \in {"started", "steps"} \/ (pc'[Me] = "unwind" /\ Me \in err')
    BY <1>0, <1>2 DEF P!DeprecationWarning
  <2> QED BY <1>a, <1>b, <2>1, EarlyKeeps
<1>3. ASSUME P!TakeLock(Me) \/ P!SkipLock(Me) PROVE MachineInv' /\ PlaceInv'
  <2>1. pc[Me] = "started" /\ UNCHANGED <<dry, step, stack>> /\ pc'[Me] = "steps"
    BY <1>0, <1>3 DEF P!TakeLock, P!SkipLock
  <2> QED BY <1>a, <1>b, <2>1, EarlyKeeps
<1>4. ASSUME P!RefuseLock(Me) PROVE MachineInv' /\ PlaceInv'
  <2>1. /\ pc[Me] = "started" /\ UNCHANGED <<dry, step, stack>>
        /\ pc'[Me] = "unwind" /\ Me \in err'
    BY <1>0, <1>4 DEF P!RefuseLock
  <2> QED BY <1>a, <1>b, <2>1, EarlyKeeps
<1>5. ASSUME NEW ok \in BOOLEAN, P!SkipStep(Me, ok) PROVE MachineInv' /\ PlaceInv'
  <2>1. /\ pc[Me] = "run" /\ ~P!Executes(Me) /\ UNCHANGED <<dry, step, stack>>
        /\ pc'[Me] = "steps" \/ (pc'[Me] = "unwind" /\ Me \in err')
    BY <1>0, <1>5 DEF P!SkipStep
  <2> QED BY <1>a, <1>b, <2>1, SkipKeeps
<1>6. ASSUME P!StepsDone(Me) PROVE MachineInv' /\ PlaceInv'
  <2>1. /\ pc[Me] = "steps" /\ step[Me] = Len(Steps) /\ UNCHANGED <<dry, step, stack>>
        /\ pc'[Me] = "unwind"
    BY <1>0, <1>6 DEF P!StepsDone
  <2>2. Between(Done(Len(Steps))) /\ todo' = <<>>
    BY <1>a, <2>1 DEF MachineInv, PlaceInv, control
  <2>3. Unwinding'
    BY <1>b, <2>1, <2>2, AllDone
  <2> QED BY <2>1, <2>2, <2>3 DEF MachineInv, PlaceInv
<1>7. ASSUME NEW ok \in BOOLEAN,
             P!WarnCleanup(Me, ok) \/ P!EmitSummary(Me, ok) \/ P!EmitVerdict(Me, ok)
      PROVE  MachineInv' /\ PlaceInv'
  <2>1. /\ pc[Me] \in Late /\ pc'[Me] \in Late /\ err \subseteq err'
        /\ UNCHANGED <<dry, step, stack, fails>>
    BY <1>0, <1>7 DEF P!WarnCleanup, P!EmitSummary, P!EmitVerdict, Late
  <2> QED BY <1>a, <1>b, <2>1, LateKeeps
<1>8. ASSUME P!Unwound(Me) \/ P!ReleaseLock(Me) PROVE MachineInv' /\ PlaceInv'
  <2>1. /\ pc[Me] \in Late /\ pc'[Me] \in Late /\ err \subseteq err'
        /\ UNCHANGED <<dry, step, stack, fails>>
    BY <1>0, <1>8 DEF P!Unwound, P!ReleaseLock, Late
  <2> QED BY <1>a, <1>b, <2>1, LateKeeps
<1> QED BY <1>1, <1>2, <1>3, <1>4, <1>5, <1>6, <1>7, <1>8 DEF EngineStep

(* The operations of the bodies and of the error paths are operations.     *)
LEMMA BodyType == \A name : Body(name) \in Seq(Ops)
<1> USE OpTypes, PieceTypes
<1>w. \A c \in BOOLEAN : \A s \in Seq(Ops) : When(c, s) \in Seq(Ops)
  BY DEF When
<1>1. RunPreflight \in Seq(Ops)
  BY DEF RunPreflight
<1>2. RunPartition \in Seq(Ops)
  BY DEF RunPartition
<1>3. RunFormatBoot \in Seq(Ops)
  <2>1. << <<"write", "fs">> >> \in Seq(Ops)
    OBVIOUS
  <2> QED BY <1>w, <2>1, Concat DEF RunFormatBoot
<1>4. RunLuksFormat \in Seq(Ops)
  <2>1. << IF Encryption = "tpm2-luks" THEN <<"disclose", "key">> ELSE <<"check", "key">>,
           <<"luksFormat", "root">> >> \in Seq(Ops)
    OBVIOUS
  <2>2. << <<"defer", "mapper">> >> \in Seq(Ops)
    OBVIOUS
  <2> QED BY <2>1, <2>2, Concat DEF RunLuksFormat
<1>5. RunFormatRoot \in Seq(Ops)
  <2>1. << <<"write", "fs">> >> \in Seq(Ops)
    OBVIOUS
  <2>2. << <<"mount", "scratch">>, <<"subvols", "scratch">>, <<"umount", "scratch">> >> \in Seq(Ops)
    OBVIOUS
  <2> QED BY <1>w, <2>1, <2>2, RecipeAssumption, Concat DEF RunFormatRoot
<1>6. MountTarget \in Seq(Ops)
  <2>1. /\ << <<"mount", "root">> >> \in Seq(Ops) /\ << <<"mount", "boot">> >> \in Seq(Ops)
        /\ << <<"mount", "esp">> >> \in Seq(Ops)
    OBVIOUS
  <2> QED BY <1>w, <2>1, Concat DEF MountTarget
<1>7. RunMountTarget \in Seq(Ops)
  <2>1. << <<"defer", "target">> >> \in Seq(Ops)
    OBVIOUS
  <2> QED BY <1>6, <2>1, Concat DEF RunMountTarget
<1>8. RunBootcInstall \in Seq(Ops)
  <2>1. << <<"install", "target">> >> \in Seq(Ops)
    OBVIOUS
  <2> QED BY <1>w, <2>1, RecipeAssumption, Concat DEF RunBootcInstall
<1>9. RunTPMEnroll \in Seq(Ops) /\ RunESPStage \in Seq(Ops) /\ RunMOKStage \in Seq(Ops)
  BY DEF RunTPMEnroll, RunESPStage, RunMOKStage
<1>10. RunRetagRoot \in Seq(Ops)
  <2>1. /\ << <<"umountTree", "target">> >> \in Seq(Ops)
        /\ << <<"luksClose", "mapper">> >> \in Seq(Ops)
        /\ << <<"setType", "root">>, <<"wait", "root">> >> \in Seq(Ops)
    OBVIOUS
  <2> QED BY <1>w, <1>6, <2>1, Concat DEF RunRetagRoot, Encrypted
<1>11. RunConfigure \in Seq(Ops)
  BY DEF RunConfigure
<1>12. RunFinalize \in Seq(Ops)
  BY DEF RunFinalize
<1> QED
  BY <1>1, <1>2, <1>3, <1>4, <1>5, <1>7, <1>8, <1>9, <1>10, <1>11, <1>12 DEF Body

LEMMA CleanUpType == CleanUp \in Seq(Ops)
<1>1. /\ <<"unwindTree", "target">> \in Ops /\ <<"rescue", "target">> \in Ops
      /\ <<"umount", "scratch">> \in Ops /\ <<"detach", "base">> \in Ops
      /\ <<"detach", "store">> \in Ops /\ <<"detach", "vartmp">> \in Ops
  BY DEF Ops, Moves, Whats, Subjects, Commands, Places, TargetTree, RootFS, Binds
<1>2. /\ << <<"unwindTree", "target">> >> \in Seq(Ops) /\ << <<"rescue", "target">> >> \in Seq(Ops)
      /\ << <<"umount", "scratch">> >> \in Seq(Ops) /\ << <<"detach", "base">> >> \in Seq(Ops)
      /\ Detaches \in Seq(Ops)
  BY <1>1 DEF Detaches
<1>3. Tail(Detaches) \in Seq(Ops)
  BY <1>2, HeadTailProperties DEF Detaches
<1>4. When(RamHost, Teardown) \in Seq(Ops) /\ <<>> \in Seq(Ops)
  BY PieceTypes DEF When
<1> QED BY <1>2, <1>3, <1>4 DEF CleanUp, CleanUpOf

LEMMA OperationTodo ==
    ASSUME TodoOK, Operation PROVE TodoOK'
<1>1. /\ todo # <<>>
      /\ Advances(Head(todo)[1], Head(todo)[2]) \/ Aborts
  BY OperationDoes
<1>2. Tail(todo) \in Seq(Ops)
  BY <1>1, OpOf
<1>3. << <<"summarize", "item">> >> \in Seq(Ops)
  BY OpTypes
<1>4. \A c \in BOOLEAN : When(c, << <<"summarize", "item">> >>) \o Tail(todo) \in Seq(Ops)
  BY <1>2, <1>3, PieceTypes, Concat DEF When
<1>5. todo' \in Seq(Ops)
  BY <1>1, <1>2, <1>4, CleanUpType DEF Advances, TodoAfter, Aborts
<1> QED BY <1>5 DEF TodoOK

LEMMA TodoKept ==
    ASSUME TodoOK, [Next]_vars PROVE TodoOK'
<1>1. CASE Operation
  BY <1>1, OperationTodo
<1>2. CASE StartStep
  <2>1. todo' = <<>> \/ \E name : todo' = Body(name)
    BY <1>2 DEF StartStep
  <2> QED BY <2>1, BodyType, PieceTypes DEF TodoOK
<1>3. CASE StepReturns \/ Undo \/ EngineStep \/ Cancel \/ UNCHANGED vars
  <2>1. todo' = todo
    BY <1>3 DEF StepReturns, Undo, EngineStep, Cancel, vars, control
  <2> QED BY <2>1 DEF TodoOK
<1> QED BY <1>1, <1>2, <1>3 DEF Next

-----------------------------------------------------------------------------
(* TypeOK, but for the engine's part.                                      *)
MachineTypes ==
    /\ outcome \in {"ok", "failed"} /\ cancelled \in {"no", "yes", "late"}
    /\ mounts \subseteq Places /\ mapper \in {"closed", "open", "stale"}
    /\ rootType \in {"unset", "linux", "dps"} /\ image \in {"none", "dir", "ready"}
    /\ {luks, disclosed, frozen, override} \subseteq BOOLEAN
    /\ blamed \subseteq Places \cup {"frozen"}

LEMMA OperationTypes ==
    ASSUME TodoOK, MachineTypes, Operation PROVE MachineTypes'
<1> USE DEF MachineTypes
<1>0. ASSUME NEW what \in Moves, At(what) PROVE Subject \in Places
  <2>1. Head(todo) \in Ops /\ Head(todo)[1] = what /\ Subject = Head(todo)[2]
    BY <1>0, OpOf DEF At, Subject
  <2> QED BY <1>0, <2>1 DEF Ops
<1>p. PartOfTree \subseteq SUBSET mounts /\ TargetTree \subseteq Places
  BY DEF PartOfTree, Places
<1> USE DEF Command, Proceed, Abort, machine, control
<1>1. CASE CommandFails
  BY <1>1 DEF CommandFails
<1>2. CASE RunsCommand
  BY <1>2 DEF RunsCommand
<1>3. CASE RunsCode
  BY <1>3 DEF RunsCode
<1>4. CASE Partition
  BY <1>4 DEF Partition
<1>5. CASE LuksFormat
  BY <1>5 DEF LuksFormat
<1>6. CASE CloseStale
  BY <1>6 DEF CloseStale
<1>7. CASE LuksOpen
  BY <1>7 DEF LuksOpen
<1>8. CASE LuksClose
  BY <1>8 DEF LuksClose
<1>9. CASE Mount
  <2>1. Subject \in Places
    BY <1>0, <1>9 DEF Mount, Moves
  <2> QED BY <1>9, <2>1 DEF Mount
<1>10. CASE UmountScratch
  <2>1. Subject \in Places
    BY <1>0, <1>10 DEF UmountScratch, Moves
  <2> QED BY <1>10, <2>1 DEF UmountScratch
<1>11. CASE UmountTree
  BY <1>11, <1>p DEF UmountTree
<1>12. CASE UnwindTree
  BY <1>12, <1>p DEF UnwindTree
<1>13. CASE SetType
  BY <1>13 DEF SetType
<1>14. CASE Override
  BY <1>14 DEF Override
<1>15. CASE Detach
  <2>1. Subject \in Places
    BY <1>0, <1>15 DEF Detach, Moves
  <2> QED BY <1>15, <2>1 DEF Detach
<1>16. CASE RemoveBase
  BY <1>16 DEF RemoveBase
<1>17. CASE MakeImageDir
  BY <1>17 DEF MakeImageDir
<1>18. CASE ExtractSecureImageRoot
  BY <1>18 DEF ExtractSecureImageRoot
<1>19. CASE Freeze
  BY <1>19 DEF Freeze
<1>20. CASE Thaw
  BY <1>20 DEF Thaw
<1>21. CASE Rescue
  BY <1>21 DEF Rescue
<1>22. CASE Report
  BY <1>22 DEF Report
<1>23. CASE Summarize
  BY <1>23 DEF Summarize
<1>24. CASE Disclose
  BY <1>24 DEF Disclose
<1>25. CASE DeferUndo
  BY <1>25 DEF DeferUndo
<1> QED
  BY <1>1, <1>2, <1>3, <1>4, <1>5, <1>6, <1>7, <1>8, <1>9, <1>10, <1>11, <1>12, <1>13, <1>14, <1>15, <1>16, <1>17, <1>18, <1>19, <1>20, <1>21, <1>22, <1>23, <1>24, <1>25
  DEF Operation

LEMMA TypesKept ==
    ASSUME TodoOK, MachineTypes, [Next]_vars PROVE MachineTypes'
<1> USE DEF MachineTypes
<1>1. CASE Operation
  BY <1>1, OperationTypes
<1>2. CASE StartStep
  BY <1>2 DEF StartStep, machine
<1>3. CASE StepReturns \/ EngineStep \/ UNCHANGED vars
  BY <1>3 DEF StepReturns, EngineStep, vars, control, machine
<1>4. CASE Undo
  <2>1. /\ mounts' \subseteq mounts /\ mapper' \in {mapper, "closed"} /\ image' \in {image, "none"}
    BY <1>4 DEF Undo, CloseMapper, UnmountTarget, RemoveImageRoot, PartOfTree
  <2> QED BY <1>4, <2>1 DEF Undo, control
<1>5. CASE Cancel
  BY <1>5 DEF Cancel, machine
<1> QED BY <1>1, <1>2, <1>3, <1>4, <1>5 DEF Next

LEMMA MachineKeeps ==
    ASSUME EngineInv, TodoOK, PlaceInv, MachineInv, [Next]_vars
    PROVE  MachineInv' /\ PlaceInv'
<1>1. CASE Operation
  BY <1>1, OperationKeeps
<1>2. CASE StartStep
  BY <1>2, StartStepKeeps
<1>3. CASE StepReturns
  BY <1>3, StepReturnsKeeps
<1>4. CASE Undo
  BY <1>4, UndoKeeps
<1>5. CASE EngineStep
  BY <1>5, EngineStepKeeps
<1>6. CASE Cancel
  <2>1. Unmoved /\ UNCHANGED engine
    BY <1>6 DEF Cancel, Cancelled, Unmoved, machine, engine
  <2> QED BY <2>1, UnmovedKeeps
<1>7. CASE UNCHANGED vars
  <2>1. Unmoved /\ UNCHANGED engine
    BY <1>7 DEF vars, Unmoved, machine, control, engine
  <2> QED BY <2>1, UnmovedKeeps
<1> QED BY <1>1, <1>2, <1>3, <1>4, <1>5, <1>6, <1>7 DEF Next

-----------------------------------------------------------------------------
(* The clean-ups do nothing but give back.                                 *)
LEMMA ErrorHeads ==
    ASSUME OnErrorPath, todo # <<>>
    PROVE  Head(todo)[1] \in {"umount", "unwindTree", "rescue", "detach", "remove", "override"}
<1>1. todo = << <<"umount", "scratch">> >> => Head(todo) = <<"umount", "scratch">>
  OBVIOUS
<1>2. todo = << <<"unwindTree", "target">> >> => Head(todo) = <<"unwindTree", "target">>
  OBVIOUS
<1>3. todo = << <<"rescue", "target">> >> => Head(todo) = <<"rescue", "target">>
  OBVIOUS
<1>4. todo \in {Detaches, DetachAll} => Head(todo) = <<"detach", "vartmp">>
  BY ErrorSplits, TeardownSplits DEF Splits
<1>5. todo \in {Tail(Detaches), DetachStore} => Head(todo) = <<"detach", "store">>
  BY ErrorSplits, TeardownSplits DEF Splits
<1>6. todo \in {<< <<"detach", "base">> >>, DetachBase} => Head(todo) = <<"detach", "base">>
  BY ErrorSplits, TeardownSplits DEF Splits
<1>7. todo = RemoveBaseDir => Head(todo) = <<"remove", "base">>
  BY TeardownSplits DEF Splits
<1>8. todo = Teardown => Head(todo) = <<"override", "off">>
  BY TeardownSplits DEF Splits
<1> QED BY <1>1, <1>2, <1>3, <1>4, <1>5, <1>6, <1>7, <1>8 DEF OnErrorPath

(* An operation that is not a clean-up finds what it needs.                *)
LEMMA AtReady ==
    ASSUME EngineInv, TodoOK, PlaceInv, MachineInv, NEW what, At(what),
           what \notin {"umount", "unwindTree", "rescue", "detach", "remove", "override"}
    PROVE  Ready /\ Head(todo)[1] = what
<1>1. pc[Me] = "run" /\ todo # <<>> /\ Head(todo)[1] = what
  BY DEF At
<1>2. outcome = "ok"
  BY <1>1, ErrorHeads DEF MachineInv
<1> QED BY <1>1, <1>2, RunReady

-----------------------------------------------------------------------------
(* Only luksFormat makes a container, and a key once shown stays shown.    *)
LEMMA Discloses ==
    ASSUME [Next]_vars
    PROVE  /\ luks' => luks \/ At("luksFormat")
           /\ disclosed => disclosed'
<1>1. CASE Operation
  <2>1. CASE LuksFormat
    BY <2>1 DEF LuksFormat
  <2>2. CASE Disclose
    BY <2>2 DEF Disclose
  <2> DEFINE Unchanged == luks' = luks /\ disclosed' = disclosed
  <2>3. ASSUME CommandFails \/ RunsCommand \/ RunsCode \/ RemoveBase \/ Report
               \/ Summarize \/ DeferUndo
        PROVE  Unchanged
    BY <2>3 DEF CommandFails, RunsCommand, RunsCode, RemoveBase, Report, Summarize, DeferUndo, machine
  <2>4. ASSUME Partition \/ CloseStale \/ LuksOpen \/ LuksClose \/ Mount \/ UmountScratch
               \/ UmountTree \/ UnwindTree \/ SetType
        PROVE  Unchanged
    BY <2>4
    DEF Partition, CloseStale, LuksOpen, LuksClose, Mount, UmountScratch, UmountTree, UnwindTree, SetType
  <2>5. ASSUME Override \/ Detach \/ MakeImageDir \/ ExtractSecureImageRoot \/ Freeze
               \/ Thaw \/ Rescue
        PROVE  Unchanged
    BY <2>5 DEF Override, Detach, MakeImageDir, ExtractSecureImageRoot, Freeze, Thaw, Rescue
  <2> QED BY <1>1, <2>1, <2>2, <2>3, <2>4, <2>5 DEF Operation
<1>2. CASE StartStep \/ StepReturns \/ EngineStep \/ Cancel \/ Undo \/ UNCHANGED vars
  BY <1>2 DEF StartStep, StepReturns, EngineStep, Cancel, Undo, vars, machine
<1> QED BY <1>1, <1>2 DEF Next

LEMMA KeyKept ==
    ASSUME EngineInv, TodoOK, PlaceInv, MachineInv, KeyIsDisclosed, [Next]_vars
    PROVE  KeyIsDisclosed'
<1>1. At("luksFormat") => (Encryption = "tpm2-luks" => disclosed)
  BY AtReady DEF Ready
<1> QED BY <1>1, Discloses DEF KeyIsDisclosed

-----------------------------------------------------------------------------
(* The inductive invariant.                                                *)
IInv == TodoOK /\ MachineTypes /\ PlaceInv /\ MachineInv /\ KeyIsDisclosed

LEMMA InitHolds == Init => IInv
<1> SUFFICES ASSUME Init PROVE IInv
  OBVIOUS
<1>1. /\ pc[Me] = "idle" /\ step[Me] = 0 /\ stack[Me] = <<>>
  BY DEF Init, P!Init
<1>2. TodoOK /\ MachineTypes /\ KeyIsDisclosed
  BY PieceTypes DEF Init, TodoOK, MachineTypes, KeyIsDisclosed
<1>3. PlaceInv
  BY <1>1 DEF PlaceInv, Init
<1>4. Done(0) = {}
  BY DEF Done
<1>5. Between({})
  BY DEF Init, Between, Mounted, Target, Opened, Container, Owes, TypeAfter, ImageAfter
<1>6. MachineInv
  BY <1>1, <1>4, <1>5 DEF MachineInv
<1> QED BY <1>2, <1>3, <1>6 DEF IInv

LEMMA NextHolds == EngineInv /\ IInv /\ [Next]_vars => IInv'
BY TodoKept, TypesKept, MachineKeeps, KeyKept DEF IInv

LEMMA Inductive == Spec => [](EngineInv /\ IInv)
BY EngineCorrect, InitHolds, NextHolds, PTL DEF Spec

(* The install lock covers every write of the steps and of their undos     *)
(* (acquireInstallLock).                                                   *)
THEOREM LockHeld == Spec => []P!LockCoversDisk
<1>1. EngineInv => P!LockCoversDisk
  <2> SUFFICES ASSUME EngineInv, NEW r \in {Me},
                      P!Writing(r) \/ (stack[r] # <<>> /\ pc[r] # "crashed")
               PROVE  lock = r
    BY DEF P!LockCoversDisk
  <2>1. /\ pc[r] = "run" /\ r \notin dry => lock = r
        /\ stack[r] # <<>> /\ pc[r] # "crashed" => lock = r
    BY DEF EngineInv, E!LockInv
  <2> QED BY <2>1 DEF P!Writing
<1> QED BY <1>1, Inductive, PTL

(* Every variable keeps its type.                                          *)
THEOREM TypeCorrect == Spec => []TypeOK
<1>1. EngineInv /\ IInv => TypeOK
  BY SameTypeOK DEF EngineInv, IInv, MachineTypes, TypeOK
<1> QED BY <1>1, Inductive, PTL

(* A step that works on the target finds it complete, podman finds the     *)
(* store where it needs it, and nobody else does (bootc.go, retag.go).     *)
THEOREM TargetReady == Spec => []WorksOnTarget
<1>1. EngineInv /\ IInv => WorksOnTarget
  <2> SUFFICES ASSUME EngineInv, IInv PROVE WorksOnTarget
    OBVIOUS
  <2>0. /\ TodoOK /\ PlaceInv /\ MachineInv
        /\ \A what \in {"install", "extract", "enroll", "stage", "configure", "freeze", "import",
                        "umountTree", "setType"} : At(what) => Ready /\ Head(todo)[1] = what
    BY AtReady DEF IInv
  <2>1. RamHost /\ (At("install") \/ At("extract")) => override /\ Binds \subseteq mounts
    BY <2>0 DEF Ready
  <2>2. At("umountTree") \/ At("configure") \/ At("freeze") =>
           ~override /\ mounts \cap Binds \subseteq blamed
    BY <2>0 DEF Ready
  <2>3. pc[Me] # "run" => ~override /\ (cancelled = "late" \/ mounts \cap Binds \subseteq blamed)
    <3>1. CASE pc[Me] \in {"idle", "started", "steps"}
      <4>1. PICK D : D = Done(step[Me])
        OBVIOUS
      <4>2. Between(D)
        BY <2>0, <3>1, <4>1 DEF MachineInv
      <4> QED BY <4>2, TargetFits DEF Between, Mounted
    <3>2. CASE pc[Me] \notin {"idle", "started", "steps", "run"}
      BY <2>0, <3>2 DEF MachineInv, Unwinding
    <3> QED BY <3>1, <3>2
  <2>4. At("setType") => mapper # "open" /\ mounts \subseteq blamed
    BY <2>0 DEF Ready
  <2>5. ASSUME NEW what \in {"install", "extract", "enroll", "stage", "configure", "freeze"},
               At(what)
        PROVE  /\ {"root", "esp"} \subseteq mounts
               /\ Bootloader = "grub2" => "boot" \in mounts
               /\ Encrypted => luks /\ mapper = "open"
    BY <2>0, <2>5 DEF Ready, Layout
  <2>6. At("stage") \/ At("import") => image = "ready"
    BY <2>0 DEF Ready
  <2> QED BY <2>1, <2>2, <2>3, <2>4, <2>5, <2>6 DEF WorksOnTarget, RedirectIsScoped
<1> QED BY <1>1, Inductive, PTL

(* No container is ever made with a generated key that has not been shown  *)
(* (runLuksFormat emits the recovery key before luksFormat).               *)
THEOREM KeyDisclosed == Spec => []KeyIsDisclosed
<1>1. EngineInv /\ IInv => KeyIsDisclosed
  BY DEF IInv
<1> QED BY <1>1, Inductive, PTL

(* Once the undos have run nothing is owed any more.                       *)
LEMMA NothingOwed ==
    ASSUME EngineInv, IInv, Unwound PROVE Unwinding /\ Owed = {}
<1>1. Unwinding
  BY DEF IInv, MachineInv, Unwound
<1>2. stack[Me] = <<>>
  BY DEF Unwound, EngineInv, E!LockInv
<1> QED BY <1>1, <1>2 DEF Owed

(* A run that returns nil leaves the installed disk and nothing else.      *)
THEOREM SuccessComplete == Spec => []SuccessIsComplete
<1>1. EngineInv /\ IInv => SuccessIsComplete
  <2> SUFFICES ASSUME EngineInv, IInv, pc[Me] = "returned", Me \notin err, Me \notin dry
               PROVE  /\ mounts \subseteq blamed \cap Binds /\ mapper # "open" /\ ~frozen
                      /\ image = "none" /\ luks = Encrypted
                      /\ rootType = IF Bootloader = "grub2" THEN "linux" ELSE "dps"
    BY DEF SuccessIsComplete
  <2>1. Unwinding /\ Owed = {}
    BY NothingOwed DEF Unwound
  <2>2. fails[Me] = 0
    <3>1. warned[Me] = fails[Me] /\ (warned[Me] # 0 => Me \in err)
      BY DEF EngineInv, E!VerdictInv, E!Honest
    <3> QED BY <3>1
  <2>3. PICK D : D = Done(Len(Steps))
    OBVIOUS
  <2>4. /\ mounts \subseteq (IF "mount-target" \in Owed THEN Layout ELSE {}) \cup (blamed \cap Binds)
        /\ (luks <=> Encrypted) /\ rootType = TypeAfter(D) /\ ~frozen
        /\ mapper = "open" => "luks-format" \in Owed
        /\ image # "none" => "bootc-install" \in Owed
    BY <2>1, <2>2, <2>3 DEF Unwinding
  <2>5. rootType = IF Bootloader = "grub2" THEN "linux" ELSE "dps"
    <3>1. D = Assembled
      BY <2>3, AllSteps DEF Done, UpTo
    <3>2. "partition" \in D /\ ("retag-root" \in D <=> Bootloader # "grub2")
      BY <3>1 DEF Assembled
    <3> QED BY <2>4, <3>2 DEF TypeAfter
  <2>6. luks = Encrypted
    <3>1. luks \in BOOLEAN
      BY DEF IInv, MachineTypes
    <3> QED BY <2>4, <3>1 DEF Encrypted
  <2> QED BY <2>1, <2>4, <2>5, <2>6
<1> QED BY <1>1, Inductive, PTL

(* What an install that was not killed too late leaves behind, its events  *)
(* report (Env.Defer's comment).                                           *)
THEOREM NoSilentLeaks == Spec => []NoSilentLeak
<1>1. EngineInv /\ IInv => NoSilentLeak
  <2> SUFFICES ASSUME EngineInv, IInv, Unwound, cancelled # "late"
               PROVE  /\ mounts \subseteq {"scratch"} \cup blamed \/ fails[Me] > 0
                      /\ mapper = "open" => fails[Me] > 0
                      /\ frozen => "frozen" \in blamed
    BY DEF NoSilentLeak
  <2>1. Unwinding /\ Owed = {}
    BY NothingOwed
  <2>2. fails[Me] = 0 \/ fails[Me] > 0
    <3>1. fails \in [{Me} -> Nat]
      BY DEF EngineInv, E!TypeOK
    <3> QED BY <3>1
  <2>3. fails[Me] = 0 => mounts \subseteq {"scratch"} \cup blamed /\ mapper # "open"
    BY <2>1 DEF Unwinding, Leak
  <2>4. frozen => "frozen" \in blamed
    BY <2>1 DEF Unwinding, Thawed
  <2> QED BY <2>2, <2>3, <2>4
<1> QED BY <1>1, Inductive, PTL

(* Once cancelled, no step mounts, opens, formats, retypes or freezes      *)
(* anything any more: only the clean-ups run on (context.WithoutCancel).   *)
THEOREM OnlyReleases == Spec => CancelOnlyReleases
<1> DEFINE Releases == /\ mounts' \subseteq mounts
                       /\ mapper' \in {mapper, "closed"}
                       /\ (luks' => luks) /\ rootType' = rootType
                       /\ (frozen' => frozen)
<1>1. [Next]_vars => [Cancelled => Releases]_vars
  <2> SUFFICES ASSUME Next, Cancelled PROVE Releases
    OBVIOUS
  <2> USE DEF Command, Cancelled, Abort, machine
  <2>1. CASE CommandFails
    BY <2>1 DEF CommandFails
  <2>2. CASE RunsCommand
    BY <2>2 DEF RunsCommand
  <2>3. CASE RunsCode
    BY <2>3 DEF RunsCode
  <2>4. CASE Partition
    BY <2>4 DEF Partition
  <2>5. CASE LuksFormat
    BY <2>5 DEF LuksFormat
  <2>6. CASE CloseStale
    BY <2>6 DEF CloseStale
  <2>7. CASE LuksOpen
    BY <2>7 DEF LuksOpen
  <2>8. CASE LuksClose
    BY <2>8 DEF LuksClose
  <2>9. CASE Mount
    BY <2>9 DEF Mount
  <2>10. CASE UmountScratch
    BY <2>10 DEF UmountScratch
  <2>11. CASE UmountTree
    BY <2>11 DEF UmountTree, PartOfTree
  <2>12. CASE UnwindTree
    BY <2>12 DEF UnwindTree, PartOfTree
  <2>13. CASE SetType
    BY <2>13 DEF SetType
  <2>14. CASE Override
    BY <2>14 DEF Override
  <2>15. CASE Detach
    BY <2>15 DEF Detach
  <2>16. CASE RemoveBase
    BY <2>16 DEF RemoveBase
  <2>17. CASE MakeImageDir
    BY <2>17 DEF MakeImageDir
  <2>18. CASE ExtractSecureImageRoot
    BY <2>18 DEF ExtractSecureImageRoot
  <2>19. CASE Freeze
    BY <2>19 DEF Freeze
  <2>20. CASE Thaw
    BY <2>20 DEF Thaw
  <2>21. CASE Rescue
    BY <2>21 DEF Rescue
  <2>22. CASE Report
    BY <2>22 DEF Report
  <2>23. CASE Summarize
    BY <2>23 DEF Summarize
  <2>24. CASE Disclose
    BY <2>24 DEF Disclose
  <2>25. CASE DeferUndo
    BY <2>25 DEF DeferUndo
  <2>26. CASE StartStep
    BY <2>26 DEF StartStep
  <2>27. CASE StepReturns
    BY <2>27 DEF StepReturns
  <2>28. CASE Undo
    BY <2>28 DEF Undo, CloseMapper, UnmountTarget, RemoveImageRoot, PartOfTree
  <2>29. CASE EngineStep
    BY <2>29 DEF EngineStep
  <2>30. CASE Cancel
    BY <2>30 DEF Cancel
  <2> QED
    BY <2>1, <2>2, <2>3, <2>4, <2>5, <2>6, <2>7, <2>8, <2>9, <2>10, <2>11, <2>12, <2>13, <2>14, <2>15, <2>16, <2>17, <2>18, <2>19, <2>20, <2>21, <2>22, <2>23, <2>24, <2>25, <2>26, <2>27, <2>28, <2>29, <2>30
    DEF Next, Operation
<1> QED BY <1>1, PTL DEF Spec, CancelOnlyReleases
=============================================================================
