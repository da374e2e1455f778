----------------------------- MODULE MCConfigure -----------------------------
(* Configure with either a choice of apps and media and no account, or     *)
(* every account and one app: the two only meet in the target's layout and *)
(* in a cancellation.                                                      *)
EXTENDS Configure

CONSTANTS a, b, g, h

Simple == [user |-> FALSE, password |-> FALSE, userKey |-> FALSE, rootKey |-> FALSE,
           groups |-> {}, regional |-> {}]

OneAtATime ==
    \/ recipe = Simple /\ known = {} /\ ~skel
    \/ /\ wanted \subseteq {a} /\ system = {} /\ user = {} /\ ~tree
       /\ recipe.regional \in {{"timezone"}, {"locale", "keyboard"}}

MCInit == Init /\ OneAtATime

FairSpec == MCInit /\ [][Next]_vars /\ Fairness
=============================================================================
