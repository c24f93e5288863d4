-------------------------------- MODULE PubSub --------------------------------
(***************************************************************************)
(* What a synchronised collection promises its applications, with neither  *)
(* iblts nor packets: nodes publish, take over publications that another   *)
(* node has, and are told at most once what became of a publication, that  *)
(* it arrived only when another node has it.                               *)
(***************************************************************************)
CONSTANTS Node, Pub, OwnPubs

VARIABLES has,    \* has[n]: what n has published or taken from the network
          told    \* told[n][p]: what p's delivery callback was called with

vars == <<has, told>>

Init == /\ has = [n \in Node |-> {}]
        /\ told = [n \in Node |-> [p \in Pub |-> "none"]]

\* Elsewhere(n): what some node other than n has
Elsewhere(n) == UNION {has[m] : m \in Node \ {n}}

\* In one event a node may publish new, take over got, and call the delivery
\* callbacks of arrived and late.
Event(n, new, got, arrived, late) ==
    /\ new \subseteq OwnPubs[n] \ has[n]
    /\ got \subseteq Elsewhere(n)
    /\ arrived \subseteq OwnPubs[n] \cap Elsewhere(n)
    /\ late \subseteq OwnPubs[n] \cap has[n]
    /\ \A p \in arrived \cup late : told[n][p] = "none"
    /\ has' = [has EXCEPT ![n] = @ \cup new \cup got]
    /\ told' = [told EXCEPT ![n] =
                  [p \in Pub |-> IF p \in arrived THEN "arrived"
                                 ELSE IF p \in late THEN "timeout" ELSE @[p]]]

Next == \E n \in Node :
           \E new \in SUBSET OwnPubs[n] : \E got \in SUBSET Pub :
              \E arrived \in SUBSET OwnPubs[n] : \E late \in SUBSET OwnPubs[n] :
                 Event(n, new, got, arrived, late)

Spec == Init /\ [][Next]_vars
===============================================================================
