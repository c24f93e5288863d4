------------------------------ MODULE MCDistGKey ------------------------------
EXTENDS DistGKey

\* Two candidates of the same priority, or one candidate and members
TwoMakers == [n \in Node |-> IF n <= 2 THEN 1 ELSE 0]

OneMaker == [n \in Node |-> IF n = 2 THEN 1 ELSE 0]

Group == {[kind |-> "GK", subr |-> Node]}

\* Node 3 only publishes
BothSchemes == Group \cup {[kind |-> "SG", subr |-> {1, 2}]}

\* There is another subscriber, or the key maker is the only one
MakerSchemes == Group \cup {[kind |-> "SG", subr |-> s] : s \in {{2}, {2, 3}}}
===============================================================================
