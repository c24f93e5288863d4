-------------------------------- MODULE MCRelay --------------------------------
EXTENDS Relay

\* Home and away networks as in the relay example: a sensor a and a relay's DeftT on
\* the first, the relay's other DeftT and a controller b on the second. The schema of
\* the first network has no controllers. All identities are below one cert, ops,
\* which is in every bundle.
MCNames ==
    [root |-> <<"dom">>, schemaA |-> <<"dom", "schema", "pub">>, schemaB |-> <<"dom", "schema", "pub">>,
     roleA |-> <<"dom", "sensor", "a">>, signA |-> <<"dom", "sensor", "a", "sgn">>,
     signA2 |-> <<"dom", "sensor", "a", "sgn">>,
     signR1 |-> <<"dom", "relay", "sgn">>, signR2 |-> <<"dom", "relay", "sgn">>,
     signB |-> <<"dom", "cntrl", "sgn">>, ops |-> <<"dom", "ops">>]

MCCert == DOMAIN MCNames

MCSignedBy == [c \in MCCert |-> CASE c \in {"signA", "signA2"} -> "roleA"
                                [] c \in {"roleA", "signR1", "signR2", "signB"} -> "ops"
                                [] OTHER -> "root"]

MCCertT == [b \in Schema |->
    << <<"dom", "sensor", "_", "sgn">>, <<"dom", "sensor", "_">>, <<"dom", "relay", "sgn">> >>
    \o (IF b = "schemaB" THEN << <<"dom", "cntrl", "sgn">> >> ELSE <<>>)
    \o << <<"dom", "ops">>, <<"dom">> >>]

MCChainT == [b \in Schema |->
    IF b = "schemaB" THEN << <<1, 2, 5, 6>>, <<3, 5, 6>>, <<4, 5, 6>> >>
    ELSE << <<1, 2, 4, 5>>, <<3, 4, 5>> >>]

MCDiscrim == [b \in Schema |-> {[cbm |-> {1}, cor |-> {[n1 |-> 1, c1 |-> 3, n2 |-> 2, c2 |-> 3]}]}]

MCSchemaOf == [a |-> "schemaA", r1 |-> "schemaA", r2 |-> "schemaB", b |-> "schemaB"]

MCNetwork == [a |-> 1, r1 |-> 1, r2 |-> 2, b |-> 2]

MCHost == [a |-> "a", r1 |-> "relay", r2 |-> "relay", b |-> "b"]

MCBootstrap == [a |-> {"root", "schemaA", "ops", "roleA"}, r1 |-> {"root", "schemaA", "ops"},
                r2 |-> {"root", "schemaB", "ops"}, b |-> {"root", "schemaB", "ops"}]

MCFirstPair == [a |-> "signA", r1 |-> "signR1", r2 |-> "signR2", b |-> "signB"]

MCNewPairs == [n \in Deft |-> IF n = "a" THEN {"signA2"} ELSE {}]

MCFrom == [c \in Cert |-> 0]

\* a's signing pair is due for renewal
MCUntil == [c \in Cert |-> 1]

\* The relay does not take part in the group of publications
MCKeyDists == [n \in Deft |-> IF n \in {"r1", "r2"} THEN 0 ELSE 1]

MCOrigin == [status |-> "a", log |-> "a", command |-> "b", key |-> "a"]

MCFits == [b \in Schema |-> IF b = "schemaB" THEN {"status", "command"} ELSE {"status", "log"}]
===============================================================================
