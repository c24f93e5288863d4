------------------------------ MODULE MCDCTModel ------------------------------
EXTENDS DCTModel

\* A domain like that of the sensor example: a identifies itself with a role
\* cert that grants the key maker capability, b with one that the trust anchor
\* signed. Key, issuer and version components of names always match.
MCNames ==
    [root |-> <<"dom">>, schema |-> <<"dom", "schema", "pub">>,
     capA |-> <<"dom", "CAP", "KM", "1">>, roleA |-> <<"dom", "sensor", "a">>,
     signA |-> <<"dom", "sensor", "a", "sgn">>, signA2 |-> <<"dom", "sensor", "a", "sgn">>,
     wrongA |-> <<"dom", "sensor", "b", "sgn">>,
     roleB |-> <<"dom", "sensor", "b">>, signB |-> <<"dom", "sensor", "b", "sgn">>]

MCCert == DOMAIN MCNames

MCSignedBy ==
    [root |-> "root", schema |-> "root", capA |-> "root", roleA |-> "capA",
     signA |-> "roleA", signA2 |-> "roleA", wrongA |-> "roleA",
     roleB |-> "root", signB |-> "roleB"]

MCCertT == [b \in Schema |-> << <<"dom", "sensor", "_", "sgn">>, <<"dom", "sensor", "_">>,
              <<"dom", "CAP", "KM", "_">>, <<"dom">> >>]

MCChainT == [b \in Schema |-> << <<1, 2, 4>>, <<1, 2, 3, 4>> >>]

MCDiscrim == [b \in Schema |-> {[cbm |-> {1, 2}, cor |-> {[n1 |-> 0, c1 |-> 2, n2 |-> 1, c2 |-> 2],
                                        [n1 |-> 1, c1 |-> 3, n2 |-> 2, c2 |-> 3]}]}]

MCSchemaOf == [n \in Deft |-> "schema"]

MCNetwork == [n \in Deft |-> 1]

MCBootstrap == [a |-> {"root", "schema", "capA", "roleA"}, b |-> {"root", "schema", "roleB"}]

MCKeyDists == [n \in Deft |-> 1]

MCFirstPair == [a |-> "signA", b |-> "signB"]

MCNewPairs == [a |-> {"signA2", "wrongA"}, b |-> {}]

\* signA expires, and its successor is valid only a little earlier
MCFrom == [c \in Cert |-> IF c = "signA2" THEN 1 ELSE 0]

MCUntil == [c \in Cert |-> IF c = "signA" THEN 1 ELSE MaxTime + 1]
===============================================================================
