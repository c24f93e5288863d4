----------------------------- MODULE MCAlgorithms -----------------------------
EXTENDS IBLT, PubNames, SigMgrKeys, TLC

\* Places in sub-tables of two entries: keys apart, chains of shared entries, and
\* keys that hide each other
At(a, b, c) == [j \in 0..2 |-> <<a, b, c>>[j + 1]]

MCHashes ==
    {<<At(0, 0, 0), x, y, z>> :
        x \in {At(1, 1, 1), At(0, 0, 1), At(0, 1, 0)},
        y \in {At(0, 0, 0), At(1, 0, 1)},
        z \in {At(0, 1, 1), At(1, 1, 0)}}

\* A domain like that of the office example: operators, and guards who are also
\* operators as far as the schema's patterns go
MCNames == [root |-> <<"dom">>, opA |-> <<"dom", "op", "hall">>, opB |-> <<"dom", "op", "lab">>,
            guard |-> <<"dom", "op", "all">>]
           @@ [s \in Schema |-> <<"dom", "schema">>]

MCSchemas == {"s1", "s2", "s3", "s4", "s5"}

MCCert == DOMAIN MCNames

MCSignedBy == [c \in Cert |-> "root"]

MCCertT == [b \in Schema |-> << <<"dom", "op", "_">>, <<"dom", "op", "all">>, <<"dom">> >>]

MCChainT == [b \in Schema |-> << <<1, 3>>, <<2, 3>> >>]

\* A publication is dom/func/loc/arg/time. func and loc tell the templates apart.
Param == [type |-> "param", text |-> ""]

Pub(func, loc, arg) == <<[type |-> "cor", text |-> ""], func, loc, arg, [type |-> "call", text |-> ""]>>

MCCor == {[n1 |-> 0, c1 |-> 1, n2 |-> 1, c2 |-> 1], [n1 |-> 0, c1 |-> 3, n2 |-> 1, c2 |-> 3],
          [n1 |-> 1, c1 |-> 1, n2 |-> 2, c2 |-> 1]}

Here == [type |-> "cor", text |-> ""]

Discs ==
    << [cbm |-> {1}, cor |-> MCCor, tmplt |-> Pub(Param, Here, Param), comp |-> 2, vals |-> {"light", "lock"}],
       [cbm |-> {1, 2}, cor |-> MCCor, tmplt |-> Pub(Param, Here, Param), comp |-> 2, vals |-> {"screen"}],
       [cbm |-> {2}, cor |-> MCCor, tmplt |-> Pub(Param, Param, Param), comp |-> 3, vals |-> {"hall", "lab"}],
       [cbm |-> {1}, cor |-> MCCor, tmplt |-> Pub(Lit("status"), Param, Param), comp |-> 2, vals |-> {}],
       [cbm |-> {2}, cor |-> MCCor, tmplt |-> Pub(Param, Param, Lit("7")), comp |-> NoComp, vals |-> {}] >>

DiscsOf == [s1 |-> {1, 2}, s2 |-> {1, 2, 3}, s3 |-> {1, 2, 4}, s4 |-> {2, 3, 4, 5}, s5 |-> {1, 2, 3, 4, 5}]

MCDiscrim == [b \in Schema |-> {Discs[j] : j \in DiscsOf[b]}]

Str(x) == [text |-> x, bytes |-> x]

MCValues ==
    [c \in Params |-> CASE c = 2 -> {Str(x) : x \in {"light", "lock", "screen", "status", "other"}}
                        [] c = 3 -> {Str(x) : x \in {"hall", "lab", "all", "other"}}
                        [] c = 4 -> {Str("7"), Str("on"), [text |-> "7", bytes |-> "0x07"]}]

\* One algorithm at a time
IbltOff == /\ hash = CHOOSE h \in Hashes : TRUE
           /\ own = [k \in Key |-> 0] /\ mine = EmptyTable /\ peer = own
           /\ pc = "off" /\ have = {} /\ need = {} /\ peeled = EmptyTable /\ i = 0 /\ some = FALSE

NamesOff == /\ schema = "s1" /\ signer = "root" /\ left = {} /\ pt = <<>> /\ phase = "off"

KeysOff == /\ kind = "AEAD" /\ newest = MaxKeys /\ encKey = [p \in Publisher |-> MaxKeys]
           /\ keyList = <<MaxKeys>> /\ decryptIndex = 0 /\ decKeys = [p \in Publisher |-> 0]
           /\ sent = {} /\ last = Nothing

Init == \/ IbltInit /\ NamesOff /\ KeysOff
        \/ IbltOff /\ NamesInit /\ KeysOff
        \/ IbltOff /\ NamesOff /\ KeysInit

Running(part) ==
    part = IF pc # "off" THEN "iblt" ELSE IF phase # "off" THEN "names" ELSE "keys"

Next == \/ Running("iblt") /\ IbltNext /\ UNCHANGED <<namesVars, keysVars>>
        \/ Running("names") /\ NamesNext /\ UNCHANGED <<ibltVars, keysVars>>
        \/ Running("keys") /\ KeysNext /\ UNCHANGED <<ibltVars, namesVars>>

vars == <<ibltVars, namesVars, keysVars>>

Spec == /\ Init /\ [][Next]_vars
        /\ WF_vars(PeelEntry /\ UNCHANGED <<namesVars, keysVars>>)
        /\ WF_vars(PeelPass /\ UNCHANGED <<namesVars, keysVars>>)
===============================================================================
