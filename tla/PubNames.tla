------------------------------- MODULE PubNames -------------------------------
(***************************************************************************)
(* The names that a schema lets a signing chain put on publications:       *)
(* pubBldr (buildpub.hpp) makes templates for the chain and fills in what  *)
(* the application gives, and pubValidator (validate_pub.hpp) compares the *)
(* name of an arriving publication with the templates it had made for the  *)
(* chain of the signer. Discrim[b] (CertSchema) has more fields here:      *)
(* tmplt, a name, comp, the component that distinguishes it (NoComp if     *)
(* there is none), and vals, the values that one may have (none if it is a *)
(* literal of the template).                                               *)
(*                                                                         *)
(* A value has a text and the bytes it becomes in a name: they are equal   *)
(* for strings and differ for numbers and times.                           *)
(***************************************************************************)
EXTENDS CertSchema

CONSTANTS Params,   \* parmbm_: the components of a name that are parameters
          Size,     \* the number of its components
          Values    \* Values[c]: values that an application gives the parameter c

VARIABLES schema,   \* bs_ (constant)
          signer,   \* the head of the signing chain
          left,     \* discriminators that makePubTmplts has not seen yet
          pt,       \* pt_, the templates
          phase     \* "make", "ready", or "off" when nothing is to be done

namesVars == <<schema, signer, left, pt, phase>>

Comp == 1..Size

NoComp == 0

TypeOf(t, c) == t[c].type

Lit(x) == [type |-> "lit", text |-> x]

\* What the compiler's buildDiscrim and addPubDiscrim put out: parameters of a template are
\* parameters of the publication and its calls are not; a discriminator has values for a
\* parameter of its template, or none for one that is a literal there, or tells nothing apart
Compiled(d) ==
    /\ \A c \in Comp : /\ TypeOf(d.tmplt, c) \in {"lit", "cor", "param", "call"}
                       /\ TypeOf(d.tmplt, c) = "param" => c \in Params
                       /\ TypeOf(d.tmplt, c) = "call" => c \notin Params
    /\ IF d.comp = NoComp THEN d.vals = {}
       ELSE d.comp \in Params /\ (d.vals # {} <=> TypeOf(d.tmplt, d.comp) = "param")

ASSUME DiscrimAssumption ==
    /\ Size \in Nat /\ Params \subseteq Comp
    /\ \A b \in Schema : \A d \in Discrim[b] : Compiled(d)
-------------------------------------------------------------------------------
\* findCerts and the condition of makePubTmplts: the discriminators for chains that
\* s's chain matches, and those that need no signing chain
DiscrimsFor(b, s) ==
    {d \in Discrim[b] : d.cbm = {} \/ \E i \in d.cbm : MatchesAll(b, ChainNames(s), ChainT[b][i])}

\* mapCor: the corresponding component in the signing chain
MapCor(s, d, c) ==
    LET e == CHOOSE e \in d.cor : e.n1 = 0 /\ e.c1 = c IN Lit(ChainNames(s)[e.n2][e.c2])

Template(s, d) ==
    [tmplt |-> [c \in Comp |-> IF TypeOf(d.tmplt, c) = "cor" THEN MapCor(s, d, c) ELSE d.tmplt[c]],
     dpar  |-> d.comp, vs |-> d.vals]

\* exists
Same(new) == {j \in DOMAIN pt : pt[j].dpar = new.dpar /\ pt[j].tmplt = new.tmplt}

\* Mutant: a template that exists is not given more values
AddTemplateOnce(d) ==
    /\ phase = "make" /\ d \in left /\ left' = left \ {d}
    /\ pt' = IF Same(Template(signer, d)) = {} THEN Append(pt, Template(signer, d)) ELSE pt
    /\ UNCHANGED <<schema, signer, phase>>

\* addTemplate
AddTemplate(d) ==
    /\ phase = "make" /\ d \in left /\ left' = left \ {d}
    /\ LET new == Template(signer, d)
       IN  IF Same(new) = {} THEN pt' = Append(pt, new)
           ELSE \E j \in Same(new) : pt' = [pt EXCEPT ![j].vs = @ \cup new.vs]
    /\ UNCHANGED <<schema, signer, phase>>

\* The number of bits in vs_: bit 0 is set for the empty set of values
Count(t) == IF t.vs = {} THEN 1 ELSE Cardinality(t.vs)

\* makePubTmplts ends with a sort, the one with most values first
SortTmplts ==
    /\ phase = "make" /\ left = {} /\ phase' = "ready"
    /\ \E o \in [DOMAIN pt -> DOMAIN pt] :
          /\ \A k \in DOMAIN pt : \E j \in DOMAIN pt : o[j] = k
          /\ \A j, k \in DOMAIN pt : j < k => Count(pt[o[j]]) >= Count(pt[o[k]])
          /\ pt' = [j \in DOMAIN pt |-> pt[o[j]]]
    /\ UNCHANGED <<schema, signer, left>>

\* The constructor of pubBldr for the application's signing chain, and for that of
\* every other cert that is accepted (setupPubValidator)
MayStart(b, s) ==
    /\ s \in IsSigningCert[b] \cap ChainAllowed[b]
    /\ phase' = "make" /\ signer' = s /\ left' = DiscrimsFor(b, s) /\ pt' = <<>>

NextSigner == phase = "ready" /\ (\E s \in Cert : MayStart(schema, s)) /\ UNCHANGED schema
-------------------------------------------------------------------------------
\* checkPars: literals of the template are what the application gives. (A parameter's
\* text is compared with literals of the schema and of the chain alike.)
CheckPars(par, t) ==
    \A c \in Params : TypeOf(t.tmplt, c) = "param" \/ par[c].text = t.tmplt[c].text

\* matchTmplt of pubBldr, for one template
MatchesTmplt(par, t) ==
    CheckPars(par, t) /\ (t.dpar = NoComp \/ t.vs = {} \/ par[t.dpar].text \in t.vs)

\* completeTmplt: the templates of which the first that matches is filled in
Usable(par) == {j \in DOMAIN pt : MatchesTmplt(par, pt[j])}

Filled(par, t) ==
    [c \in Comp |-> CASE TypeOf(t.tmplt, c) = "lit" -> t.tmplt[c].text
                      [] TypeOf(t.tmplt, c) = "param" -> par[c].bytes
                      [] TypeOf(t.tmplt, c) = "call" -> "now"]

Name(par) == Filled(par, pt[CHOOSE j \in Usable(par) : \A k \in Usable(par) : j <= k])

\* matchTmplt of pubValidator, for one template: parameters and calls may be anything
ValidTmplt(name, t) ==
    /\ t.dpar = NoComp \/ t.vs = {} \/ name[t.dpar] \in t.vs
    /\ \A c \in Comp : TypeOf(t.tmplt, c) \in {"param", "call"} \/ name[c] = t.tmplt[c].text

MatchTmplt(name) == \E j \in DOMAIN pt : ValidTmplt(name, pt[j])
-------------------------------------------------------------------------------
NamesInit ==
    /\ schema \in Schema
    /\ \E s \in IsSigningCert[schema] \cap ChainAllowed[schema] :
          signer = s /\ left = DiscrimsFor(schema, s)
    /\ pt = <<>> /\ phase = "make"

NamesNext == \/ \E d \in left : AddTemplate(d)
             \/ SortTmplts \/ NextSigner

NamesSpec == NamesInit /\ [][NamesNext]_namesVars

Pars == {p \in [Params -> UNION {Values[c] : c \in Params}] : \A c \in Params : p[c] \in Values[c]}

\* Components a name may have in its c-th place
Bytes(c) ==
    IF c \in Params THEN {v.bytes : v \in Values[c]}
    ELSE UNION {IF TypeOf(d.tmplt, c) = "call" THEN {"now"}
                ELSE {Template(s, d).tmplt[c].text : s \in {u \in Cert : d \in DiscrimsFor(schema, u)}} :
                   d \in Discrim[schema]}

AllNames ==
    LET first[c \in 0..Size] ==
            IF c = 0 THEN {<<>>} ELSE {Append(n, x) : n \in first[c - 1], x \in Bytes(c)}
    IN  first[Size]

\* What one discriminator allows
Allows(d, par) ==
    /\ d.comp = NoComp \/ d.vals = {} \/ par[d.comp].text \in d.vals
    /\ CheckPars(par, Template(signer, d))

Given(name) == [c \in Params |-> [text |-> name[c], bytes |-> name[c]]]

\* Who builds names and who checks them agree, for every signing chain: an
\* application can build a name exactly when some discriminator of the schema for
\* its chain allows the parameters, though templates are merged, sorted and tried in
\* turn; what it builds is accepted by the validator that others make from the same
\* chain; and what that accepts is what it would build from the same components,
\* given as strings. (Distinguishing parameters are always given as strings.)
NamesExact ==
    phase = "ready" =>
        /\ \A par \in Pars :
              /\ Usable(par) # {} <=> \E d \in DiscrimsFor(schema, signer) : Allows(d, par)
              /\ Usable(par) # {} => MatchTmplt(Name(par))
        /\ \A n \in AllNames : MatchTmplt(n) /\ Given(n) \in Pars =>
              Usable(Given(n)) # {} /\ Name(Given(n)) = n
===============================================================================
