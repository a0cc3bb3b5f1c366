------------------------------ MODULE MCCrossOrg ------------------------------
(***************************************************************************)
(* The five ways something of another organization is believed: a message  *)
(* from one of its agents, the arguments in it, the key it signs with, an  *)
(* identity it attests and a credential a holder presents.  They share no  *)
(* state, so a violation in one needs no step of the others: TLC explores  *)
(* the behaviours that stay within one of them.                            *)
(***************************************************************************)
EXTENDS MCA2AVerifier, ArgBinding, CrossOrg, Federation, Presentation

VARIABLE focus   \* which of the five takes steps

AnyCall == CHOOSE c \in NewCalls : TRUE
BorderInit ==
  /\ focus \in {"messages", "answers", "arguments", "resolution", "federation", "presentation"}
  /\ Init /\ ArgumentsInit /\ CrossInit /\ FederationInit /\ PresentationInit
  /\ focus \notin {"messages", "answers"} => config = CHOOSE c \in Configs : TRUE
  /\ focus # "arguments" => call = AnyCall
  /\ focus # "resolution" => relying.chain = CHOOSE chain \in Chains : TRUE

\* Messages race up to the decision with the hooks called at once, one header having
\* two texts; answers race from the decision on, at one instant, and their hooks raise.
Answering == {c \in Calls : calls[c].pc \in {"finish", "audited", "recorded", "delivered"}}
Messages ==
  /\ Next
  /\ Answering # {} => \/ life' # life
                      \/ \E c \in Answering : calls'[c] # calls[c] /\ calls'[c].pc # "raised"
  /\ \A c \in Calls : calls'[c].encoding = "y" => calls'[c].env.header = Early
Replies ==
  /\ Next /\ now' = now
  /\ \A c \in Calls : calls'[c].encoding # "y"

BorderNext ==
  /\ UNCHANGED focus
  /\ \/ focus = "messages" /\ Messages /\ UNCHANGED <<call, crossVars, federationVars, presentationVars>>
     \/ focus = "answers" /\ Replies /\ UNCHANGED <<call, crossVars, federationVars, presentationVars>>
     \/ focus = "arguments" /\ ArgumentsNext
        /\ UNCHANGED <<vars, crossVars, federationVars, presentationVars>>
     \/ focus = "resolution" /\ CrossNext /\ UNCHANGED <<vars, call, federationVars, presentationVars>>
     \/ focus = "federation" /\ FederationNext /\ UNCHANGED <<vars, call, crossVars, presentationVars>>
     \/ focus = "presentation" /\ PresentationNext /\ UNCHANGED <<vars, call, crossVars, federationVars>>

borderVars == <<focus, vars, call, crossVars, federationVars, presentationVars>>
BorderSpec == BorderInit /\ [][BorderNext]_borderVars

\* Texts of arguments: 1 and 1.0, a truth value, keys outside the BMP, a name given
\* twice, numbers around 2^53 and 2^64, an array, and what is no object at all.
Member(k, s) == <<<<<<"key", k>>>>, s>>
Item(i, s) == <<<<<<"key", "a">>, <<"at", i>>>>, s>>
Alone(s) == <<<<<<>>, s>>>>
MCKeyOrder == <<"a", "astral", "high">>
MCArguments ==
  {<<Member("a", <<"int", 1>>)>>, <<Member("a", <<"float", 1>>)>>,
   <<Member("a", <<"bool", TRUE>>)>>,
   <<Member("high", <<"null">>), Member("astral", <<"int", 1>>)>>,
   <<Member("a", <<"int", 5>>)>>, <<Member("a", <<"int", 7>>), Member("a", <<"float", 4>>)>>,
   <<Item(1, <<"int", 1>>), Item(2, <<"string", "x">>)>>,
   Alone(<<"null">>), Alone(<<"string", "">>),
   Alone(<<"spelling", <<Member("a", <<"int", 1>>)>>>>)}
MCBeyond == {(<<<<"key", "a">>>> :> <<"nan">>)}

\* Two controllers, one of which rotates, to a key published as a JWK; a
\* did:key holds its own.
KeyMethod(k) == [key |-> k, form |-> "multibase"]
JwkMethod(k) == [key |-> k, form |-> "jwk"]
MCMethod == ("web" :> "web") @@ ("ledger" :> "cheqd")
MCPublished ==
  ("web" :> <<<<KeyMethod("w1"), KeyMethod("wd")>>, <<JwkMethod("w2"), KeyMethod("wd")>>>>)
  @@ ("ledger" :> <<<<KeyMethod("l"), KeyMethod("ld")>>>>)
MCChains == {<<"web">>, <<"memory", "cheqd", "universal">>, <<"memory", "web", "hostile">>}

\* Two trust domains that use the same key identifier; one rotates, and keeps its
\* first key as one that bridges cannot use.
BundleKey(kid, kty, signer) == [kid |-> kid, kty |-> kty, signer |-> signer]
MCExports == ("org" :> <<{BundleKey("k1", "OKP", "o1")},
                         {BundleKey("k2", "EC", "o2"), BundleKey("k1", "RSA", "o1")}>>)
             @@ ("peer" :> <<{BundleKey("k1", "OKP", "p1")}>>)
Svid(domain, path, kid, signer, exp) ==
  [domain |-> domain, path |-> path, kid |-> kid, signer |-> signer, exp |-> exp,
   alg |-> IF signer = "o2" THEN "ES256" ELSE "EdDSA", aud |-> {"here"}]
MCSvids ==
  {Svid("org", "svc", "k1", "o1", 2), Svid("org", "svc", None, "p1", 2),
   Svid("peer", None, None, "p1", 1), Svid("org", "svc", "k2", "o2", 2)}
Login(human, scope, nonce) == human @@ [scope |-> scope, nonce |-> nonce]
MCIdTokens ==
  {Login(Human("alice", "idp", 1), {"read"}, "n"), Login(Human("bob", "idp", 2), {}, None),
   Login(Human("alice", "o1", 2), {"read", "pay"}, "n")}

Kind(format, signer) == [format |-> format, signer |-> signer, subject |-> "h1"]
MCIssuances ==
  {Kind("w3c", "org"), Kind("vc", "org"), Kind("vc", "stranger"), Kind("sd", "org"),
   Kind("bbs", "org"), Kind("bbs", "stranger")}

MCKeyAlgorithm == ("org" :> "Ed25519") @@ ("stranger" :> "P256")
MCBbsKeys ==
  {ForAnchor("org", "org"), Generated("org"), [ForAnchor("stranger", "stranger") EXCEPT !.did = "org"]}
===============================================================================
