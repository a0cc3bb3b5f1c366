------------------------------- MODULE CrossOrg -------------------------------
(***************************************************************************)
(* How a relying party comes to hold the key of an organization it never   *)
(* met.  Controllers publish DID documents and rotate their keys (did.rs); *)
(* a chain of resolvers fetches them from hosts that may answer with an    *)
(* old document or somebody else's, and from an endpoint for every DID     *)
(* that may also make one up (did/resolver.rs, web.rs, universal.rs,       *)
(* cheqd.rs, indy.rs); a registry caches what was resolved and holds what  *)
(* was registered; a framework seals its own registry as a signed config   *)
(* from which a party rebuilds, or adds to, another (registry.rs).         *)
(*                                                                         *)
(* A verification method is its key and the form it is published in.  Who  *)
(* may have signed a credential is anybody, so a verification is what the  *)
(* registry holds for its issuer, and no state.                            *)
(***************************************************************************)
EXTENDS Integers, Sequences, SequencesExt, FiniteSets, Options

CONSTANTS
  Controllers,   \* DIDs
  Method,        \* their DID methods: a did:key is its key, and not resolved
  Published,     \* the lists of verification methods each may publish, in turn
  Chains,        \* resolver chains a party may be deployed with
  Granted,       \* trust levels a framework registers with
  Expirations,   \* of sealed configs, None for never
  MaxConfigs, EndOfDay    \* bounds: sealed configs, the clock

\* DidDocument's verificationMethod; None is nobody's key.
VerificationMethod == [key : STRING, form : {"multibase", "jwk"}]

ASSUME CrossOrgAssumption ==
  /\ Method \in [Controllers -> {"web", "cheqd", "indy"}]
  /\ \A d \in Controllers :
       /\ Published[d] \in Seq(Seq(VerificationMethod)) \ {<<>>}
       /\ \A i \in DOMAIN Published[d] : Published[d][i] # <<>>
  /\ Chains \subseteq Seq({"memory", "web", "universal", "hostile", "cheqd", "indy"})
  /\ Granted \subseteq 0..3
  /\ {MaxConfigs, EndOfDay} \subseteq Nat /\ None \notin STRING

VARIABLES
  today,
  edition,    \* which of its lists each controller publishes
  prefetched, \* documents registered with the party's in-memory resolver
  framework,  \* the registry the framework keeps
  relying,      \* the registry of the relying party
  sealed,     \* every config the framework signed
  granted,    \* anchors the framework registered
  loaded,     \* entries the party took from configs
  rebuilt,    \* its registry was built from one
  relied      \* the DID and key it last judged a signature by

crossHistory == <<granted, loaded, rebuilt, relied>>
crossVars == <<today, edition, prefetched, framework, relying, sealed, crossHistory>>

SelfAsserted == 1

-------------------------------------------------------------------------------
(***************************************************************************)
(* Documents.                                                              *)
(***************************************************************************)
\* build_document: the primary key first, the delegation subkey second.
Document(d, i) == [id |-> d, methods |-> Published[d][i]]

\* What a host may answer: a document of any controller, possibly an old one.
Answers == UNION {{Document(d, i) : i \in 1..edition[d]} : d \in Controllers}

\* public_key_from_document: the first method, if it is in a form it decodes.
PrimaryKey(doc) == IF doc.methods # <<>> /\ doc.methods[1].form = "multibase"
                   THEN doc.methods[1].key ELSE None

-------------------------------------------------------------------------------
(***************************************************************************)
(* Resolvers.                                                              *)
(***************************************************************************)
Multibase(m) == m.form = "multibase"

\* WebResolver deserializes the document as it is: a method without a multibase
\* key fails the whole of it.
Readable(doc) == \A i \in DOMAIN doc.methods : Multibase(doc.methods[i])
Web(d) == {doc \in Answers : doc.id = d /\ Readable(doc)}

\* parse_resolution_result leaves such a method out, and checks who it is about.
\* Of those it keeps, the first is all that is asked for: the others are left out too.
Mapped(doc) ==
  LET kept == {i \in DOMAIN doc.methods : Multibase(doc.methods[i])} IN
  [id |-> doc.id,
   methods |-> IF kept = {} THEN <<>>
               ELSE <<doc.methods[CHOOSE i \in kept : \A j \in kept : i <= j]>>]

\* Faulty: the document may be for another DID.
AnyDocument(d) == {Mapped(a) : a \in Answers}

Universal(d) == {doc \in {Mapped(a) : a \in Answers} : doc.methods # <<>> /\ doc.id = d}

\* "A hostile resolver can always return its own key under the right id."
Hostile(d) ==
  Universal(d) \cup {[id |-> d, methods |-> <<[key |-> "endpoint", form |-> "multibase"]>>]}

Handles(r, d) ==
  CASE r = "memory"                   -> prefetched[d] # None
    [] r \in {"universal", "hostile"} -> TRUE
    [] OTHER                          -> Method[d] = r

\* The ledger methods are stubs that always fail.
ResolveWith(r, d) ==
  CASE r = "memory"    -> {prefetched[d]} \ {None}
    [] r = "web"       -> Web(d)
    [] r = "universal" -> Universal(d)
    [] r = "hostile"   -> Hostile(d)
    [] OTHER           -> {}

\* UniversalResolver asks the first that handles the DID, and only that one.
\* The answers are those resolution may return; it may always fail.
Resolutions(chain, d) ==
  LET able == {i \in DOMAIN chain : Handles(chain[i], d)} IN
  IF able = {} THEN {}
  ELSE ResolveWith(chain[CHOOSE i \in able : \A j \in able : i <= j], d)

-------------------------------------------------------------------------------
(***************************************************************************)
(* Registries.                                                             *)
(***************************************************************************)
NoEntries == [d \in Controllers |-> None]
NewRegistry(chain) == [entries |-> NoEntries, minimum |-> SelfAsserted, chain |-> chain]

Register(registry, d, entry) == [registry EXCEPT !.entries[d] = entry]

\* resolve: what is held stays; what is fetched is cached, and kept even if the
\* credential it was fetched for is refused.
Resolve(registry, d) ==
  IF registry.entries[d] # None THEN {registry}
  ELSE {Register(registry, d, [key |-> k, level |-> SelfAsserted]) :
          k \in {PrimaryKey(doc) : doc \in Resolutions(registry.chain, d)} \ {None}}

Sealed(c) == <<c.version, c.minimum, c.entries, c.not_after>>

Export(registry, version, notAfter) ==
  LET c == [version |-> version, minimum |-> registry.minimum, entries |-> registry.entries,
            not_after |-> notAfter, over |-> None]
  IN [c EXCEPT !.over = Sealed(c)]

\* What a party may be handed: a sealed config, of any age, or one edited.
ServedConfigs ==
  UNION {{c, [c EXCEPT !.not_after = None], [c EXCEPT !.minimum = 0]}
           \cup {[c EXCEPT !.entries[d] = [key |-> Published[e][1][1].key, level |-> 3]] :
                   d, e \in Controllers} : c \in sealed}

ConfigIsCurrent(c) == c.over = Sealed(c) /\ (c.not_after # None => today <= c.not_after)

\* from_config: a new registry, which resolves nothing.
FromConfig(registry, c) ==
  [NewRegistry(<<>>) EXCEPT !.minimum = c.minimum, !.entries = c.entries]

\* import adds and overwrites, and keeps its own minimum.
Import(registry, c) ==
  [registry EXCEPT !.entries = [d \in Controllers |-> IF c.entries[d] # None THEN c.entries[d]
                                                      ELSE registry.entries[d]]]

-------------------------------------------------------------------------------
CrossInit ==
  /\ today = 0
  /\ edition = [d \in Controllers |-> 1]
  /\ prefetched = [d \in Controllers |-> None]
  /\ \E chain \in Chains : relying = NewRegistry(chain)
  /\ framework = NewRegistry(relying.chain)
  /\ sealed = {} /\ granted = {} /\ loaded = {} /\ rebuilt = FALSE /\ relied = None

\* A controller publishes its next document.
RotateKeys(d) ==
  /\ edition[d] < Len(Published[d])
  /\ edition' = [edition EXCEPT ![d] = @ + 1]
  /\ UNCHANGED <<today, prefetched, framework, relying, sealed, crossHistory>>

\* InMemoryResolver::register, with the document of the day, whose methods all have a
\* multibase key.  Bound: once for each.
Prefetch(d) ==
  /\ prefetched[d] = None /\ Readable(Document(d, edition[d]))
  /\ prefetched' = [prefetched EXCEPT ![d] = Document(d, edition[d])]
  /\ UNCHANGED <<today, edition, framework, relying, sealed, crossHistory>>

\* The framework admits a member with the key it was given out of band.
Admit(d, level) ==
  LET entry == [key |-> PrimaryKey(Document(d, edition[d])), level |-> level] IN
  /\ entry.key # None
  /\ framework' = Register(framework, d, entry)
  /\ granted' = granted \cup {<<d, entry>>}
  /\ UNCHANGED <<today, edition, prefetched, relying, sealed, loaded, rebuilt, relied>>

\* CrossOrgVerifier::verify, of a credential of d: its key is asked for first, and
\* what was fetched stays even if its level is below the minimum.
Meet(d) ==
  /\ relying' \in Resolve(relying, d)
  /\ LET e == relying'.entries[d] IN
     relied' = IF e.level >= relying.minimum THEN <<d, e.key>> ELSE relied
  /\ UNCHANGED <<today, edition, prefetched, framework, sealed, granted, loaded, rebuilt>>

\* The framework verifies one as well: its registry is the one it seals.
MeetAtFramework(d) ==
  /\ framework' \in Resolve(framework, d)
  /\ UNCHANGED <<today, edition, prefetched, relying, sealed, crossHistory>>

\* verify_delegation_attestation_resolved: what a hop signed is judged by its DID
\* resolved anew, whatever the registry holds.
JudgeHop(d) ==
  /\ \E key \in {PrimaryKey(doc) : doc \in Resolutions(relying.chain, d)} \ {None} :
       relied' = <<d, key>>
  /\ UNCHANGED <<today, edition, prefetched, framework, relying, sealed, granted, loaded, rebuilt>>

\* Bound: MaxConfigs configs, numbered in the order they are sealed.
SealConfig(notAfter) ==
  /\ Cardinality(sealed) < MaxConfigs
  /\ sealed' = sealed \cup {Export(framework, Cardinality(sealed) + 1, notAfter)}
  /\ UNCHANGED <<today, edition, prefetched, framework, relying, crossHistory>>

Load(c) ==
  /\ c \in ServedConfigs /\ ConfigIsCurrent(c)
  /\ \/ relying' = FromConfig(relying, c) /\ rebuilt' = TRUE
     \/ relying' = Import(relying, c) /\ UNCHANGED rebuilt
  /\ loaded' = loaded \cup {<<d, c.entries[d]>> : d \in {d \in Controllers : c.entries[d] # None}}
  /\ UNCHANGED <<today, edition, prefetched, framework, sealed, granted, relied>>

NextDay ==
  /\ today < EndOfDay /\ today' = today + 1
  /\ UNCHANGED <<edition, prefetched, framework, relying, sealed, crossHistory>>

CrossNext ==
  \/ \E d \in Controllers :
       \/ RotateKeys(d) \/ Prefetch(d) \/ Meet(d) \/ MeetAtFramework(d) \/ JudgeHop(d)
       \/ \E level \in Granted : Admit(d, level)
  \/ \E t \in Expirations : SealConfig(t)
  \/ \E c \in ServedConfigs : Load(c)
  \/ NextDay

CrossSpec == CrossInit /\ [][CrossNext]_crossVars

-------------------------------------------------------------------------------
\* The keys a controller has published as its own, the subkeys aside.
Own(d) == {Published[d][i][1].key : i \in 1..edition[d]}

\* A key it published behind none that a resolver keeps: a subkey, if the form of its
\* own key is one that the universal resolver skips.
Promoted(d, key) ==
  \E i \in 1..edition[d] : \E j \in DOMAIN Published[d][i] :
    /\ Published[d][i][j].key = key
    /\ \A l \in 1..(j - 1) : ~Multibase(Published[d][i][l])

\* Who is asked about d, but for what was prefetched.
Asked(d) ==
  LET chain == framework.chain
      able == {i \in DOMAIN chain : chain[i] # "memory" /\ Handles(chain[i], d)}
  IN  IF able = {} THEN None ELSE chain[CHOOSE i \in able : \A j \in able : i <= j]

\* What a key that is believed of d may be.  A universal endpoint is "trusted to respond
\* authoritatively about DIDs it does not own", and an untrue one is believed.
Theirs(d, key) ==
  \/ key \in Own(d)
  \/ Asked(d) = "universal" /\ Promoted(d, key)
  \/ Asked(d) = "hostile"

(***************************************************************************)
(* "Must be the DID that was resolved": in whatever order a party          *)
(* resolves, loads and adds to its registry, a credential or a delegation  *)
(* key is believed only under a primary key the DID's own controller       *)
(* published, whatever hosts answer, unless a universal endpoint is asked  *)
(* about that DID; one that answers as it should may only be behind, or    *)
(* past keys that cannot be read.  What one that does not answers goes no  *)
(* further than the DIDs it is asked about and never beyond self-asserted  *)
(* trust, which is a level the framework gave to the controller's own key; *)
(* and a party rebuilt from a config believes nobody the framework had not *)
(* sealed.                                                                 *)
(***************************************************************************)
BelievedIsGrounded ==
  /\ \A registry \in {framework, relying}, d \in Controllers :
       LET e == registry.entries[d] IN
       e # None => /\ Theirs(d, e.key)
                   /\ e.level > SelfAsserted => e.key \in Own(d) /\ <<d, e>> \in granted
                   /\ registry = relying /\ rebuilt => <<d, e>> \in loaded
  /\ relied # None => Theirs(relied[1], relied[2])
  /\ \A entry \in loaded : \E c \in sealed : c.entries[entry[1]] = entry[2]

\* "Extract the primary verification-method public key" (did.rs): with an endpoint that
\* answers as it should, that is the key believed.
PrimaryIsBelieved ==
  \A d \in Controllers :
    relying.entries[d] # None /\ Asked(d) # "hostile" => relying.entries[d].key \in Own(d)

\* "An org seals which anchors it trusts" (registry.rs): what it only resolved, it
\* seals as well.
SealedAreAdmitted ==
  \A c \in sealed, d \in Controllers : c.entries[d] # None => <<d, c.entries[d]>> \in granted

\* "Bump on each change for rollback detection" (registry.rs): import does not look.
NewestPrevails ==
  \A d \in Controllers, c \in sealed :
    <<d, c.entries[d]>> \in loaded /\ c.version = MaxConfigs => relying.entries[d] = c.entries[d]
===============================================================================
