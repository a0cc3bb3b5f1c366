------------------------------ MODULE ArgBinding ------------------------------
(***************************************************************************)
(* Arguments on their way from a holder to a tool: bound into the proof by *)
(* one runtime, re-serialized by transports, read by another.  Under       *)
(* agentcreds-jcs-v1 both ends canonicalize what they hold (RFC 8785);     *)
(* under agentcreds-octets-v1 the holder's own text is signed and carried, *)
(* and the verifier compares it with what was delivered.                   *)
(*                                                                         *)
(* A value is the function from its paths to its scalars, which recursion  *)
(* over it visits; a text is a sequence of such pairs.  A scalar is tagged *)
(* with its type; "spelling" is a string whose characters are a text.  Up  *)
(* to Limit (2^53) doubles hold every whole number, above it the even ones.*)
(***************************************************************************)
EXTENDS Integers, FiniteSets, SequencesExt, Options, Sorting

CONSTANTS
  Limit, Wide,       \* 2^53, and the largest integer serde_json keeps exact
  KeyOrder,          \* the keys in use by UTF-16 code unit
  Arguments,         \* texts a caller reads its arguments from
  Beyond,            \* values no text spells: those with a NaN
  MaxBoundArgs,      \* MAX_BOUND_ARGS_BYTES
  MaxRelays          \* bound: transports between holder and verifier

Numbers == {"int", "float"} \X Nat
IsNumber(s) == s[1] \in {"int", "float"}
Scalars(v) == {v[p] : p \in DOMAIN v}
Literals == {<<"null">>} \cup UNION {Scalars(v) : v \in Beyond}
              \cup UNION {{text[i][2] : i \in DOMAIN text} : text \in Arguments}
Scalar == Numbers \cup Literals

\* A step of a path: a key, or an index.
PathStep == ({"key"} \X ToSet(KeyOrder)) \cup ({"at"} \X Nat)
ArgTexts == Seq(Seq(PathStep) \X Scalar)
PathsOf(text) == {text[i][1] : i \in DOMAIN text}

\* Members in the order of their keys.
Place(step) ==
  IF step[1] = "key" THEN CHOOSE i \in DOMAIN KeyOrder : KeyOrder[i] = step[2] ELSE step[2]
Precedes(p, q) ==
  \E i \in DOMAIN q :
    /\ i \in DOMAIN p => Place(p[i]) < Place(q[i])
    /\ \A j \in 1..(i - 1) : j \in DOMAIN p /\ p[j] = q[j]

\* Two paths of one value part at a key or at an index, so one precedes the other.
Comparable(P) ==
  IsFiniteSet(P) /\ \A p, q \in P : p \in Seq(PathStep) /\ (p = q \/ Precedes(p, q) \/ Precedes(q, p))

ASSUME ArgBindingAssumption ==
  /\ {Limit, Wide, MaxBoundArgs, MaxRelays} \subseteq Nat /\ Limit <= Wide
  /\ KeyOrder \in Seq(STRING) /\ \A s \in Literals : IsNumber(s) => s \in Numbers
  /\ Arguments \subseteq ArgTexts /\ \A text \in Arguments : Comparable(PathsOf(text))
  /\ \A v \in Beyond : Comparable(DOMAIN v)
  /\ None \notin ArgTexts

\* A host written in Rust calls the core itself; it has no verifier of messages.
Runtimes == {"python", "node", "rust"}
Receivers == {"python", "node"}
Profiles == {"jcs", "octets"}

VARIABLE call   \* one bound call, from the holder to the verdict

-------------------------------------------------------------------------------
\* IEEE 754: rounded to the nearest double, ties to the even significand.
Double(n) ==
  IF n <= Limit \/ n % 2 = 0 THEN n ELSE IF (n \div 2) % 2 = 0 THEN n - 1 ELSE n + 1

\* A scalar as a runtime reads it: JSON.parse makes every number a double, and
\* serde_json those that fit no integer.
Parsed(r, s) ==
  IF ~IsNumber(s) THEN s
  ELSE IF s[1] = "float" \/ r = "node" \/ (r = "rust" /\ s[2] > Wide)
    THEN <<"float", Double(s[2])>>
    ELSE s

\* The last of two members with one name stays.
Native(r, text) ==
  [p \in PathsOf(text) |->
     Parsed(r, text[SelectLastInSeq(text, LAMBDA pair : pair[1] = p)][2])]

\* A scalar as a runtime writes it: JavaScript has no sign for a whole double, and
\* JSON.stringify writes null for a NaN.
Written(r, s) ==
  IF r # "node" THEN s
  ELSE IF s[1] = "nan" THEN <<"null">>
  ELSE IF s[1] = "float" THEN <<"int", s[2]>> ELSE s

\* Faulty: the repr of Python, which prints 1.0.
KindPrinted(s) == s

\* A canonical scalar: numbers as ECMAScript prints them.
Printed(s) == IF s[1] = "float" THEN <<"int", s[2]>> ELSE s

InOrder(v) ==
  LET paths == Listed(DOMAIN v, Precedes) IN [i \in DOMAIN paths |-> <<paths[i], v[paths[i]]>>]

Serialize(r, v) == InOrder([p \in DOMAIN v |-> Written(r, v[p])])
Canonicalize(v) == InOrder([p \in DOMAIN v |-> Printed(v[p])])

-------------------------------------------------------------------------------
HasNaN(v) == \E s \in Scalars(v) : s[1] = "nan"

\* Integers precision_hazards reports: JavaScript may hold a neighbour.
PrecisionHazards(v) == {p \in DOMAIN v : v[p][1] = "int" /\ v[p][2] > Limit - 1}

\* jcs_canonicalize_args: a string is taken for a canonical text, nothing for an
\* empty one.  The core's canonicalize has no such case.
Raw(s) == <<<<<<>>, <<"raw", s>>>>>>
CanonicalArgs(r, v) ==
  IF r = "rust" \/ DOMAIN v # {<<>>} THEN Canonicalize(v)
  ELSE LET s == v[<<>>] IN
    CASE s[1] = "null"     -> Raw("")
      [] s[1] = "string"   -> Raw(s[2])
      [] s[1] = "spelling" -> s[2]
      [] OTHER             -> Canonicalize(v)

\* What a profile can represent: no NaN, except that JSON.stringify replaces it;
\* and py_to_json refuses what no 64-bit integer holds.
Representable(r, profile, v) ==
  IF profile = "octets" THEN r = "node" \/ ~HasNaN(v)
  ELSE /\ ~HasNaN(v)
       /\ r = "python" => \A s \in Scalars(v) : s[1] = "int" => s[2] <= Wide

\* The string under the hash of request_binding.
BindArgs(r, profile, v) == IF profile = "jcs" THEN CanonicalArgs(r, v) ELSE Serialize(r, v)

\* numbers_eq: integers exactly, anything else as doubles.
NumbersEq(s, t) == IF s[1] = "int" /\ t[1] = "int" THEN s = t ELSE Double(s[2]) = Double(t[2])

SemanticEq(v, w) ==
  /\ DOMAIN v = DOMAIN w
  /\ \A p \in DOMAIN v : IF IsNumber(v[p]) /\ IsNumber(w[p]) THEN NumbersEq(v[p], w[p]) ELSE v[p] = w[p]

Usable(carried) == carried # None /\ Len(carried) <= MaxBoundArgs   \* parse_bound_args

\* The part of A2AVerifier.authorize that reads the arguments: under octets both
\* the carried text and what was delivered have to be those that were signed.
Admits(c) ==
  LET delivered == Native(c.verifier, c.body) IN
  /\ c.declared = c.checks
  /\ IF c.checks = "octets"
     THEN /\ Usable(c.carried)
          /\ SemanticEq(Native(c.verifier, c.carried), delivered)
          /\ c.carried = c.binding
     ELSE /\ Representable(c.verifier, "jcs", delivered)
          /\ CanonicalArgs(c.verifier, delivered) = c.binding

-------------------------------------------------------------------------------
NewCalls ==
  [pc : {"start"}, holder : Runtimes, verifier : Receivers, signs : Profiles, checks : Profiles]
ArgumentsInit == call \in NewCalls

\* The holder binds its arguments; its framework serializes them into the call.
Bind ==
  /\ call.pc = "start"
  /\ \E v \in {Native(call.holder, text) : text \in Arguments} \cup Beyond :
       /\ Representable(call.holder, call.signs, v)
       /\ LET text == BindArgs(call.holder, call.signs, v) IN
          call' = [pc |-> "sent", holder |-> call.holder, verifier |-> call.verifier,
                   signs |-> call.signs, checks |-> call.checks,
                   args |-> v, binding |-> text, declared |-> call.signs,
                   carried |-> IF call.signs = "octets" THEN text ELSE None,
                   body |-> Serialize(call.holder, v), relays |-> 0, altered |-> {}]

\* A transport on the way parses the call and writes it anew.
Relay ==
  /\ call.pc = "sent" /\ call.relays < MaxRelays
  /\ \E r \in Runtimes :
       call' = [call EXCEPT !.relays = @ + 1, !.body = Serialize(r, Native(r, @))]

\* Or changes it: the arguments, the copy of them that a verifier under octets reads,
\* or the profile they name.
Altered(part, field, value) ==
  /\ part \notin call.altered
  /\ call' = [call EXCEPT ![field] = value, !.altered = @ \cup {part}]

Alter ==
  /\ call.pc = "sent"
  /\ \/ \E text \in Arguments : Altered("body", "body", text)
     \/ call.checks = "octets" /\ \E text \in Arguments \cup {None} : Altered("copy", "carried", text)
     \/ call.signs # call.checks /\ Altered("profile", "declared", call.checks)

Receive ==
  /\ call.pc = "sent"
  /\ call' = [call EXCEPT !.pc = IF Admits(call) THEN "admitted" ELSE "refused"]

ArgumentsNext == Bind \/ Relay \/ Alter \/ Receive

ArgumentsSpec == ArgumentsInit /\ [][ArgumentsNext]_call

-------------------------------------------------------------------------------
\* What a value says, whatever holds it: numbers are numbers.
Meaning(v) == [p \in DOMAIN v |-> IF IsNumber(v[p]) THEN <<"number", v[p][2]>> ELSE v[p]]

\* Arguments every runtime holds alike: no numbers from 2^53 on and no NaN.
Portable(v) == ~HasNaN(v) /\ \A s \in Scalars(v) : IsNumber(s) => s[2] < Limit

\* The members of an object or an array, as tools are called with.
Structured(v) == <<>> \notin DOMAIN v

Delivered == Native(call.verifier, call.body)
Understood == Meaning(Delivered) = Meaning(call.args)

\* Between any two runtimes and under either profile, a call is admitted only if the
\* tool gets what the holder signed, whatever happened on the way; and a call nobody
\* altered is not refused as if it were, however often it was written anew.
BoundIsDelivered ==
  call.pc \in {"admitted", "refused"} /\ Portable(call.args) /\ Structured(call.args) =>
    /\ call.pc = "admitted" /\ Structured(Delivered) => Understood
    /\ (/\ call.altered = {} /\ call.signs = call.checks
        /\ Len(call.binding) <= MaxBoundArgs) => call.pc = "admitted"

\* A call that was bound for an object is not admitted with a string.
ShapeIsBound == call.pc = "admitted" => (Structured(call.args) <=> Structured(Delivered))

\* The same of arguments for which nothing is reported as a precision hazard.
UnreportedIsDelivered ==
  call.pc = "admitted" /\ PrecisionHazards(call.args) = {} => Understood

\* The profile that is declared decides which refusal is reported, never whether
\* the call is admitted.
DeclarationOnlyDiagnoses == call.pc = "admitted" => call.signs = call.checks
===============================================================================
