--------------------------- MODULE MCA2AVerifier ---------------------------
EXTENDS A2AVerifier, TLC

MCProvider == [issuer |-> "idp", audience |-> "desk", leeway |-> 0, actor |-> "agent",
               keys |-> {[kid |-> "k1", signer |-> "idp"]}]

Human(sub, signer, exp) ==
  [sub |-> sub, signer |-> signer, kid |-> None, iss |-> "idp", aud |-> {"desk"},
   exp |-> exp, nbf |-> 0, act |-> None]

Alice == Human("alice", "idp", 2)
Bob == [Human("bob", "idp", 3) EXCEPT !.kid = "k1", !.act = "agent"]
Forged == Human("alice", "agent", 3)

\* One token acts for a human, the other for nobody; the second is gated for pay
\* and in the class with no tolerated age.
ForAlice == [id |-> "ta", issuer |-> "org", leaf |-> "agent", tools |-> {"pay"},
             principal |-> "alice", gates |-> {}, class |-> 1]
ForNobody == [id |-> "tn", issuer |-> "org", leaf |-> "agent", tools |-> {"read", "pay"},
              principal |-> None, gates |-> {"pay"}, class |-> 0]

HeaderOf(token, audience, at, bound) ==
  [token |-> token,
   proof |-> [token |-> token.id, signer |-> "agent", audience |-> audience, at |-> at,
              tool |-> "pay", bound |-> bound]]
Spelt(args, profile) == [args |-> args, profile |-> profile]

Envelope(header, args, carried, human) ==
  [header |-> header, tool |-> "pay", args |-> args, carried |-> carried, human |-> human,
   declared |-> IF header = None \/ header.proof.bound = None THEN None
                ELSE header.proof.bound.profile]

\* Its sender's clock is three ticks ahead.
Early == HeaderOf(ForAlice, "here", 3, Spelt("x", "jcs"))
Octets == HeaderOf(ForAlice, "here", 1, Spelt("x", "octets"))
Later == HeaderOf(ForAlice, "here", 1, Spelt("z", "jcs"))
Open == HeaderOf(ForNobody, "here", 0, None)

MCEnvelopes ==
  {Envelope(Early, "x", None, Alice), Envelope(Early, "y", None, Alice),
   Envelope(Early, "x", None, Bob), Envelope(Early, "x", None, Forged),
   Envelope(Later, "z", None, Alice),
   Envelope(Octets, "x", Spelt("x", "octets"), Alice),
   Envelope(Octets, "y", Spelt("y", "octets"), Alice),
   Envelope(Octets, "y", Spelt("x", "octets"), Alice),
   Envelope(Open, "y", Spelt("y", "octets"), None),
   Envelope(HeaderOf(ForNobody, "elsewhere", 0, None), "x", None, None),
   Envelope(None, "x", None, Alice)}

Config(octets, binding, guard) ==
  [octets |-> octets, binding |-> binding, declare |-> binding, guard |-> guard]
MCConfigs == {Config(FALSE, FALSE, "memory"), Config(TRUE, TRUE, "shared")}
Perms == Permutations(Calls)
Lenient == {Config(TRUE, FALSE, "memory")}
===============================================================================
