---------------------------- MODULE RecordsProofs ----------------------------
(***************************************************************************)
(* Proofs about what is held alike in two places.  What an organization    *)
(* can show afterwards: its checkpoints are of one log, no record is lost  *)
(* without a trace, bundles and chains of custody are in order whoever     *)
(* makes them, an action relied upon as aligned was judged by a quorum,    *)
(* and a log that replays to a checkpoint says who answered for every      *)
(* decision.  And arguments, which two runtimes spell alike.               *)
(***************************************************************************)
EXTENDS DecisionTrail, Custody, Alignment, Accountability, ArgBinding, FiniteSetTheorems, TLAPS

-----------------------------------------------------------------------------
(***************************************************************************)
(* Sorting.  In a total order of finitely many things, the number of those *)
(* up to one is its place, and what is at a place is what stands there.    *)
(***************************************************************************)
\* upto[i]: i and what comes before it.
Total(K, upto) ==
  /\ upto \in [K -> SUBSET K]
  /\ \A i \in K : i \in upto[i]
  /\ \A i, j \in K : i \in upto[j] \/ j \in upto[i]
  /\ \A i, j \in K : i \in upto[j] /\ j \in upto[i] => i = j
  /\ \A i, j \in K : i \in upto[j] => upto[i] \subseteq upto[j]

LEMMA Ranking ==
  ASSUME NEW K, IsFiniteSet(K), NEW upto, Total(K, upto),
         NEW place, place = [i \in K |-> Cardinality(upto[i])],
         NEW at, \A k \in 1..Cardinality(K) :
                   (\E i \in K : place[i] = k) => at[k] \in K /\ place[at[k]] = k
  PROVE  /\ Cardinality(K) \in Nat
         /\ \A k \in 1..Cardinality(K) : at[k] \in K
         /\ \A i \in K : \E k \in 1..Cardinality(K) : at[k] = i
         /\ \A k, m \in 1..Cardinality(K) : k < m => at[k] \in upto[at[m]] /\ at[k] # at[m]
<1> DEFINE n == Cardinality(K)
<1>1. n \in Nat /\ IsFiniteSet(1..n) /\ Cardinality(1..n) = n
  BY FS_CardinalityType, FS_Interval
<1>2. ASSUME NEW i \in K PROVE IsFiniteSet(upto[i]) /\ place[i] \in 1..n
  <2>1. upto[i] \in SUBSET K /\ upto[i] # {}
    BY DEF Total
  <2>2. /\ IsFiniteSet(upto[i]) /\ Cardinality(upto[i]) <= n
        /\ Cardinality(upto[i]) \in Nat
    BY <2>1, FS_Subset, FS_CardinalityType
  <2>3. Cardinality(upto[i]) # 0
    BY <2>1, <2>2, FS_EmptySet
  <2> QED
    BY <1>1, <2>2, <2>3
<1>3. ASSUME NEW i \in K, NEW j \in K, i # j, i \in upto[j] PROVE place[i] < place[j]
  <2>1. upto[i] \in SUBSET upto[j] /\ upto[i] # upto[j]
    BY <1>3 DEF Total
  <2>2. /\ Cardinality(upto[i]) <= Cardinality(upto[j])
        /\ Cardinality(upto[i]) # Cardinality(upto[j])
    BY <1>2, <2>1, FS_Subset
  <2>3. place[i] \in 1..n /\ place[j] \in 1..n
    BY <1>2
  <2> QED
    BY <1>1, <2>2, <2>3
<1>4. ASSUME NEW i \in K, NEW j \in K, place[i] < place[j] PROVE i \in upto[j] /\ i # j
  <2>1. place[i] \in 1..n /\ place[j] \in 1..n
    BY <1>2
  <2>2. i # j
    BY <1>1, <1>4, <2>1
  <2>3. j \notin upto[i]
    BY <1>1, <1>3, <1>4, <2>1, <2>2
  <2> QED
    BY <2>2, <2>3 DEF Total
<1>5. place \in Injection(K, 1..n)
  <2>1. place \in [K -> 1..n]
    BY <1>2
  <2>2. ASSUME NEW i \in K, NEW j \in K, place[i] = place[j] PROVE i = j
    <3>1. place[i] \in 1..n
      BY <1>2
    <3>2. ~(place[i] < place[j]) /\ ~(place[j] < place[i])
      BY <1>1, <2>2, <3>1
    <3> QED
      BY <1>3, <3>2 DEF Total
  <2> QED
    BY <2>1, <2>2 DEF Injection, IsInjective
<1>6. place \in Surjection(K, 1..n)
  BY <1>1, <1>5, FS_Injection
<1> HIDE DEF n
<1>7. ASSUME NEW k \in 1..n PROVE at[k] \in K /\ place[at[k]] = k
  <2>1. \E i \in K : place[i] = k
    BY <1>6 DEF Surjection
  <2> QED
    BY <2>1 DEF n
<1>8. ASSUME NEW i \in K PROVE \E k \in 1..n : at[k] = i
  <2>1. place[i] \in 1..n
    BY <1>2
  <2>2. at[place[i]] \in K /\ place[at[place[i]]] = place[i]
    BY <1>7, <2>1
  <2>3. at[place[i]] = i
    BY <1>5, <2>2 DEF Injection, IsInjective
  <2> QED
    BY <2>1, <2>3
<1>9. ASSUME NEW k \in 1..n, NEW m \in 1..n, k < m
      PROVE  at[k] \in upto[at[m]] /\ at[k] # at[m]
  <2>1. /\ at[k] \in K /\ at[m] \in K
        /\ place[at[k]] = k /\ place[at[m]] = m
    BY <1>7
  <2>2. place[at[k]] < place[at[m]]
    BY <1>9, <2>1
  <2> QED
    BY <1>4, <2>1, <2>2
<1>10. /\ n \in Nat
       /\ \A k \in 1..n : at[k] \in K
       /\ \A i \in K : \E k \in 1..n : at[k] = i
       /\ \A k, m \in 1..n : k < m => at[k] \in upto[at[m]] /\ at[k] # at[m]
  BY <1>1, <1>7, <1>8, <1>9
<1> QED
  BY <1>10 DEF n

-----------------------------------------------------------------------------
(***************************************************************************)
(* The trail.  A checkpoint is a stretch of a stream from its start, and   *)
(* the stream of now still has of it what every process since took up: the *)
(* durable sink is behind the stream and never beside it.                  *)
(***************************************************************************)
\* A head of count records, each with the number of its place.
LogOf(log) ==
  /\ log.count \in Nat /\ log.head \in Seq(DecisionRecord) /\ Len(log.head) = log.count
  /\ \A i \in 1..log.count : log.head[i].seq = i - 1

StartOf(cp, log) ==
  /\ cp.count <= log.count
  /\ \A i \in 1..cp.count : cp.head[i] = log.head[i]

\* What the stream of now has of a checkpoint.
Upheld(x) ==
  \A i \in 1..x.checkpoint.count :
    Kept(i, x.life, life) => i <= stream.count /\ stream.head[i] = x.checkpoint.head[i]

LogInv ==
  /\ life \in Nat \ {0} /\ began \in Seq(Nat) /\ Len(began) = life
  /\ LogOf(stream)
  /\ LogOf(saved) /\ StartOf(saved, stream)
  /\ \A x \in signed : x.life \in 1..life /\ LogOf(x.checkpoint) /\ Upheld(x)
  /\ \A a, b \in signed : a.life <= b.life =>
       \A i \in 1..a.checkpoint.count :
         i <= b.checkpoint.count /\ Kept(i, a.life, b.life) =>
           a.checkpoint.head[i] = b.checkpoint.head[i]

LEMMA RecordedExtends ==
  ASSUME NEW log, LogOf(log), NEW digest \in [flow: Flows, life: Nat],
         NEW longer, longer = Recorded(log, digest)
  PROVE  /\ LogOf(longer)
         /\ longer.count = log.count + 1
         /\ \A i \in 1..log.count : longer.head[i] = log.head[i]
         /\ longer.head[longer.count] = [seq |-> log.count, digest |-> digest]
<1> DEFINE r == [seq |-> log.count, digest |-> digest]
<1>1. r \in DecisionRecord
  BY DEF LogOf, DecisionRecord
<1>2. longer.count = log.count + 1 /\ longer.head = Append(log.head, r)
  BY DEF Recorded, Fold
<1> HIDE DEF r
<1>3. /\ log.count \in Nat /\ log.head \in Seq(DecisionRecord) /\ Len(log.head) = log.count
      /\ \A i \in 1..log.count : log.head[i].seq = i - 1
  BY DEF LogOf
<1> DEFINE head == Append(log.head, r)
<1>4. head \in Seq(DecisionRecord) /\ Len(head) = log.count + 1
  BY <1>1, <1>3
<1>5. (\A i \in 1..log.count : head[i] = log.head[i]) /\ head[log.count + 1] = r
  BY <1>1, <1>3
<1>6. longer.head = head
  BY <1>2
<1> HIDE DEF head
<1>7. \A i \in 1..longer.count : longer.head[i].seq = i - 1
  BY <1>2, <1>3, <1>5, <1>6 DEF r
<1>8. /\ LogOf(longer) /\ \A i \in 1..log.count : longer.head[i] = log.head[i]
      /\ longer.head[longer.count] = r
  BY <1>2, <1>3, <1>4, <1>5, <1>6, <1>7 DEF LogOf
<1> QED
  BY <1>2, <1>8 DEF r

LEMMA InitLog == TrailInit => LogInv
<1> SUFFICES ASSUME TrailInit PROVE LogInv
  OBVIOUS
<1>1. life = 1 /\ began = <<0>> /\ stream = NewStream /\ saved = NewStream /\ signed = {}
  BY DEF TrailInit
<1>2. began \in Seq(Nat) /\ Len(began) = life /\ life \in Nat \ {0}
  BY <1>1
<1>3. LogOf(NewStream) /\ StartOf(NewStream, NewStream)
  BY DEF LogOf, StartOf, NewStream, Genesis
<1> QED
  BY <1>1, <1>2, <1>3 DEF LogInv

\* Where the life, the streams' beginnings and the checkpoints stay, and the stream
\* keeps what it has.
LEMMA StreamGrows ==
  ASSUME LogInv, UNCHANGED <<life, began, signed>>,
         LogOf(stream'), StartOf(stream, stream'), LogOf(saved'), StartOf(saved', stream')
  PROVE  LogInv'
<1>1. ASSUME NEW x \in signed PROVE x.life \in 1..life /\ LogOf(x.checkpoint) /\ Upheld(x)'
  <2>1. x.life \in 1..life /\ LogOf(x.checkpoint) /\ Upheld(x)
    BY DEF LogInv
  <2>2. \A i \in Nat : Kept(i, x.life, life)' = Kept(i, x.life, life)
    BY DEF Kept
  <2>3. /\ stream.count \in Nat /\ stream'.count \in Nat /\ x.checkpoint.count \in Nat
        /\ stream.count <= stream'.count
        /\ \A i \in 1..stream.count : stream'.head[i] = stream.head[i]
    BY <2>1 DEF LogInv, LogOf, StartOf
  <2>4. Upheld(x)'
    BY <2>1, <2>2, <2>3 DEF Upheld
  <2> QED
    BY <2>1, <2>4
<1>2. (\A a, b \in signed : a.life <= b.life =>
         \A i \in 1..a.checkpoint.count :
           i <= b.checkpoint.count /\ Kept(i, a.life, b.life) =>
             a.checkpoint.head[i] = b.checkpoint.head[i])'
  BY DEF LogInv, Kept
<1>3. life' \in Nat \ {0} /\ began' \in Seq(Nat) /\ Len(began') = life'
  BY DEF LogInv
<1>4. LogOf(stream)' /\ LogOf(saved)' /\ StartOf(saved, stream)'
  BY DEF LogOf, StartOf
<1>5. (\A x \in signed : x.life \in 1..life /\ LogOf(x.checkpoint) /\ Upheld(x))'
  BY <1>1 DEF LogOf
<1> QED
  BY <1>2, <1>3, <1>4, <1>5 DEF LogInv

LEMMA DecideLog ==
  ASSUME LogInv, NEW t \in Threads, NEW f \in Flows, Decide(t, f)
  PROVE  LogInv'
<1>0. PICK digest \in [flow: Flows, life: Nat] : digest = [flow |-> f, life |-> life]
  BY DEF LogInv
<1>1. stream' = Recorded(stream, digest) /\ UNCHANGED <<life, began, saved, signed>>
  BY <1>0 DEF Decide
<1>2. LogOf(stream) /\ LogOf(saved) /\ StartOf(saved, stream)
  BY DEF LogInv
<1>3. /\ LogOf(stream') /\ stream'.count = stream.count + 1
      /\ \A i \in 1..stream.count : stream'.head[i] = stream.head[i]
  <2>1. stream' = Recorded(stream, digest)
    BY <1>1
  <2>2. /\ LogOf(stream') /\ stream'.count = stream.count + 1
        /\ \A i \in 1..stream.count : stream'.head[i] = stream.head[i]
        /\ stream'.head[stream'.count] = [seq |-> stream.count, digest |-> digest]
    BY <1>0, <1>2, <2>1, RecordedExtends
  <2> QED
    BY <2>2
<1>4. StartOf(stream, stream') /\ StartOf(saved, stream')
  <2>1. stream.count \in Nat /\ saved.count \in Nat
    BY <1>2 DEF LogOf
  <2>2. saved.count <= stream.count /\ \A i \in 1..saved.count : saved.head[i] = stream.head[i]
    BY <1>2 DEF StartOf
  <2>3. StartOf(stream, stream')
    BY <1>3, <2>1 DEF StartOf
  <2> PICK n \in Nat, m \in Nat : n = saved.count /\ m = stream.count
    BY <2>1
  <2>4. n <= m + 1 /\ \A i \in 1..n : i \in 1..m
    BY <2>2
  <2>5. \A i \in 1..n : saved.head[i] = stream'.head[i]
    BY <1>3, <2>2, <2>4
  <2>6. StartOf(saved, stream')
    BY <1>3, <2>4, <2>5 DEF StartOf
  <2> QED
    BY <2>3, <2>6
<1> QED
  BY <1>1, <1>2, <1>3, <1>4, StreamGrows

LEMMA PersistLog == ASSUME LogInv, Persist PROVE LogInv'
<1>1. LogOf(stream) /\ LogOf(saved) /\ StartOf(saved, stream)
  BY DEF LogInv
<1>2. /\ saved.count < stream.count
      /\ saved' = Recorded(saved, stream.head[saved.count + 1].digest)
      /\ UNCHANGED <<life, began, stream, signed>>
  BY DEF Persist
<1> DEFINE n == saved.count + 1
           r == stream.head[n]
<1>3. n \in 1..stream.count /\ r \in DecisionRecord /\ r.seq = saved.count
  BY <1>1, <1>2 DEF LogOf
<1>4. r.digest \in [flow: Flows, life: Nat] /\ r = [seq |-> saved.count, digest |-> r.digest]
  BY <1>3 DEF DecisionRecord
<1> HIDE DEF r
<1>5. saved' = Recorded(saved, r.digest)
  BY <1>2 DEF r
<1>6. /\ LogOf(saved') /\ saved'.count = n
      /\ \A i \in 1..saved.count : saved'.head[i] = saved.head[i]
      /\ saved'.head[saved'.count] = [seq |-> saved.count, digest |-> r.digest]
  BY <1>1, <1>4, <1>5, RecordedExtends
<1>7. saved'.head[n] = r
  <2>1. saved'.head[n] = [seq |-> saved.count, digest |-> r.digest]
    BY <1>6
  <2> HIDE DEF n
  <2> QED
    BY <1>4, <2>1
<1>8. StartOf(saved', stream)
  <2>1. saved.count \in Nat /\ stream.count \in Nat /\ n = saved.count + 1 /\ n <= stream.count
    BY <1>1, <1>2 DEF LogOf
  <2>2. \A i \in 1..saved.count : saved'.head[i] = stream.head[i]
    BY <1>1, <1>6 DEF StartOf
  <2>3. saved'.head[n] = stream.head[n]
    BY <1>7 DEF r
  <2> HIDE DEF n
  <2>4. \A i \in 1..n : saved'.head[i] = stream.head[i]
    BY <2>1, <2>2, <2>3
  <2> QED
    BY <1>6, <2>1, <2>4 DEF StartOf
<1>9. StartOf(stream, stream')
  BY <1>1, <1>2 DEF LogOf, StartOf
<1> QED
  BY <1>1, <1>2, <1>6, <1>8, <1>9, StreamGrows

LEMMA SignLog == ASSUME LogInv, Sign PROVE LogInv'
<1>1. PICK cp : cp = SignCheckpoint(stream, Anchor)
  OBVIOUS
<1> PICK x : x = [checkpoint |-> cp, life |-> life]
  OBVIOUS
<1>2. signed' = signed \cup {x} /\ UNCHANGED <<life, began, stream, saved>>
  BY <1>1 DEF Sign
<1>3. x.life = life /\ x.checkpoint.count = stream.count /\ x.checkpoint.head = stream.head
  BY <1>1 DEF SignCheckpoint
<1>4. LogOf(x.checkpoint) /\ Upheld(x) /\ x.life \in 1..life
  <2>1. life \in 1..life
    <3>1. life \in Nat /\ \A y \in signed : y.life \in 1..life
      BY DEF LogInv
    <3>2. life # 0
      BY DEF LogInv
    <3> QED
      BY <3>1, <3>2
  <2> QED
    BY <1>3, <2>1 DEF LogInv, LogOf, Upheld
<1>5. ASSUME NEW a \in signed', NEW b \in signed', a.life <= b.life,
             NEW i \in 1..a.checkpoint.count, i <= b.checkpoint.count, Kept(i, a.life, b.life)
      PROVE  a.checkpoint.head[i] = b.checkpoint.head[i]
  <2>1. CASE a \in signed /\ b \in signed
    BY <1>5, <2>1 DEF LogInv
  <2>2. CASE a \in signed /\ b = x
    BY <1>3, <1>5, <2>2 DEF LogInv, Upheld
  <2>3. CASE a = x /\ b \in signed
    <3>1. b.life = life /\ life \in Nat /\ Upheld(b) /\ LogOf(b.checkpoint)
      BY <1>3, <1>5, <2>3 DEF LogInv
    <3>2. Kept(i, b.life, life) /\ i \in 1..b.checkpoint.count
      BY <1>3, <1>5, <2>3, <3>1 DEF Kept, LogOf
    <3> QED
      BY <1>3, <2>3, <3>1, <3>2 DEF Upheld
  <2> QED
    BY <1>2, <1>5, <2>1, <2>2, <2>3
<1>6. ASSUME NEW y \in signed' PROVE y.life \in 1..life /\ LogOf(y.checkpoint) /\ Upheld(y)
  BY <1>2, <1>4 DEF LogInv
<1>7. (\A y \in signed : y.life \in 1..life /\ LogOf(y.checkpoint) /\ Upheld(y))'
  BY <1>2, <1>6 DEF LogOf, Upheld, Kept
<1>8. (\A a, b \in signed : a.life <= b.life =>
         \A i \in 1..a.checkpoint.count :
           i <= b.checkpoint.count /\ Kept(i, a.life, b.life) =>
             a.checkpoint.head[i] = b.checkpoint.head[i])'
  BY <1>2, <1>5 DEF Kept
<1>9. (/\ life \in Nat \ {0} /\ began \in Seq(Nat) /\ Len(began) = life
       /\ LogOf(stream) /\ LogOf(saved) /\ StartOf(saved, stream))'
  BY <1>2 DEF LogInv, LogOf, StartOf
<1> QED
  BY <1>7, <1>8, <1>9 DEF LogInv

LEMMA RestartLog == ASSUME LogInv, RestartTrail PROVE LogInv'
<1>1. PICK start \in {Resume(saved.count, saved.head), NewStream} :
        stream' = start /\ saved' = start /\ began' = Append(began, start.count)
  BY DEF RestartTrail
<1>2. life' = life + 1 /\ signed' = signed
  BY DEF RestartTrail
<1>3. LogOf(start) /\ StartOf(start, stream)
  <2>1. LogOf(saved) /\ StartOf(saved, stream) /\ LogOf(stream)
    BY DEF LogInv
  <2>2. CASE start = Resume(saved.count, saved.head)
    <3>1. start.count = saved.count /\ start.head = saved.head
      BY <2>2 DEF Resume
    <3> QED
      BY <2>1, <3>1 DEF LogOf, StartOf
  <2>3. CASE start = NewStream
    BY <2>1, <2>3 DEF NewStream, Genesis, LogOf, StartOf
  <2> QED
    BY <1>1, <2>2, <2>3
<1>4. /\ life \in Nat /\ began \in Seq(Nat) /\ Len(began) = life /\ start.count \in Nat
  BY <1>3 DEF LogInv, LogOf
<1>5. /\ began' \in Seq(Nat) /\ Len(began') = life' /\ life' \in Nat
      /\ began'[life'] = start.count
      /\ \A k \in 1..life : began'[k] = began[k]
  BY <1>1, <1>2, <1>4
<1>6. ASSUME NEW x \in signed PROVE x.life \in 1..life' /\ LogOf(x.checkpoint) /\ Upheld(x)'
  <2>1. x.life \in 1..life /\ LogOf(x.checkpoint) /\ Upheld(x)
    BY DEF LogInv
  <2>2. ASSUME NEW i \in 1..x.checkpoint.count, \A k \in x.life + 1..life' : i <= began'[k]
        PROVE  i <= start.count /\ start.head[i] = x.checkpoint.head[i]
    <3>1. i \in Nat /\ i \in 1..x.checkpoint.count
      BY <2>1 DEF LogOf
    <3>2. i <= start.count
      BY <1>2, <1>4, <1>5, <2>1, <2>2
    <3>3. Kept(i, x.life, life)
      BY <1>2, <1>4, <1>5, <2>1, <2>2 DEF Kept
    <3>4. i <= stream.count /\ stream.head[i] = x.checkpoint.head[i]
      BY <2>1, <3>1, <3>3 DEF Upheld
    <3> QED
      BY <1>3, <1>4, <3>1, <3>2, <3>4 DEF StartOf
  <2>3. Upheld(x)'
    BY <1>1, <2>2 DEF Upheld, Kept
  <2> QED
    BY <1>2, <1>4, <2>1, <2>3
<1>7. ASSUME NEW a \in signed, NEW b \in signed, a.life <= b.life,
             NEW i \in 1..a.checkpoint.count, i <= b.checkpoint.count,
             \A k \in a.life + 1..b.life : i <= began'[k]
      PROVE  a.checkpoint.head[i] = b.checkpoint.head[i]
  <2>1. a.life \in 1..life /\ b.life \in 1..life
    BY DEF LogInv
  <2>2. Kept(i, a.life, b.life)
    BY <1>4, <1>5, <1>7, <2>1 DEF Kept
  <2> QED
    BY <1>7, <2>2 DEF LogInv
<1>8. (\A x \in signed : x.life \in 1..life /\ LogOf(x.checkpoint) /\ Upheld(x))'
  BY <1>2, <1>6 DEF LogOf
<1>9. (\A a, b \in signed : a.life <= b.life =>
         \A i \in 1..a.checkpoint.count :
           i <= b.checkpoint.count /\ Kept(i, a.life, b.life) =>
             a.checkpoint.head[i] = b.checkpoint.head[i])'
  BY <1>2, <1>7 DEF Kept
<1>10. (/\ life \in Nat \ {0} /\ began \in Seq(Nat) /\ Len(began) = life
        /\ LogOf(stream) /\ LogOf(saved) /\ StartOf(saved, stream))'
  BY <1>1, <1>3, <1>4, <1>5 DEF LogOf, StartOf
<1> QED
  BY <1>8, <1>9, <1>10 DEF LogInv

LEMMA NextLog == LogInv /\ [TrailNext]_trailVars => LogInv'
<1> SUFFICES ASSUME LogInv, [TrailNext]_trailVars PROVE LogInv'
  OBVIOUS
<1>1. ASSUME UNCHANGED <<life, began, stream, saved, signed>> PROVE LogInv'
  <2>1. LogOf(stream) /\ LogOf(saved) /\ StartOf(saved, stream)
    BY DEF LogInv
  <2>2. LogOf(stream') /\ LogOf(saved') /\ StartOf(saved', stream')
    BY <1>1, <2>1
  <2>3. StartOf(stream, stream')
    BY <1>1, <2>1 DEF LogOf, StartOf
  <2> QED
    BY <1>1, <2>2, <2>3, StreamGrows
<1>2. ASSUME NEW t \in Threads, Report(t) \/ Tally(t) PROVE LogInv'
  BY <1>1, <1>2 DEF Report, Tally
<1>3. CASE Take \/ Post \/ UNCHANGED trailVars
  BY <1>1, <1>3 DEF Take, Post, trailVars
<1> QED
  BY <1>2, <1>3, DecideLog, PersistLog, SignLog, RestartLog DEF TrailNext

\* Any two checkpoints an anchor ever signed (AdrStream::sign_checkpoint) are of one
\* log as far as every restart between them took it up (AdrStream::resume), however
\* far behind the stream the durable sink was.
THEOREM CheckpointsAlwaysAgree == TrailSpec => []CheckpointsAgree
<1>1. LogInv => CheckpointsAgree
  <2>1. SUFFICES ASSUME LogInv, NEW a \in signed, NEW b \in signed, a.life <= b.life,
                        NEW i \in 1..a.checkpoint.count, i <= b.checkpoint.count,
                        Kept(i, a.life, b.life)
                 PROVE  /\ i \in DOMAIN b.checkpoint.head
                        /\ a.checkpoint.head[i] = b.checkpoint.head[i]
    BY DEF CheckpointsAgree
  <2>2. i \in DOMAIN b.checkpoint.head
    BY <2>1 DEF LogInv, LogOf
  <2>3. a.checkpoint.head[i] = b.checkpoint.head[i]
    BY <2>1 DEF LogInv
  <2> QED
    BY <2>2, <2>3
<1> QED
  BY <1>1, InitLog, NextLog, PTL DEF TrailSpec

-----------------------------------------------------------------------------
(***************************************************************************)
(* The reporter.  A record of this process is always somewhere: on its way *)
(* there, in the queue, being posted, received, or in a counter.  A thread *)
(* that has read the counter and not yet written it back is one of these   *)
(* places, and what it writes is positive whoever wrote in between.        *)
(***************************************************************************)
ReporterTyped ==
  /\ life \in Nat /\ stream.count \in Nat /\ saved.count \in Nat
  /\ pending \in [Threads -> DecisionRecord \cup {None}]
  /\ tallying \in [Threads -> Nat \cup {None}]
  /\ queue \in Seq(DecisionRecord) /\ received \in Seq(DecisionRecord)
  /\ body \in DecisionRecord \cup {None}
  /\ dropped \in Nat /\ errors \in Nat
  /\ chain \in Seq(DecisionRecord)
  /\ \A x \in Ran(chain) : x.digest.life <= life

Accounted(r) ==
  \/ \E t \in Threads : pending[t] = r \/ tallying[t] # None
  \/ r \in Ran(queue) \cup {body} \cup Ran(received)
  \/ dropped > 0
  \/ errors > 0

ReporterInv ==
  /\ ReporterTyped
  /\ \A x \in Ran(chain) : x.digest.life = life => Accounted(x)

LEMMA RanAppend ==
  ASSUME NEW s \in Seq(DecisionRecord), NEW e \in DecisionRecord
  PROVE  Ran(Append(s, e)) = Ran(s) \cup {e}
BY DEF Ran

LEMMA RanTail ==
  ASSUME NEW s \in Seq(DecisionRecord), s # <<>>
  PROVE  /\ Head(s) \in DecisionRecord /\ Tail(s) \in Seq(DecisionRecord)
         /\ Ran(s) \subseteq {Head(s)} \cup Ran(Tail(s))
<1>1. Head(s) \in DecisionRecord /\ Tail(s) \in Seq(DecisionRecord) /\ Len(Tail(s)) = Len(s) - 1
  OBVIOUS
<1>2. ASSUME NEW i \in 1..Len(s), i # 1 PROVE s[i] \in Ran(Tail(s))
  <2>1. i - 1 \in 1..Len(Tail(s)) /\ s[i] = Tail(s)[i - 1]
    BY <1>1, <1>2
  <2> QED
    BY <2>1 DEF Ran
<1>3. s[1] = Head(s)
  OBVIOUS
<1> QED
  BY <1>1, <1>2, <1>3 DEF Ran

LEMMA InitReporter == TrailInit => ReporterInv
<1> SUFFICES ASSUME TrailInit PROVE ReporterInv
  OBVIOUS
<1>1. chain = <<>> /\ Ran(chain) = {}
  BY DEF TrailInit, Ran
<1>2. ReporterTyped
  BY <1>1 DEF TrailInit, ReporterTyped, NewStream, Genesis, Empty
<1> QED
  BY <1>1, <1>2 DEF ReporterInv

LEMMA DecideReports ==
  ASSUME ReporterInv, NEW t \in Threads, NEW f \in Flows, Decide(t, f)
  PROVE  ReporterInv'
<1> PICK r : r = [seq |-> stream.count, digest |-> [flow |-> f, life |-> life]]
  OBVIOUS
<1>1. r \in DecisionRecord /\ r.digest.life = life
  BY DEF ReporterInv, ReporterTyped, DecisionRecord
<1>2. /\ stream'.count = stream.count + 1
      /\ chain' = Append(chain, r) /\ pending' = [pending EXCEPT ![t] = r]
  BY DEF Decide, Stamped, Recorded
<1>3. UNCHANGED <<life, saved, tallying, queue, body, dropped, errors, received>>
  BY DEF Decide
<1>4. chain' \in Seq(DecisionRecord) /\ Ran(chain') = Ran(chain) \cup {r}
  <2>1. chain \in Seq(DecisionRecord)
    BY DEF ReporterInv, ReporterTyped
  <2>2. Append(chain, r) \in Seq(DecisionRecord)
    BY <1>1, <2>1
  <2> QED
    BY <1>1, <1>2, <2>1, <2>2, RanAppend
<1>5. pending[t] = None /\ Ran(chain)' = Ran(chain')
  BY DEF Decide, Ran
<1>6. ReporterTyped'
  <2>1. life \in Nat /\ stream'.count \in Nat /\ pending' \in [Threads -> DecisionRecord \cup {None}]
    BY <1>1, <1>2 DEF ReporterInv, ReporterTyped
  <2>2. \A x \in Ran(chain)' : x.digest.life <= life
    BY <1>1, <1>4, <1>5, <2>1 DEF ReporterInv, ReporterTyped
  <2> QED
    BY <1>3, <1>4, <2>1, <2>2 DEF ReporterInv, ReporterTyped
<1>7. ASSUME NEW y \in Ran(chain)', y.digest.life = life' PROVE Accounted(y)'
  <2>1. CASE y = r
    <3>1. pending'[t] = y
      BY <1>1, <1>2, <2>1 DEF ReporterInv, ReporterTyped
    <3> QED
      BY <3>1 DEF Accounted
  <2>2. CASE y \in Ran(chain)
    <3>1. Accounted(y)
      BY <1>3, <1>7, <2>2 DEF ReporterInv
    <3>2. y \in DecisionRecord
      BY <2>2 DEF ReporterInv, ReporterTyped, Ran
    <3>3. y # None
      BY <3>2, TrailAssumption
    <3>4. ASSUME NEW u \in Threads, pending[u] = y PROVE pending'[u] = y
      BY <1>2, <1>5, <3>3, <3>4 DEF ReporterInv, ReporterTyped
    <3>5. Ran(queue)' = Ran(queue) /\ Ran(received)' = Ran(received)
      BY <1>3 DEF Ran
    <3> QED
      BY <1>3, <3>1, <3>4, <3>5 DEF Accounted
  <2> QED
    BY <1>4, <1>5, <1>7, <2>1, <2>2
<1> QED
  BY <1>6, <1>7 DEF ReporterInv

LEMMA ReportReports ==
  ASSUME ReporterInv, NEW t \in Threads, Report(t)
  PROVE  ReporterInv'
<1>1. /\ pending[t] \in DecisionRecord /\ pending' = [pending EXCEPT ![t] = None]
      /\ UNCHANGED <<life, stream, saved, chain, body, dropped, errors, received>>
  BY DEF Report, ReporterInv, ReporterTyped
<1>2. ReporterTyped'
  <2>1. queue' \in Seq(DecisionRecord) /\ tallying' \in [Threads -> Nat \cup {None}]
    <3>1. /\ queue \in Seq(DecisionRecord) /\ dropped \in Nat
          /\ tallying \in [Threads -> Nat \cup {None}]
      BY DEF ReporterInv, ReporterTyped
    <3>2. Append(queue, pending[t]) \in Seq(DecisionRecord)
      BY <1>1, <3>1
    <3>3. [tallying EXCEPT ![t] = dropped] \in [Threads -> Nat \cup {None}]
      BY <3>1
    <3> QED
      BY <3>1, <3>2, <3>3 DEF Report
  <2> QED
    BY <1>1, <2>1 DEF ReporterInv, ReporterTyped
<1>3. ASSUME NEW r, Accounted(r) PROVE Accounted(r)'
  <2>1. CASE Len(queue) < QueueMax
    <3>1. queue' = Append(queue, pending[t]) /\ tallying' = tallying
      BY <2>1 DEF Report
    <3>2. Ran(queue') = Ran(queue) \cup {pending[t]}
      BY <1>1, <3>1, RanAppend DEF ReporterInv, ReporterTyped
    <3>3. ASSUME NEW u \in Threads, u # t, pending[u] = r PROVE pending'[u] = r
      BY <1>1, <3>3 DEF ReporterInv, ReporterTyped
    <3>4. Ran(queue)' = Ran(queue') /\ Ran(received)' = Ran(received)
      BY <1>1 DEF Ran
    <3> QED
      BY <1>1, <1>3, <3>1, <3>2, <3>3, <3>4 DEF Accounted
  <2>2. CASE ~(Len(queue) < QueueMax)
    <3>1. tallying'[t] \in Nat
      BY <2>2 DEF Report, ReporterInv, ReporterTyped
    <3> QED
      BY <3>1, TrailAssumption DEF Accounted
  <2> QED
    BY <2>1, <2>2
<1> QED
  BY <1>1, <1>2, <1>3 DEF ReporterInv

LEMMA TallyReports ==
  ASSUME ReporterInv, NEW t \in Threads, Tally(t)
  PROVE  ReporterInv'
<1>1. tallying[t] \in Nat /\ dropped' = tallying[t] + 1
  BY DEF Tally, Counted, ReporterInv, ReporterTyped
<1>2. tallying' = [tallying EXCEPT ![t] = None]
  BY DEF Tally
<1>3. UNCHANGED <<life, stream, saved, chain, pending, queue, body, errors, received>>
  BY DEF Tally
<1>4. ReporterTyped'
  BY <1>1, <1>2, <1>3 DEF ReporterInv, ReporterTyped
<1>5. dropped' > 0
  BY <1>1
<1> QED
  BY <1>4, <1>5 DEF ReporterInv, Accounted

LEMMA TakeReports == ASSUME ReporterInv, Take PROVE ReporterInv'
<1>1. body = None /\ queue # <<>> /\ body' = Head(queue) /\ queue' = Tail(queue)
  BY DEF Take
<1>2. UNCHANGED <<life, stream, saved, chain, pending, tallying, dropped, errors, received>>
  BY DEF Take
<1>3. /\ Head(queue) \in DecisionRecord /\ Tail(queue) \in Seq(DecisionRecord)
      /\ Ran(queue) \subseteq {Head(queue)} \cup Ran(Tail(queue))
  BY <1>1, RanTail DEF ReporterInv, ReporterTyped
<1>4. ReporterTyped'
  BY <1>1, <1>2, <1>3 DEF ReporterInv, ReporterTyped
<1>5. ASSUME NEW x \in Ran(chain)', x.digest.life = life' PROVE Accounted(x)'
  <2>1. x \in Ran(chain) /\ x \in DecisionRecord
    BY <1>2 DEF ReporterInv, ReporterTyped, Ran
  <2>2. x # None
    BY <2>1, TrailAssumption
  <2>3. Accounted(x)
    BY <1>2, <1>5, <2>1 DEF ReporterInv
  <2>4. /\ Ran(queue') = Ran(Tail(queue)) /\ Ran(received') = Ran(received)
        /\ Ran(queue)' = Ran(queue') /\ Ran(received)' = Ran(received')
    BY <1>1, <1>2 DEF Ran
  <2> QED
    BY <1>1, <1>2, <1>3, <2>2, <2>3, <2>4 DEF Accounted
<1> QED
  BY <1>4, <1>5 DEF ReporterInv

LEMMA PostReports == ASSUME ReporterInv, Post PROVE ReporterInv'
<1>1. body \in DecisionRecord /\ body' = None
  BY DEF Post, ReporterInv, ReporterTyped
<1>2. UNCHANGED <<life, stream, saved, chain, pending, tallying, queue, dropped>>
  BY DEF Post
<1>3. \/ received' = Append(received, body) /\ errors' = errors
      \/ errors' = errors + 1 /\ received' \in {received, Append(received, body)}
  BY DEF Post
<1>4. ReporterTyped'
  <2>1. received \in Seq(DecisionRecord) /\ errors \in Nat
    BY DEF ReporterInv, ReporterTyped
  <2>2. Append(received, body) \in Seq(DecisionRecord)
    BY <1>1, <2>1
  <2>3. received' \in Seq(DecisionRecord) /\ errors' \in Nat
    BY <1>3, <2>1, <2>2
  <2> QED
    BY <1>1, <1>2, <2>3 DEF ReporterInv, ReporterTyped
<1>5. ASSUME NEW r, Accounted(r) PROVE Accounted(r)'
  <2>1. Ran(Append(received, body)) = Ran(received) \cup {body}
    BY <1>1, RanAppend DEF ReporterInv, ReporterTyped
  <2>2. Ran(queue)' = Ran(queue) /\ Ran(received)' = Ran(received')
    BY <1>2 DEF Ran
  <2>3. CASE errors' = errors + 1
    BY <2>3 DEF Accounted, ReporterInv, ReporterTyped
  <2>4. CASE received' = Append(received, body) /\ errors' = errors
    BY <1>2, <1>5, <2>1, <2>2, <2>4 DEF Accounted
  <2> QED
    BY <1>3, <2>3, <2>4
<1> QED
  BY <1>2, <1>4, <1>5 DEF ReporterInv

LEMMA RestartReports == ASSUME ReporterInv, RestartTrail PROVE ReporterInv'
<1>1. life' = life + 1 /\ chain' = chain /\ received' = received
  BY DEF RestartTrail
<1>2. stream'.count \in Nat /\ saved'.count \in Nat
  BY DEF RestartTrail, Resume, NewStream, ReporterInv, ReporterTyped
<1>3. /\ pending' = Empty(Threads) /\ tallying' = Empty(Threads)
      /\ queue' = <<>> /\ body' = None /\ dropped' = 0 /\ errors' = 0
  BY DEF RestartTrail
<1>4. ReporterTyped'
  <2>1. \A x \in Ran(chain)' : x.digest.life <= life + 1
    <3>1. ASSUME NEW x \in Ran(chain) PROVE x.digest.life <= life + 1
      <4>1. x \in DecisionRecord /\ x.digest.life <= life /\ life \in Nat
        BY DEF ReporterInv, ReporterTyped, Ran
      <4>2. x.digest.life \in Nat
        BY <4>1 DEF DecisionRecord
      <4> QED
        BY <4>1, <4>2
    <3> QED
      BY <1>1, <3>1 DEF Ran
  <2> QED
    BY <1>1, <1>2, <1>3, <2>1 DEF Empty, ReporterInv, ReporterTyped
<1>5. \A x \in Ran(chain)' : x.digest.life # life'
  <2>1. ASSUME NEW x \in Ran(chain) PROVE x.digest.life # life + 1
    <3>1. x \in DecisionRecord /\ x.digest.life <= life /\ life \in Nat
      BY DEF ReporterInv, ReporterTyped, Ran
    <3>2. x.digest.life \in Nat
      BY <3>1 DEF DecisionRecord
    <3> QED
      BY <3>1, <3>2
  <2> QED
    BY <1>1, <2>1 DEF Ran
<1> QED
  BY <1>4, <1>5 DEF ReporterInv

LEMMA PersistReports == ASSUME ReporterInv, Persist PROVE ReporterInv'
<1>1. saved'.count = saved.count + 1
  BY DEF Persist, Recorded
<1>2. /\ UNCHANGED <<life, stream, chain, received>>
      /\ UNCHANGED <<pending, tallying, queue, body, dropped, errors>>
  BY DEF Persist, reporter
<1>3. ReporterTyped'
  BY <1>1, <1>2 DEF ReporterInv, ReporterTyped, Ran
<1>4. (\A x \in Ran(chain) : x.digest.life = life => Accounted(x))'
  BY SMTT(30), <1>2 DEF ReporterInv, Accounted, Ran
<1> QED
  BY <1>3, <1>4 DEF ReporterInv

LEMMA NextReporter == ASSUME ReporterInv, [TrailNext]_trailVars PROVE ReporterInv'
<1>1. CASE Sign \/ UNCHANGED trailVars
  <2>1. UNCHANGED <<life, stream, saved, chain, received>>
    BY <1>1 DEF Sign, trailVars
  <2>2. UNCHANGED <<pending, tallying, queue, body, dropped, errors>>
    BY <1>1 DEF Sign, trailVars, reporter
  <2> QED
    BY SMTT(30), <2>1, <2>2 DEF ReporterInv, ReporterTyped, Accounted, Ran
<1> QED
  BY <1>1, DecideReports, ReportReports, TallyReports, TakeReports, PostReports,
     RestartReports, PersistReports DEF TrailNext

\* DecisionReporter: whatever the threads, the queue, the post and a restart do to
\* one another, a record that is neither waiting nor delivered has left a nonzero
\* counter.
THEOREM LossAlwaysCounted == TrailSpec => []LossIsCounted
<1>1. ReporterInv => LossIsCounted
  <2>1. SUFFICES ASSUME ReporterInv, NEW x \in Ran(chain), x.digest.life = life,
                        \A t \in Threads : pending[t] = None /\ tallying[t] = None
                 PROVE  \/ x \in Ran(queue) \cup {body} \cup Ran(received)
                        \/ dropped + errors > 0
    BY DEF LossIsCounted, Reported
  <2>2. Accounted(x) /\ x \in DecisionRecord
    BY <2>1 DEF ReporterInv, ReporterTyped, Ran
  <2>3. x # None
    BY <2>2, TrailAssumption
  <2>4. x \in Ran(queue) \cup {body} \cup Ran(received) \/ dropped > 0 \/ errors > 0
    BY <2>1, <2>2, <2>3 DEF Accounted
  <2>5. dropped \in Nat /\ errors \in Nat
    BY <2>1 DEF ReporterInv, ReporterTyped
  <2> QED
    BY <2>4, <2>5
<1> QED
  BY <1>1, InitReporter, NextReporter, PTL DEF TrailSpec

-----------------------------------------------------------------------------
(***************************************************************************)
(* Bundles.  What the control plane gets was made, each record once: it is *)
(* with a thread, queued, being posted or received, and never in two of    *)
(* these.  Records of one process have rising numbers, and each process    *)
(* numbers from where it took up the chain, so a record of a later process *)
(* has a smaller number only where that process began before the other.    *)
(***************************************************************************)
Carried == {pending[t] : t \in Threads} \ {None}
Posting == {body} \ {None}
Places == Carried \cup Ran(queue) \cup Posting \cup Ran(received)

Apart(A, B) == \A a \in A : a \notin B
Distinct(s) == \A i, j \in 1..Len(s) : s[i] = s[j] => i = j

Once ==
  /\ \A t, u \in Threads : pending[t] # None /\ pending[t] = pending[u] => t = u
  /\ Distinct(queue) /\ Distinct(received)
  /\ Apart(Carried, Ran(queue)) /\ Apart(Carried, Posting) /\ Apart(Carried, Ran(received))
  /\ Apart(Ran(queue), Posting) /\ Apart(Ran(queue), Ran(received))
  /\ Apart(Posting, Ran(received))

Ahead(x, y) ==
  \/ x.digest.life < y.digest.life
  \/ x.digest.life = y.digest.life /\ x.seq < y.seq

ChainInv ==
  /\ began[life] <= stream.count
  /\ \A n \in 1..Len(chain) :
       /\ chain[n].digest.life \in 1..life
       /\ began[chain[n].digest.life] <= chain[n].seq
       /\ chain[n].digest.life = life => chain[n].seq < stream.count
  /\ \A m, n \in 1..Len(chain) : m < n => Ahead(chain[m], chain[n])

BundleInv ==
  /\ LogInv /\ ReporterInv /\ ChainInv
  /\ Places \subseteq Ran(chain)
  /\ Once

LEMMA DistinctAppend ==
  ASSUME NEW s \in Seq(DecisionRecord), Distinct(s), NEW e \in DecisionRecord, Apart({e}, Ran(s))
  PROVE  Distinct(Append(s, e))
<1> DEFINE t == Append(s, e)
<1>1. /\ Len(s) \in Nat /\ Len(t) = Len(s) + 1 /\ t[Len(s) + 1] = e
      /\ \A i \in 1..Len(s) : t[i] = s[i]
  OBVIOUS
<1> HIDE DEF t
<1>2. \A i \in 1..Len(s) : s[i] # e
  BY DEF Apart, Ran
<1>3. ASSUME NEW i \in 1..Len(t), NEW j \in 1..Len(t), t[i] = t[j] PROVE i = j
  <2>1. CASE i \in 1..Len(s) /\ j \in 1..Len(s)
    BY <1>1, <1>3, <2>1 DEF Distinct
  <2>2. CASE i = Len(s) + 1 /\ j \in 1..Len(s)
    BY <1>1, <1>2, <1>3, <2>2
  <2>3. CASE j = Len(s) + 1 /\ i \in 1..Len(s)
    BY <1>1, <1>2, <1>3, <2>3
  <2> QED
    BY <1>1, <2>1, <2>2, <2>3
<1>4. Distinct(t)
  BY <1>3 DEF Distinct
<1> QED
  BY <1>4 DEF t

LEMMA DistinctTail ==
  ASSUME NEW s \in Seq(DecisionRecord), s # <<>>, Distinct(s)
  PROVE  /\ Head(s) \in DecisionRecord /\ Distinct(Tail(s)) /\ Apart(Ran(Tail(s)), {Head(s)})
         /\ Ran(s) = {Head(s)} \cup Ran(Tail(s))
<1>1. /\ Tail(s) \in Seq(DecisionRecord) /\ Len(Tail(s)) = Len(s) - 1 /\ Len(s) \in Nat
      /\ Head(s) = s[1] /\ 1 \in 1..Len(s) /\ Head(s) \in DecisionRecord
  OBVIOUS
<1>2. \A i \in 1..Len(Tail(s)) : i + 1 \in 1..Len(s) /\ Tail(s)[i] = s[i + 1]
  BY <1>1
<1>3. Distinct(Tail(s))
  BY <1>1, <1>2 DEF Distinct
<1>4. \A i \in 1..Len(Tail(s)) : Tail(s)[i] # Head(s)
  BY <1>1, <1>2 DEF Distinct
<1>5. Ran(Tail(s)) \subseteq Ran(s) /\ Head(s) \in Ran(s)
  BY <1>1, <1>2 DEF Ran
<1> QED
  BY <1>1, <1>3, <1>4, <1>5, RanTail DEF Apart, Ran

LEMMA InitChain == TrailInit => ChainInv
<1> SUFFICES ASSUME TrailInit PROVE ChainInv
  OBVIOUS
<1>1. life = 1 /\ began = <<0>> /\ stream = NewStream /\ chain = <<>>
  BY DEF TrailInit
<1>2. began[1] = 0 /\ Len(chain) = 0
  BY <1>1
<1> QED
  BY <1>1, <1>2 DEF ChainInv, NewStream

LEMMA DecideChain ==
  ASSUME LogInv, ReporterInv, ChainInv, NEW t \in Threads, NEW f \in Flows, Decide(t, f)
  PROVE  ChainInv'
<1> PICK r : r = [seq |-> stream.count, digest |-> [flow |-> f, life |-> life]]
  OBVIOUS
<1>1. /\ chain' = Append(chain, r) /\ stream'.count = stream.count + 1
      /\ UNCHANGED <<life, began>>
  BY DEF Decide, Stamped, Recorded
<1>2. /\ r \in DecisionRecord /\ r.seq = stream.count /\ r.digest.life = life
      /\ stream.count \in Nat /\ life \in Nat \ {0} /\ chain \in Seq(DecisionRecord)
      /\ began \in Seq(Nat) /\ Len(began) = life
  BY DEF ReporterInv, ReporterTyped, LogInv, LogOf, DecisionRecord
<1>3. /\ Len(chain') = Len(chain) + 1 /\ chain'[Len(chain')] = r /\ Len(chain) \in Nat
      /\ \A n \in 1..Len(chain) : chain'[n] = chain[n] /\ chain[n] \in DecisionRecord
  BY <1>1, <1>2
<1>4. \A n \in 1..Len(chain) : chain[n].seq \in Nat /\ chain[n].digest.life \in Nat
  BY <1>3 DEF DecisionRecord
<1>5. began[life] \in Nat /\ began[life] <= stream.count
  BY <1>2 DEF ChainInv
<1>6. ASSUME NEW n \in 1..Len(chain')
      PROVE  /\ chain'[n].digest.life \in 1..life
             /\ began[chain'[n].digest.life] <= chain'[n].seq
             /\ chain'[n].digest.life = life => chain'[n].seq < stream'.count
  <2>1. CASE n \in 1..Len(chain)
    BY <1>1, <1>2, <1>3, <1>4, <2>1 DEF ChainInv
  <2>2. CASE n = Len(chain')
    BY <1>1, <1>2, <1>3, <1>5, <2>2
  <2> QED
    BY <1>3, <2>1, <2>2
<1>7. ASSUME NEW m \in 1..Len(chain'), NEW n \in 1..Len(chain'), m < n
      PROVE  Ahead(chain'[m], chain'[n])
  <2>1. CASE n \in 1..Len(chain)
    BY <1>3, <1>7, <2>1 DEF ChainInv
  <2>2. CASE n = Len(chain')
    <3>1. m \in 1..Len(chain) /\ chain'[n] = r /\ chain'[m] = chain[m]
      BY <1>3, <1>7, <2>2
    <3>2. chain[m].digest.life \in 1..life /\ (chain[m].digest.life = life => chain[m].seq < stream.count)
      BY <3>1 DEF ChainInv
    <3> QED
      BY <1>2, <1>4, <3>1, <3>2 DEF Ahead
  <2> QED
    BY <1>3, <2>1, <2>2
<1>8. began[life] <= stream'.count
  BY <1>1, <1>2, <1>5
<1> QED
  BY <1>1, <1>6, <1>7, <1>8 DEF ChainInv

LEMMA RestartChain ==
  ASSUME LogInv, ReporterInv, ChainInv, RestartTrail
  PROVE  ChainInv'
<1>1. PICK n : life' = life + 1 /\ chain' = chain /\ stream'.count = n /\ began' = Append(began, n)
  BY DEF RestartTrail
<1>2. n \in Nat
  BY <1>1 DEF RestartTrail, Resume, NewStream, ReporterInv, ReporterTyped
<1>3. life \in Nat \ {0} /\ began \in Seq(Nat) /\ Len(began) = life
  BY DEF LogInv
<1>4. began'[life'] = n /\ \A k \in 1..life : began'[k] = began[k]
  BY <1>1, <1>2, <1>3
<1>5. ASSUME NEW k \in 1..Len(chain)
      PROVE  /\ chain[k].digest.life \in 1..life'
             /\ began'[chain[k].digest.life] <= chain[k].seq
             /\ chain[k].digest.life # life'
  BY <1>1, <1>3, <1>4 DEF ChainInv
<1>6. \A m, k \in 1..Len(chain) : m < k => Ahead(chain[m], chain[k])
  BY DEF ChainInv
<1>7. began'[life'] <= stream'.count
  BY <1>1, <1>2, <1>4
<1> QED
  BY <1>1, <1>5, <1>6, <1>7 DEF ChainInv

LEMMA NextChain == LogInv /\ ReporterInv /\ ChainInv /\ [TrailNext]_trailVars => ChainInv'
<1> SUFFICES ASSUME LogInv, ReporterInv, ChainInv, [TrailNext]_trailVars PROVE ChainInv'
  OBVIOUS
<1>1. ASSUME UNCHANGED <<life, began, stream, chain>> PROVE ChainInv'
  BY <1>1 DEF ChainInv
<1>2. ASSUME NEW t \in Threads, Report(t) \/ Tally(t) PROVE ChainInv'
  BY <1>1, <1>2 DEF Report, Tally
<1>3. CASE Take \/ Post \/ Sign \/ Persist \/ UNCHANGED trailVars
  BY <1>1, <1>3 DEF Take, Post, Sign, Persist, trailVars
<1> QED
  BY <1>2, <1>3, DecideChain, RestartChain DEF TrailNext

LEMMA DecideBundle ==
  ASSUME BundleInv, LogInv', ReporterInv', ChainInv', NEW t \in Threads, NEW f \in Flows,
         Decide(t, f)
  PROVE  BundleInv'
<1> PICK r : r = [seq |-> stream.count, digest |-> [flow |-> f, life |-> life]]
  OBVIOUS
<1>1. /\ chain' = Append(chain, r) /\ pending' = [pending EXCEPT ![t] = r]
      /\ pending[t] = None
      /\ UNCHANGED <<queue, body, received>>
  BY DEF Decide, Stamped
<1>2. stream.count \in Nat /\ life \in Nat /\ chain \in Seq(DecisionRecord)
  BY DEF BundleInv, ReporterInv, ReporterTyped
<1>3. r \in DecisionRecord /\ r.seq = stream.count /\ r.digest.life = life
  BY <1>2 DEF DecisionRecord
<1>4. Ran(chain)' = Ran(chain) \cup {r}
  <2>1. Ran(chain') = Ran(chain) \cup {r}
    BY <1>1, <1>2, <1>3, RanAppend
  <2> QED
    BY <2>1 DEF Ran
<1>5. r \notin Ran(chain)
  <2>1. ASSUME NEW n \in 1..Len(chain) PROVE chain[n] # r
    <3>1. chain[n].digest.life = life => chain[n].seq < stream.count
      BY DEF BundleInv, ChainInv
    <3> QED
      BY <1>2, <1>3, <3>1
  <2> QED
    BY <2>1 DEF Ran
<1>6. /\ pending \in [Threads -> DecisionRecord \cup {None}] /\ r # None
      /\ pending'[t] = r /\ \A u \in Threads : u # t => pending'[u] = pending[u]
  BY <1>1, <1>3, TrailAssumption DEF BundleInv, ReporterInv, ReporterTyped
<1>7. /\ Carried' = Carried \cup {r} /\ Posting' = Posting
      /\ Ran(queue)' = Ran(queue) /\ Ran(received)' = Ran(received)
  BY <1>1, <1>6 DEF Carried, Posting, Ran
<1>8. \A u \in Threads : pending[u] # None => pending[u] \in Carried
  BY DEF Carried
<1>9. r \notin Places
  BY <1>5 DEF BundleInv
<1>10. Once'
  <2>1. ASSUME NEW u \in Threads, NEW v \in Threads, pending'[u] # None, pending'[u] = pending'[v]
        PROVE  u = v
    <3>1. \A w \in Threads : pending[w] # r
      BY <1>6, <1>8, <1>9 DEF Places
    <3> QED
      BY <1>6, <2>1, <3>1 DEF BundleInv, Once
  <2>2. Distinct(queue)' /\ Distinct(received)'
    BY <1>1 DEF BundleInv, Once, Distinct
  <2>3. /\ Apart(Carried', Ran(queue)) /\ Apart(Carried', Posting)
        /\ Apart(Carried', Ran(received))
    BY <1>7, <1>9 DEF BundleInv, Once, Apart, Places
  <2>4. /\ Apart(Ran(queue), Posting) /\ Apart(Ran(queue), Ran(received))
        /\ Apart(Posting, Ran(received))
    BY DEF BundleInv, Once
  <2>5. /\ Apart(Carried, Ran(queue))' /\ Apart(Carried, Posting)'
        /\ Apart(Carried, Ran(received))' /\ Apart(Ran(queue), Posting)'
        /\ Apart(Ran(queue), Ran(received))' /\ Apart(Posting, Ran(received))'
    BY <1>7, <2>3, <2>4 DEF Apart
  <2> QED
    BY <2>1, <2>2, <2>5 DEF Once
<1>11. Places' \subseteq Ran(chain)'
  BY <1>4, <1>7 DEF BundleInv, Places
<1> QED
  BY <1>10, <1>11 DEF BundleInv

\* A record that goes on to the next place, or out of all of them.
LEMMA MovedOn ==
  ASSUME BundleInv, LogInv', ReporterInv', ChainInv', chain' = chain,
         Places' \subseteq Places, Once'
  PROVE  BundleInv'
<1>1. Ran(chain)' = Ran(chain)
  BY DEF Ran
<1> QED
  BY <1>1 DEF BundleInv

LEMMA ReportBundle ==
  ASSUME BundleInv, LogInv', ReporterInv', ChainInv', NEW t \in Threads, Report(t)
  PROVE  BundleInv'
<1>1. /\ pending[t] # None /\ pending' = [pending EXCEPT ![t] = None]
      /\ queue' \in {queue, Append(queue, pending[t])}
      /\ UNCHANGED <<chain, body, received>>
  BY DEF Report
<1>2. /\ pending \in [Threads -> DecisionRecord \cup {None}]
      /\ queue \in Seq(DecisionRecord)
  BY DEF BundleInv, ReporterInv, ReporterTyped
<1>3. PICK r \in DecisionRecord : r = pending[t]
  BY <1>1, <1>2
<1>4. r \in Carried /\ Carried' \subseteq Carried
  BY <1>1, <1>2, <1>3 DEF Carried
<1>5. Posting' = Posting /\ Ran(received)' = Ran(received)
  BY <1>1 DEF Posting, Ran
<1>6. Ran(queue)' \subseteq Ran(queue) \cup {r}
  <2>1. Ran(Append(queue, r)) = Ran(queue) \cup {r}
    BY <1>2, RanAppend
  <2>2. Ran(queue)' = Ran(queue')
    BY DEF Ran
  <2> QED
    BY <1>1, <1>3, <2>1, <2>2
<1>7. \A x \in Carried' : x # r
  BY <1>1, <1>2, <1>3 DEF Carried, BundleInv, Once
<1>8. Once'
  <2>1. ASSUME NEW u \in Threads, NEW v \in Threads, pending'[u] # None, pending'[u] = pending'[v]
        PROVE  u = v
    BY <1>1, <1>2, <2>1 DEF BundleInv, Once
  <2>2. Distinct(queue')
    <3>1. Apart({r}, Ran(queue))
      BY <1>4 DEF BundleInv, Once, Apart
    <3>2. Distinct(queue)
      BY DEF BundleInv, Once
    <3>3. Distinct(Append(queue, r))
      BY <1>2, <3>1, <3>2, DistinctAppend
    <3> QED
      BY <1>1, <1>3, <3>2, <3>3
  <2>3. Distinct(received)' /\ Distinct(queue)'
    BY <1>1, <2>2 DEF BundleInv, Once, Distinct
  <2>4. /\ Apart(Carried', Ran(queue)') /\ Apart(Carried', Posting)
        /\ Apart(Carried', Ran(received))
    BY <1>4, <1>6, <1>7 DEF BundleInv, Once, Apart
  <2>5. /\ Apart(Ran(queue)', Posting) /\ Apart(Ran(queue)', Ran(received))
        /\ Apart(Posting, Ran(received))
    BY <1>4, <1>6 DEF BundleInv, Once, Apart
  <2>6. /\ Apart(Carried, Ran(queue))' /\ Apart(Carried, Posting)'
        /\ Apart(Carried, Ran(received))' /\ Apart(Ran(queue), Posting)'
        /\ Apart(Ran(queue), Ran(received))' /\ Apart(Posting, Ran(received))'
    BY <1>5, <2>4, <2>5 DEF Apart
  <2> QED
    BY <2>1, <2>3, <2>6 DEF Once
<1>9. Places' \subseteq Places
  BY <1>4, <1>5, <1>6 DEF Places
<1> QED
  BY <1>1, <1>8, <1>9, MovedOn

LEMMA TakeBundle ==
  ASSUME BundleInv, LogInv', ReporterInv', ChainInv', Take
  PROVE  BundleInv'
<1>1. /\ body = None /\ queue # <<>> /\ body' = Head(queue) /\ queue' = Tail(queue)
      /\ UNCHANGED <<chain, pending, received>>
  BY DEF Take
<1>2. queue \in Seq(DecisionRecord) /\ Distinct(queue)
  BY DEF BundleInv, ReporterInv, ReporterTyped, Once
<1>3. PICK r : r = Head(queue)
  OBVIOUS
<1>4. /\ Distinct(queue') /\ Apart(Ran(queue'), {r}) /\ r \in DecisionRecord
      /\ Ran(queue) = {r} \cup Ran(queue')
  BY <1>1, <1>2, <1>3, DistinctTail
<1>5. /\ Carried' = Carried /\ Ran(received)' = Ran(received) /\ Ran(queue)' = Ran(queue')
      /\ Posting' \subseteq {r}
  BY <1>1, <1>3 DEF Carried, Posting, Ran
<1>6. Once'
  <2>1. (\A t, u \in Threads :
           pending[t] # None /\ pending[t] = pending[u] => t = u)'
    BY <1>1 DEF BundleInv, Once
  <2>2. Distinct(queue)' /\ Distinct(received)'
    BY <1>1, <1>4 DEF BundleInv, Once, Distinct
  <2>3. /\ Apart(Carried, Ran(queue')) /\ Apart(Carried, Posting')
        /\ Apart(Carried, Ran(received)) /\ Apart(Ran(queue'), Posting')
        /\ Apart(Ran(queue'), Ran(received)) /\ Apart(Posting', Ran(received))
    BY <1>4, <1>5 DEF BundleInv, Once, Apart
  <2>4. /\ Apart(Carried, Ran(queue))' /\ Apart(Carried, Posting)'
        /\ Apart(Carried, Ran(received))' /\ Apart(Ran(queue), Posting)'
        /\ Apart(Ran(queue), Ran(received))' /\ Apart(Posting, Ran(received))'
    BY <1>5, <2>3 DEF Apart
  <2> QED
    BY <2>1, <2>2, <2>4 DEF Once
<1>7. Places' \subseteq Places
  BY <1>4, <1>5 DEF Places
<1> QED
  BY <1>1, <1>6, <1>7, MovedOn

LEMMA PostBundle ==
  ASSUME BundleInv, LogInv', ReporterInv', ChainInv', Post
  PROVE  BundleInv'
<1>1. /\ body # None /\ body' = None
      /\ received' \in {received, Append(received, body)}
      /\ UNCHANGED <<chain, pending, queue>>
  BY DEF Post
<1>2. received \in Seq(DecisionRecord) /\ Distinct(received) /\ body \in DecisionRecord
  BY <1>1 DEF BundleInv, ReporterInv, ReporterTyped, Once
<1>3. PICK r \in DecisionRecord : r = body
  BY <1>2
<1>4. Posting = {r} /\ Posting' = {}
  BY <1>1, <1>3 DEF Posting
<1>5. /\ Distinct(received') /\ Ran(received') \subseteq Ran(received) \cup {r}
  <2>1. Apart({r}, Ran(received))
    BY <1>4 DEF BundleInv, Once
  <2>2. Distinct(Append(received, r)) /\ Ran(Append(received, r)) = Ran(received) \cup {r}
    BY <1>2, <2>1, DistinctAppend, RanAppend
  <2> QED
    BY <1>1, <1>2, <1>3, <2>2
<1>6. Carried' = Carried /\ Ran(queue)' = Ran(queue) /\ Ran(received)' = Ran(received')
  BY <1>1 DEF Carried, Ran
<1>7. Once'
  <2>1. (\A t, u \in Threads :
           pending[t] # None /\ pending[t] = pending[u] => t = u)'
    BY <1>1 DEF BundleInv, Once
  <2>2. Distinct(queue)' /\ Distinct(received)'
    BY <1>1, <1>5 DEF BundleInv, Once, Distinct
  <2>3. /\ Apart(Carried, Ran(queue)) /\ Apart(Carried, Posting')
        /\ Apart(Carried, Ran(received')) /\ Apart(Ran(queue), Posting')
        /\ Apart(Ran(queue), Ran(received')) /\ Apart(Posting', Ran(received'))
    BY <1>4, <1>5 DEF BundleInv, Once, Apart
  <2>4. /\ Apart(Carried, Ran(queue))' /\ Apart(Carried, Posting)'
        /\ Apart(Carried, Ran(received))' /\ Apart(Ran(queue), Posting)'
        /\ Apart(Ran(queue), Ran(received))' /\ Apart(Posting, Ran(received))'
    BY <1>6, <2>3 DEF Apart
  <2> QED
    BY <2>1, <2>2, <2>4 DEF Once
<1>8. Places' \subseteq Places
  BY <1>4, <1>5, <1>6 DEF Places
<1> QED
  BY <1>1, <1>7, <1>8, MovedOn

LEMMA RestartBundle ==
  ASSUME BundleInv, LogInv', ReporterInv', ChainInv', RestartTrail
  PROVE  BundleInv'
<1>1. /\ pending' = Empty(Threads) /\ queue' = <<>> /\ body' = None
      /\ UNCHANGED <<chain, received>>
  BY DEF RestartTrail
<1>2. Carried' = {} /\ Ran(queue)' = {} /\ Posting' = {} /\ Ran(received)' = Ran(received)
  BY <1>1 DEF Carried, Posting, Ran, Empty
<1>3. Once'
  <2>1. \A t \in Threads : pending'[t] = None
    BY <1>1 DEF Empty
  <2>2. Distinct(queue)' /\ Distinct(received)'
    BY <1>1 DEF BundleInv, Once, Distinct
  <2>3. /\ Apart(Carried, Ran(queue))' /\ Apart(Carried, Posting)'
        /\ Apart(Carried, Ran(received))' /\ Apart(Ran(queue), Posting)'
        /\ Apart(Ran(queue), Ran(received))' /\ Apart(Posting, Ran(received))'
    BY <1>2 DEF Apart
  <2> QED
    BY <2>1, <2>2, <2>3 DEF Once
<1>4. Places' \subseteq Places
  BY <1>2 DEF Places
<1> QED
  BY <1>1, <1>3, <1>4, MovedOn

LEMMA InitBundle == TrailInit => BundleInv
<1> SUFFICES ASSUME TrailInit PROVE BundleInv
  OBVIOUS
<1>1. Carried = {} /\ Ran(queue) = {} /\ Posting = {} /\ Ran(received) = {}
  BY DEF TrailInit, Carried, Posting, Ran, Empty
<1>2. Once
  <2>1. (\A t \in Threads : pending[t] = None) /\ Distinct(queue) /\ Distinct(received)
    BY DEF TrailInit, Empty, Distinct
  <2> QED
    BY <1>1, <2>1 DEF Once, Apart
<1>3. Places \subseteq Ran(chain)
  BY <1>1 DEF Places
<1> QED
  BY <1>2, <1>3, InitLog, InitReporter, InitChain DEF BundleInv

LEMMA NextBundle == BundleInv /\ [TrailNext]_trailVars => BundleInv'
<1> SUFFICES ASSUME BundleInv, [TrailNext]_trailVars PROVE BundleInv'
  OBVIOUS
<1>1. LogInv' /\ ReporterInv' /\ ChainInv'
  BY NextLog, NextReporter, NextChain DEF BundleInv
<1>2. ASSUME UNCHANGED <<chain, pending, queue, body, received>> PROVE BundleInv'
  <2>1. /\ Carried' = Carried /\ Posting' = Posting
        /\ Ran(queue)' = Ran(queue) /\ Ran(received)' = Ran(received)
    BY <1>2 DEF Carried, Posting, Ran
  <2>2. Once'
    <3>1. Distinct(queue)' /\ Distinct(received)'
      BY <1>2 DEF BundleInv, Once, Distinct
    <3>2. /\ Apart(Carried, Ran(queue))' /\ Apart(Carried, Posting)'
          /\ Apart(Carried, Ran(received))' /\ Apart(Ran(queue), Posting)'
          /\ Apart(Ran(queue), Ran(received))' /\ Apart(Posting, Ran(received))'
      BY <2>1 DEF BundleInv, Once, Apart
    <3> QED
      BY <1>2, <3>1, <3>2 DEF BundleInv, Once
  <2>3. Places' \subseteq Places
    BY <2>1 DEF Places
  <2> QED
    BY <1>1, <1>2, <2>2, <2>3, MovedOn
<1>3. CASE Sign \/ Persist \/ UNCHANGED trailVars
  BY <1>2, <1>3 DEF Sign, Persist, trailVars, reporter
<1>4. ASSUME NEW t \in Threads, Tally(t) PROVE BundleInv'
  BY <1>2, <1>4 DEF Tally
<1> QED
  BY <1>1, <1>3, <1>4, DecideBundle, ReportBundle, TakeBundle, PostBundle, RestartBundle
     DEF TrailNext

LEMMA InSeqOrderHolds ==
  ASSUME NEW s \in Seq(DecisionRecord), Distinct(s), NEW f
  PROVE  LET mine == InSeqOrder(f, s) IN
         /\ mine \in Seq(DecisionRecord) /\ Ran(mine) \subseteq Ran(s)
         /\ \A i, j \in 1..Len(mine) : i < j => mine[i].seq <= mine[j].seq /\ mine[i] # mine[j]
<1> DEFINE K == {i \in DOMAIN s : s[i].digest.flow = f}
           Upto(i) == {j \in K : BySeq(s[j], s[i]) \/ (j <= i /\ ~BySeq(s[i], s[j]))}
           upto == [i \in K |-> Upto(i)]
           place == [i \in K |-> Cardinality(Upto(i))]
           at == [k \in 1..Cardinality(K) |-> CHOOSE i \in K : place[i] = k]
<1>1. K \subseteq 1..Len(s) /\ Len(s) \in Nat /\ IsFiniteSet(1..Len(s))
  BY FS_Interval
<1>2. IsFiniteSet(K)
  BY <1>1, FS_Subset
<1>3. \A i \in K : i \in Nat /\ s[i] \in DecisionRecord /\ s[i].seq \in Int
  <2>1. ASSUME NEW i \in K PROVE i \in Nat /\ s[i] \in DecisionRecord
    BY <1>1
  <2>2. \A r \in DecisionRecord : r.seq \in Int
    BY DEF DecisionRecord
  <2> QED
    BY <2>1, <2>2
<1>4. \A i, j \in K : s[i] = s[j] => i = j
  BY <1>1 DEF Distinct
<1>5. ASSUME NEW i \in K, NEW j \in K
      PROVE  j \in Upto(i) <=> s[j].seq < s[i].seq \/ (s[j].seq = s[i].seq /\ j <= i)
  BY <1>3 DEF BySeq
<1> HIDE DEF Upto
<1>6. Total(K, upto)
  <2>1. upto \in [K -> SUBSET K]
    BY DEF Upto
  <2>2. ASSUME NEW i \in K, NEW j \in K, i \in upto[j], NEW k \in upto[i] PROVE k \in upto[j]
    <3>1. k \in K
      BY <2>1
    <3> QED
      BY <1>3, <1>5, <2>2, <3>1
  <2>3. \A i, j \in K : i \in upto[j] /\ j \in upto[i] => i = j
    BY <1>3, <1>5
  <2>4. \A i, j \in K : i \in upto[i] /\ (i \in upto[j] \/ j \in upto[i])
    BY <1>3, <1>5
  <2> QED
    BY <2>1, <2>2, <2>3, <2>4 DEF Total
<1>7. /\ place = [i \in K |-> Cardinality(upto[i])]
      /\ \A k \in 1..Cardinality(K) :
           (\E i \in K : place[i] = k) => at[k] \in K /\ place[at[k]] = k
  OBVIOUS
<1>8. InSeqOrder(f, s) = [k \in 1..Cardinality(K) |-> s[at[k]]]
  BY DEF InSeqOrder, Arranged, Upto
<1>9. /\ Cardinality(K) \in Nat
      /\ \A k \in 1..Cardinality(K) : at[k] \in K
      /\ \A k, m \in 1..Cardinality(K) : k < m => at[k] \in upto[at[m]] /\ at[k] # at[m]
  <2> HIDE DEF K, upto, place, at
  <2> QED
    BY <1>2, <1>6, <1>7, Ranking
<1> PICK n \in Nat : n = Cardinality(K)
  BY <1>9
<1>10. ASSUME NEW k \in 1..n, NEW m \in 1..n, k < m
       PROVE  s[at[k]].seq <= s[at[m]].seq /\ s[at[k]] # s[at[m]]
  <2> HIDE DEF K, at
  <2>1. at[k] \in K /\ at[m] \in K /\ at[k] \in upto[at[m]] /\ at[k] # at[m]
    BY <1>9, <1>10
  <2>2. at[k] \in Upto(at[m])
    BY <2>1
  <2>3. s[at[k]].seq < s[at[m]].seq \/ s[at[k]].seq = s[at[m]].seq
    BY <1>5, <2>1, <2>2
  <2>4. s[at[k]].seq \in Int /\ s[at[m]].seq \in Int
    BY <1>3, <2>1
  <2>5. s[at[k]] # s[at[m]]
    BY <1>4, <2>1
  <2> QED
    BY <2>3, <2>4, <2>5
<1> DEFINE t == InSeqOrder(f, s)
<1> HIDE DEF K, upto, place, at, t
<1>11. t \in [1..n -> DecisionRecord] /\ \A k \in 1..n : t[k] = s[at[k]]
  BY <1>3, <1>8, <1>9 DEF t
<1>12. t \in Seq(DecisionRecord) /\ Len(t) = n
  BY <1>11
<1>13. Ran(t) \subseteq Ran(s)
  <2>1. ASSUME NEW k \in 1..n PROVE t[k] \in Ran(s)
    <3>1. at[k] \in 1..Len(s)
      BY <1>1, <1>9
    <3> QED
      BY <1>11, <3>1 DEF Ran
  <2> QED
    BY <1>12, <2>1 DEF Ran
<1>14. \A i, j \in 1..n : i < j => t[i].seq <= t[j].seq /\ t[i] # t[j]
  BY <1>10, <1>11
<1> QED
  BY <1>12, <1>13, <1>14 DEF t

\* EvidenceBundleBuilder: in whatever order threads, queue, timeouts and restarts let
\* the control plane have the records, the bundle of a flow has records that were made,
\* each once, and two of them reversed only where a process took up the chain before
\* the earlier one (AdrStream::resume behind its sink, or AdrStream::new).
THEOREM BundleAlwaysFollowsStream == TrailSpec => []BundleFollowsStream
<1>1. ASSUME BundleInv, NEW f \in Flows
      PROVE  LET mine == InSeqOrder(f, received) IN
             \A i, j \in 1..Len(mine) :
               /\ mine[i] \in Ran(chain)
               /\ i < j =>
                    /\ mine[i] # mine[j]
                    /\ MadeBefore(mine[j], mine[i]) =>
                         ~Kept(mine[j].seq + 1, mine[j].digest.life, mine[i].digest.life)
  <2> DEFINE mine == InSeqOrder(f, received)
  <2>1. /\ mine \in Seq(DecisionRecord) /\ Ran(mine) \subseteq Ran(received)
        /\ \A i, j \in 1..Len(mine) : i < j => mine[i].seq <= mine[j].seq /\ mine[i] # mine[j]
    <3>1. received \in Seq(DecisionRecord) /\ Distinct(received)
      BY <1>1 DEF BundleInv, ReporterInv, ReporterTyped, Once
    <3> QED
      BY <3>1, InSeqOrderHolds
  <2> HIDE DEF mine
  <2>2. \A i \in 1..Len(mine) : mine[i] \in Ran(chain)
    BY <1>1, <2>1 DEF BundleInv, Places, Ran
  <2>3. ASSUME NEW i \in 1..Len(mine), NEW j \in 1..Len(mine), i < j,
               MadeBefore(mine[j], mine[i]),
               Kept(mine[j].seq + 1, mine[j].digest.life, mine[i].digest.life)
        PROVE  FALSE
    <3>1. PICK x \in DecisionRecord, y \in DecisionRecord : x = mine[i] /\ y = mine[j]
      BY <2>1
    <3>2. PICK m \in 1..Len(chain), n \in 1..Len(chain) : m < n /\ chain[m] = y /\ chain[n] = x
      BY <2>3, <3>1 DEF MadeBefore
    <3>3. /\ Ahead(y, x)
          /\ y.digest.life \in 1..life /\ x.digest.life \in 1..life
          /\ began[x.digest.life] <= x.seq
      BY <1>1, <3>2 DEF BundleInv, ChainInv
    <3>4. x.seq <= y.seq /\ x.seq \in Nat /\ y.seq \in Nat
      <4>1. x.seq \in Nat /\ y.seq \in Nat
        BY DEF DecisionRecord
      <4> QED
        BY <2>1, <2>3, <3>1, <4>1
    <3>5. life \in Nat /\ began \in Seq(Nat) /\ Len(began) = life
      BY <1>1 DEF BundleInv, LogInv
    <3>6. y.digest.life < x.digest.life
      BY <3>3, <3>4 DEF Ahead
    <3>7. x.digest.life \in y.digest.life + 1..x.digest.life
      BY <3>3, <3>5, <3>6
    <3>8. y.seq + 1 <= began[x.digest.life]
      BY <2>3, <3>1, <3>7 DEF Kept
    <3>9. began[x.digest.life] \in Nat
      <4>1. x.digest.life \in 1..Len(began)
        BY <3>3, <3>5
      <4>2. \A numbers \in Seq(Nat) : \A at \in 1..Len(numbers) : numbers[at] \in Nat
        OBVIOUS
      <4> QED
        BY <3>5, <4>1, <4>2, Zenon
    <3> QED
      BY <3>3, <3>4, <3>8, <3>9
  <2>4. \A i, j \in 1..Len(mine) :
          /\ mine[i] \in Ran(chain)
          /\ i < j =>
               /\ mine[i] # mine[j]
               /\ MadeBefore(mine[j], mine[i]) =>
                    ~Kept(mine[j].seq + 1, mine[j].digest.life, mine[i].digest.life)
    BY <2>1, <2>2, <2>3
  <2> QED
    BY <2>4 DEF mine
<1>2. BundleInv => BundleFollowsStream
  BY <1>1 DEF BundleFollowsStream
<1> QED
  BY <1>2, InitBundle, NextBundle, PTL DEF TrailSpec

-----------------------------------------------------------------------------
(***************************************************************************)
(* Reliance on a quorum.  verify_quorum counts the items it was given; the *)
(* property counts evaluators.  The two agree because no two items have    *)
(* the same judge: the items inject into the evaluators.                   *)
(***************************************************************************)
Sound(j, r) ==
  /\ j \in attested
  /\ j.intent = r.intent /\ j.action = r.action
  /\ j.signer = Org /\ r.at < j.expires_at
  /\ j.distance <= Policy.max_distance
  /\ j.confidence >= Policy.min_confidence

Meant(r) ==
  /\ r.intent \in declared /\ r.intent.subject = r.agent /\ r.intent.declared_by # r.agent
  /\ r.intent.signer = Org /\ r.intent.issued_at <= r.at /\ r.at < r.intent.expires_at

QuorumOf(r) ==
  /\ Policy.quorum # 0
  /\ r.evidence \in Seq(attested) /\ Len(r.evidence) >= Policy.quorum
  /\ \A n \in 1..Len(r.evidence) :
       /\ Sound(r.evidence[n], r)
       /\ \A m \in 1..(n - 1) : r.evidence[m].evaluator # r.evidence[n].evaluator

AlignmentInv ==
  /\ date \in Nat
  /\ \A i \in declared : i \in Intents /\ i.declared_by # i.subject
  /\ \A r \in relied : QuorumOf(r) /\ Meant(r)

\* As many values as places, when no two places hold the same.
LEMMA DistinctCount ==
  ASSUME NEW n \in Nat, NEW f, f \in [1..n -> {f[k] : k \in 1..n}],
         \A k \in 1..n : \A m \in 1..(k - 1) : f[m] # f[k]
  PROVE  /\ IsFiniteSet({f[k] : k \in 1..n})
         /\ Cardinality({f[k] : k \in 1..n}) = n
<1> DEFINE S == {f[k] : k \in 1..n}
<1>1. IsFiniteSet(1..n) /\ Cardinality(1..n) = n
  BY FS_Interval
<1>2. f \in Surjection(1..n, S)
  BY DEF Surjection
<1>3. ASSUME NEW k \in 1..n, NEW m \in 1..n, f[k] = f[m] PROVE k = m
  <2>1. ~(k < m) /\ ~(m < k)
    BY <1>3
  <2> QED
    BY <2>1
<1>4. f \in Injection(1..n, S)
  BY <1>2, <1>3 DEF Surjection, Injection, IsInjective
<1> QED
  BY <1>1, <1>2, <1>4, FS_Surjection

LEMMA RelySound ==
  ASSUME AlignmentInv, NEW given \in Presented, NEW i \in declared, NEW a \in Actions,
         NEW agent \in Agents, Rely(given, i, a, agent)
  PROVE  AlignmentInv'
<1> DEFINE r == [evidence |-> given, intent |-> i, action |-> a, agent |-> agent,
                 at |-> date]
<1>1. relied' = {r} /\ UNCHANGED <<date, declared, attested>>
  BY DEF Rely
<1>2. /\ r.evidence = given /\ r.intent = i /\ r.action = a
      /\ r.agent = agent /\ r.at = date
  OBVIOUS
<1> HIDE DEF r
<1>3. given \in Seq(attested) /\ DOMAIN given = 1..Len(given)
  <2>1. PICK n \in Nat : given \in [1..n -> attested]
    BY AlignmentAssumption DEF Presented
  <2> QED
    BY <2>1
<1>4. QuorumVerifies(given, i, a, agent)
  BY DEF Rely
<1>5. QuorumOf(r)
  <2>1. Policy.quorum # 0 /\ Len(given) >= Policy.quorum
    BY <1>4 DEF QuorumVerifies
  <2>2. ASSUME NEW n \in 1..Len(given)
        PROVE  /\ Sound(given[n], r)
               /\ \A m \in 1..(n - 1) : given[m].evaluator # given[n].evaluator
    <3>1. /\ EvidenceVerifies(given[n], i, a, agent)
          /\ given[n].confidence >= Policy.min_confidence
          /\ \A m \in 1..(n - 1) : given[m].evaluator # given[n].evaluator
      BY <1>3, <1>4, <2>2 DEF QuorumVerifies, Judge
    <3>2. given[n] \in attested
      BY <1>3, <2>2
    <3> QED
      BY <1>2, <3>1, <3>2 DEF EvidenceVerifies, Sound
  <2> QED
    BY <1>2, <1>3, <2>1, <2>2 DEF QuorumOf
<1>6. Meant(r)
  <2>1. 1 \in 1..Len(given)
    BY <1>3, <1>4, AlignmentAssumption DEF QuorumVerifies
  <2>2. IntentVerifies(i) /\ i.subject = agent
    BY <1>3, <1>4, <2>1 DEF QuorumVerifies, EvidenceVerifies
  <2>3. i.issued_at \in Nat /\ i.expires_at \in Nat /\ i.declared_by # i.subject
    BY AlignmentAssumption DEF AlignmentInv
  <2>4. i.signer = Org /\ i.issued_at <= date /\ date < i.expires_at
    BY <2>2, <2>3 DEF IntentVerifies, AlignmentInv
  <2> QED
    BY <1>2, <2>2, <2>3, <2>4 DEF Meant
<1> QED
  BY <1>1, <1>5, <1>6 DEF AlignmentInv, QuorumOf, Meant, Sound

LEMMA NextAlignment == ASSUME AlignmentInv, [AlignmentNext]_alignmentVars PROVE AlignmentInv'
<1>1. ASSUME NEW i \in Intents, Declare(i) PROVE AlignmentInv'
  BY <1>1 DEF Declare, AlignmentInv, QuorumOf, Meant, Sound
<1>2. ASSUME NEW j \in Judgements, Attest(j) PROVE AlignmentInv'
  <2>1. attested' = attested \cup {j} /\ UNCHANGED <<date, declared, relied>>
    BY <1>2 DEF Attest
  <2>2. ASSUME NEW r \in relied PROVE QuorumOf(r)' /\ Meant(r)'
    <3>1. QuorumOf(r) /\ Meant(r)
      BY DEF AlignmentInv
    <3>2. r.evidence \in Seq(attested')
      BY <2>1, <3>1 DEF QuorumOf
    <3> QED
      BY <2>1, <3>1, <3>2 DEF QuorumOf, Meant, Sound
  <2> QED
    BY <2>1, <2>2 DEF AlignmentInv
<1>3. CASE Pass
  <2>1. UNCHANGED <<declared, attested, relied>>
    BY <1>3 DEF Pass
  <2>2. \A r \in relied : QuorumOf(r)' /\ Meant(r)'
    BY <2>1 DEF AlignmentInv, QuorumOf, Meant, Sound
  <2>3. date' \in Nat
    BY <1>3 DEF Pass, AlignmentInv
  <2> QED
    BY <2>1, <2>2, <2>3 DEF AlignmentInv
<1>4. CASE UNCHANGED alignmentVars
  BY <1>4 DEF alignmentVars, AlignmentInv, QuorumOf, Meant, Sound
<1> QED
  BY <1>1, <1>2, <1>3, <1>4, RelySound DEF AlignmentNext

\* verify_quorum: an action relied upon as aligned was judged so, against the
\* organization's own live word about this agent, by as many different evaluators
\* as the policy asks for.
THEOREM AlignedAlwaysJudged == AlignmentSpec => []AlignedIsJudged
<1>1. AlignmentInit => AlignmentInv
  BY DEF AlignmentInit, AlignmentInv
<1>2. AlignmentInv => AlignedIsJudged
  <2>1. SUFFICES ASSUME AlignmentInv, NEW r \in relied
                 PROVE  LET sound == {j \in attested : /\ j.intent = r.intent
                                                       /\ j.action = r.action
                                                       /\ j.signer = Org
                                                       /\ r.at < j.expires_at
                                                       /\ j.distance <= Policy.max_distance
                                                       /\ j.confidence >= Policy.min_confidence}
                            shown == {r.evidence[n] : n \in DOMAIN r.evidence}
                        IN  /\ Cardinality({j.evaluator : j \in sound \cap shown})
                                 >= IF Policy.quorum = 0 THEN 1 ELSE Policy.quorum
                            /\ Meant(r)
    BY DEF AlignedIsJudged, Meant
  <2> DEFINE sound == {j \in attested : Sound(j, r)}
             shown == {r.evidence[n] : n \in DOMAIN r.evidence}
             n == Len(r.evidence)
             f == [k \in 1..n |-> r.evidence[k].evaluator]
             who == {f[k] : k \in 1..n}
  <2>2. QuorumOf(r) /\ Meant(r)
    BY <2>1 DEF AlignmentInv
  <2>3. n \in Nat /\ DOMAIN r.evidence = 1..n
    BY <2>2 DEF QuorumOf
  <2>4. \A k \in 1..n : r.evidence[k] \in sound \cap shown
    BY <2>2, <2>3 DEF QuorumOf, Sound
  <2>5. who = {j.evaluator : j \in sound \cap shown}
    BY <2>3, <2>4
  <2>6. f \in [1..n -> {f[k] : k \in 1..n}]
    OBVIOUS
  <2>7. \A k \in 1..n : \A m \in 1..(k - 1) : f[m] # f[k]
    BY <2>2, <2>3 DEF QuorumOf
  <2>8. Cardinality(who) = n
    <3> HIDE DEF f, n
    <3> QED
      BY <2>3, <2>6, <2>7, DistinctCount
  <2>9. n >= Policy.quorum /\ Policy.quorum # 0
    BY <2>2 DEF QuorumOf
  <2> QED
    BY <2>2, <2>5, <2>8, <2>9 DEF Sound
<1> QED
  BY <1>1, <1>2, NextAlignment, PTL DEF AlignmentSpec

-----------------------------------------------------------------------------
(***************************************************************************)
(* Who answered.  A revision is told by its party and its number, a        *)
(* commitment by the whole of its revision, a head by the digests folded   *)
(* into it, and a digest by every field of its record but the presence of  *)
(* an empty action.  So a log that replays to a checkpoint repeats what    *)
(* was decided, whose claims are those of the credential, whose commitment *)
(* is to a revision there was.                                             *)
(***************************************************************************)
Member == UNION {ToSet(roster) : roster \in Rosters}
Revision == [party : Teams, version : Nat, members : SUBSET Member, salt : Salts]
Claim ==
  [party : Teams \cup {None}, version : Nat \cup {None},
   commitment : {PartyCommitment(o) : o \in Revision} \cup {None},
   source : {"asserted", "policy", None}]

Signals == {AdrSignalFor(ClassOf(e)) : e \in Errors} \cup {"signature_invalid"}
AnyVerdict == {"allow", "deny", None}
AnyDecision ==
  [decision : {"allow", "deny"}, reason : Errors \cup {None}, signals : SUBSET Signals,
   vc : Nat \cup {None}, action : {"", "tool", None},
   evaluation : AnyVerdict, admission : AnyVerdict,
   party : Teams \cup {None}, version : Nat \cup {None},
   commitment : {PartyCommitment(o) : o \in Revision} \cup {None},
   source : {"asserted", "policy", None}]

\* What is claimed of a revision is true of one there was.
Traced(claims) ==
  claims.commitment # None =>
    \E o \in revisions : /\ claims.party = o.party /\ claims.version = o.version
                         /\ claims.commitment = PartyCommitment(o)

LedgersInv ==
  /\ revisions \subseteq Revision /\ IsFiniteSet(revisions) /\ store \subseteq revisions
  /\ \A o \in revisions : o.version <= Latest(o.party)
  /\ \A o, p \in revisions : o.party = p.party /\ o.version = p.version => o = p

GrantedInv ==
  /\ granted \in Seq(Claim)
  /\ \A k \in 1..Len(granted) : Traced(granted[k])

AsGranted(d) == d.vc # None => d.vc \in 1..Len(granted) /\ ClaimsOf(d) = granted[d.vc]

DecidedInv ==
  /\ decided \in Seq(AnyDecision)
  /\ \A i \in 1..Len(decided) : Traced(decided[i]) /\ AsGranted(decided[i])

TapeOf(log) ==
  /\ log.count = Len(decided)
  /\ log.head \in Seq([seq : Nat, digest : AnyDecision]) /\ Len(log.head) = Len(decided)
  /\ \A i \in 1..Len(decided) : log.head[i] = [seq |-> i - 1, digest |-> Digest(decided[i])]

EvidenceInv ==
  /\ TapeOf(tape)
  /\ checkpoint # None => TapeOf(checkpoint)
  /\ written \in Seq(AnyDecision)

AccountInv == LedgersInv /\ GrantedInv /\ DecidedInv /\ EvidenceInv

LEMMA RevisionTold ==
  ASSUME NEW o \in Revision, NEW p \in Revision, PartyCommitment(o) = PartyCommitment(p)
  PROVE  o = p
BY DEF PartyCommitment, Revision

LEMMA DigestTyped ==
  ASSUME NEW d \in AnyDecision PROVE Digest(d) \in AnyDecision
BY DEF Digest, AnyDecision

LEMMA DigestTells ==
  ASSUME NEW d \in AnyDecision, NEW e \in AnyDecision, Digest(d) = Digest(e)
  PROVE  Answer(d) = Answer(e) /\ d.vc = e.vc /\ ClaimsOf(d) = ClaimsOf(e)
<1> DEFINE a == Digest(d)  b == Digest(e)
<1>1. /\ a.party = d.party /\ a.version = d.version /\ a.commitment = d.commitment
      /\ a.source = d.source /\ a.decision = d.decision /\ a.evaluation = d.evaluation
      /\ a.admission = d.admission /\ a.vc = d.vc
  BY DEF Digest, AnyDecision
<1>2. /\ b.party = e.party /\ b.version = e.version /\ b.commitment = e.commitment
      /\ b.source = e.source /\ b.decision = e.decision /\ b.evaluation = e.evaluation
      /\ b.admission = e.admission /\ b.vc = e.vc
  BY DEF Digest, AnyDecision
<1> HIDE DEF a, b
<1>3. a = b
  BY DEF a, b
<1> QED
  BY <1>1, <1>2, <1>3 DEF Answer, ClaimsOf

LEMMA ReviseInv ==
  ASSUME AccountInv, NEW party \in Teams, NEW roster \in Rosters, NEW salt \in Salts,
         Revise(party, roster, salt)
  PROVE  AccountInv'
<1>1. /\ revisions \subseteq Revision /\ IsFiniteSet(revisions) /\ store \subseteq revisions
      /\ \A p \in revisions : p.version <= Latest(p.party)
      /\ \A p, q \in revisions : p.party = q.party /\ p.version = q.version => p = q
  BY DEF AccountInv, LedgersInv
<1>2. ASSUME NEW team
      PROVE  IsFiniteSet({p \in revisions : p.party = team}) /\ Latest(team) \in Nat
  <2>1. IsFiniteSet({p \in revisions : p.party = team})
    BY <1>1, FS_Subset
  <2> QED
    BY <2>1, FS_CardinalityType DEF Latest
<1>3. PICK n \in Nat : n = Latest(party)
  BY <1>2
<1>4. PICK o : o = OwnershipRecord(party, n + 1, roster, salt)
  OBVIOUS
<1>5. /\ revisions' = revisions \cup {o} /\ store' = store \cup {o}
      /\ UNCHANGED <<granted, decided, tape, checkpoint, written>>
  BY <1>3, <1>4 DEF Revise, evidence
<1>6. o \in Revision /\ o.party = party /\ o.version = n + 1
  <2>1. Normalized(roster) \subseteq Member
    BY DEF Normalized, Member
  <2> QED
    BY <1>3, <1>4, <2>1 DEF OwnershipRecord, Revision
<1>7. ASSUME NEW p \in revisions, p.party = party PROVE p.version \in Nat /\ p.version <= n
  BY <1>1, <1>3, <1>7 DEF Revision
<1>8. o \notin revisions
  BY <1>3, <1>6, <1>7
<1>9. Latest(party)' = n + 1
  <2> DEFINE S == {p \in revisions : p.party = party}
  <2>1. {p \in revisions' : p.party = party} = S \cup {o}
    BY <1>5, <1>6
  <2>2. IsFiniteSet(S) /\ o \notin S /\ Cardinality(S) = n
    BY <1>2, <1>3, <1>8 DEF Latest
  <2> HIDE DEF S
  <2>3. Cardinality(S \cup {o}) = n + 1
    BY <2>2, FS_AddElement
  <2> QED
    BY <2>1, <2>3 DEF Latest
<1>10. ASSUME NEW team, team # party PROVE Latest(team)' = Latest(team)
  <2>1. {p \in revisions' : p.party = team} = {p \in revisions : p.party = team}
    BY <1>5, <1>6, <1>10
  <2> QED
    BY <2>1 DEF Latest
<1>11. LedgersInv'
  <2>1. revisions' \subseteq Revision /\ IsFiniteSet(revisions') /\ store' \subseteq revisions'
    BY <1>1, <1>5, <1>6, FS_AddElement
  <2>2. ASSUME NEW p \in revisions' PROVE p.version <= Latest(p.party)'
    <3>1. CASE p.party = party
      <4>1. Latest(p.party)' = n + 1
        BY <1>9, <3>1
      <4>2. p.version \in Nat /\ p.version <= n + 1
        BY <1>3, <1>5, <1>6, <1>7, <3>1
      <4> QED
        BY <4>1, <4>2
    <3>2. CASE p.party # party
      BY <1>1, <1>5, <1>6, <1>10, <3>2
    <3> QED
      BY <3>1, <3>2
  <2>3. ASSUME NEW p \in revisions, p.party = o.party PROVE p.version # o.version
    BY <1>3, <1>6, <1>7, <2>3
  <2>4. \A p, q \in revisions' : p.party = q.party /\ p.version = q.version => p = q
    BY <1>1, <1>5, <2>3
  <2> QED
    BY <2>1, <2>2, <2>4 DEF LedgersInv
<1>12. \A claims : Traced(claims) => Traced(claims)'
  BY <1>5 DEF Traced
<1>13. GrantedInv' /\ DecidedInv'
  BY <1>5, <1>12 DEF AccountInv, GrantedInv, DecidedInv, AsGranted
<1>14. EvidenceInv'
  BY <1>5 DEF AccountInv, EvidenceInv, TapeOf
<1> QED
  BY <1>11, <1>13, <1>14 DEF AccountInv

LEMMA EraseInv ==
  ASSUME AccountInv, NEW o \in store, Erase(o)
  PROVE  AccountInv'
<1>1. /\ store' \subseteq store
      /\ UNCHANGED <<revisions, granted, decided, tape, checkpoint, written>>
  BY DEF Erase, evidence
<1> QED
  BY <1>1 DEF AccountInv, LedgersInv, Latest, GrantedInv, Traced, DecidedInv, AsGranted,
              EvidenceInv, TapeOf

LEMMA ClaimsTrue ==
  ASSUME LedgersInv, NEW claims \in Claims
  PROVE  claims \in Claim /\ Traced(claims)
<1>1. ASSUME NEW party \in Teams \cup {None}, claims = Named(party, "asserted")
      PROVE  claims \in Claim /\ Traced(claims)
  BY <1>1 DEF Named, Claim, Traced
<1>2. ASSUME NEW o \in store, NEW source \in {"asserted", "policy"},
             claims = ByRecord(o, source)
      PROVE  claims \in Claim /\ Traced(claims)
  <2>1. o \in revisions /\ o \in Revision /\ o.party \in Teams /\ o.version \in Nat
    BY DEF LedgersInv, Revision
  <2>2. claims = [party |-> o.party, version |-> o.version,
                  commitment |-> PartyCommitment(o), source |-> source]
    BY <1>2 DEF ByRecord
  <2>3. claims \in Claim
    BY <2>1, <2>2 DEF Claim
  <2> QED
    BY <2>1, <2>2, <2>3 DEF Traced
<1> QED
  BY <1>1, <1>2 DEF Claims

LEMMA GrantInv ==
  ASSUME AccountInv, Grant
  PROVE  AccountInv'
<1>1. PICK claims \in Claims : granted' = Append(granted, claims)
  BY DEF Grant
<1>2. UNCHANGED <<store, revisions, decided, tape, checkpoint, written>>
  BY DEF Grant, ledgers, evidence
<1>3. claims \in Claim /\ Traced(claims)
  BY ClaimsTrue DEF AccountInv
<1>4. granted \in Seq(Claim) /\ Len(granted) \in Nat
  BY DEF AccountInv, GrantedInv
<1>5. /\ granted' \in Seq(Claim) /\ Len(granted') = Len(granted) + 1
      /\ granted'[Len(granted) + 1] = claims
      /\ \A k \in 1..Len(granted) : granted'[k] = granted[k]
  BY <1>1, <1>3, <1>4
<1>6. \A c : Traced(c)' = Traced(c)
  BY <1>2 DEF Traced
<1>7. GrantedInv'
  <2>1. ASSUME NEW k \in 1..Len(granted') PROVE Traced(granted'[k])
    BY <1>3, <1>4, <1>5, <2>1 DEF AccountInv, GrantedInv
  <2> QED
    BY <1>5, <1>6, <2>1 DEF GrantedInv
<1>8. DecidedInv'
  <2>1. \A d : AsGranted(d) => AsGranted(d)'
    BY <1>4, <1>5 DEF AsGranted
  <2> QED
    BY <1>2, <1>6, <2>1 DEF AccountInv, DecidedInv
<1>9. LedgersInv' /\ EvidenceInv'
  BY <1>2 DEF AccountInv, LedgersInv, Latest, EvidenceInv, TapeOf
<1> QED
  BY <1>7, <1>8, <1>9 DEF AccountInv

LEMMA OutcomesTrue ==
  ASSUME GrantedInv, NEW d \in Outcomes
  PROVE  d \in AnyDecision /\ Traced(d) /\ AsGranted(d)
<1>1. "ActionDenied" \in Errors /\ Failures \subseteq Errors
  BY AccountabilityAssumption DEF Errors
<1>2. ASSUME NEW error \in Errors \cup {None}, NEW vc \in Nat \cup {None}
      PROVE  /\ Decision(error, vc) \in AnyDecision
             /\ Decision(error, vc).commitment = None /\ Decision(error, vc).vc = vc
  <2>1. PICK signals \in SUBSET Signals :
          signals = IF error = None THEN {} ELSE {AdrSignalFor(ClassOf(error))}
    BY DEF Signals
  <2>2. PICK verdict \in {"allow", "deny"} :
          verdict = IF error = None THEN "allow" ELSE "deny"
    OBVIOUS
  <2> QED
    BY <2>1, <2>2 DEF Decision, AnyDecision, AnyVerdict
<1>3. CASE d = Deny("signature_invalid")
  <2>1. Decision(None, None) \in AnyDecision /\ Decision(None, None).commitment = None
        /\ Decision(None, None).vc = None
    BY <1>2
  <2>2. "signature_invalid" \in Signals
    BY DEF Signals
  <2>3. d = [Decision(None, None) EXCEPT !.decision = "deny", !.signals = {"signature_invalid"}]
    BY <1>3 DEF Deny
  <2>4. d \in AnyDecision /\ d.commitment = None /\ d.vc = None
    BY <2>1, <2>2, <2>3 DEF AnyDecision
  <2> QED
    BY <2>4 DEF Traced, AsGranted
<1>4. ASSUME NEW vc \in DOMAIN granted, NEW v \in Verdicts, NEW error \in Errors \cup {None},
             d = WithVerdicts(WithAccountability(WithAction(Decision(error, vc)), granted[vc]),
                              v[1], v[2])
      PROVE  d \in AnyDecision /\ Traced(d) /\ AsGranted(d)
  <2>1. vc \in 1..Len(granted) /\ vc \in Nat
    BY DEF GrantedInv
  <2>2. PICK c \in Claim : c = granted[vc]
    BY <2>1 DEF GrantedInv
  <2>3. v[1] \in AnyVerdict /\ v[2] \in AnyVerdict
    BY DEF Verdicts, AnyVerdict
  <2>4. PICK e \in AnyDecision : e = Decision(error, vc) /\ e.vc = vc
    BY <1>2, <2>1
  <2>5. PICK f \in AnyDecision : f = WithAction(e) /\ f.vc = vc
    <3>1. WithAction(e) \in AnyDecision /\ WithAction(e).vc = e.vc
      BY DEF WithAction, AnyDecision
    <3> QED
      BY <2>4, <3>1
  <2>6. PICK g \in AnyDecision : /\ g = WithAccountability(f, c) /\ g.vc = vc
                                 /\ g.party = c.party /\ g.version = c.version
                                 /\ g.commitment = c.commitment /\ g.source = c.source
    <3> DEFINE h == WithAccountability(f, c)
    <3>1. h \in AnyDecision
      BY DEF WithAccountability, AnyDecision, Claim
    <3>2. /\ h.vc = f.vc /\ h.party = c.party /\ h.version = c.version
          /\ h.commitment = c.commitment /\ h.source = c.source
      BY DEF WithAccountability, AnyDecision, Claim
    <3> QED
      BY <2>5, <3>1, <3>2
  <2>7. /\ d \in AnyDecision /\ d.vc = vc
        /\ d.party = c.party /\ d.version = c.version
        /\ d.commitment = c.commitment /\ d.source = c.source
    <3>1. d = WithVerdicts(g, v[1], v[2])
      BY <1>4, <2>2, <2>4, <2>5, <2>6
    <3>2. PICK x \in AnyVerdict, y \in AnyVerdict :
            d = WithVerdicts(g, x, y)
      BY <2>3, <3>1
    <3> DEFINE h == WithVerdicts(g, x, y)
    <3>3. h \in AnyDecision
      BY DEF WithVerdicts, AnyDecision
    <3>4. /\ h.vc = g.vc /\ h.party = g.party /\ h.version = g.version
          /\ h.commitment = g.commitment /\ h.source = g.source
      BY DEF WithVerdicts, AnyDecision
    <3> QED
      BY <2>6, <3>2, <3>3, <3>4
  <2>8. ClaimsOf(d) = c
    BY <2>7 DEF ClaimsOf, Claim
  <2>9. Traced(c)
    BY <2>1, <2>2 DEF GrantedInv
  <2> QED
    BY <2>1, <2>2, <2>7, <2>8, <2>9 DEF Traced, AsGranted
<1>5. d # Deny("signature_invalid") =>
        \E vc \in DOMAIN granted, v \in Verdicts, error \in Errors \cup {None} :
          d = WithVerdicts(WithAccountability(WithAction(Decision(error, vc)), granted[vc]),
                           v[1], v[2])
  BY <1>1 DEF Outcomes
<1> QED
  BY <1>3, <1>4, <1>5

LEMMA RecordInv ==
  ASSUME AccountInv, Record
  PROVE  AccountInv'
<1>1. PICK d \in Outcomes : /\ decided' = Append(decided, d) /\ written' = Append(written, d)
                            /\ tape' = Recorded(tape, Digest(d))
  BY DEF Record
<1>2. UNCHANGED <<store, revisions, granted>> /\ checkpoint' = SignCheckpoint(tape', Auditee)
  BY DEF Record, ledgers
<1>3. d \in AnyDecision /\ Traced(d) /\ AsGranted(d)
  BY OutcomesTrue DEF AccountInv
<1>4. /\ decided \in Seq(AnyDecision) /\ written \in Seq(AnyDecision) /\ Len(decided) \in Nat
      /\ TapeOf(tape)
  BY DEF AccountInv, DecidedInv, EvidenceInv
<1>5. /\ decided' \in Seq(AnyDecision) /\ Len(decided') = Len(decided) + 1
      /\ decided'[Len(decided) + 1] = d
      /\ \A i \in 1..Len(decided) : decided'[i] = decided[i]
      /\ written' \in Seq(AnyDecision)
  BY <1>1, <1>3, <1>4
<1>6. LedgersInv' /\ GrantedInv'
  BY <1>2 DEF AccountInv, LedgersInv, Latest, GrantedInv, Traced
<1>7. DecidedInv'
  <2>1. ASSUME NEW i \in 1..Len(decided') PROVE Traced(decided'[i]) /\ AsGranted(decided'[i])
    BY <1>3, <1>4, <1>5, <2>1 DEF AccountInv, DecidedInv
  <2> QED
    BY <1>2, <1>5, <2>1 DEF DecidedInv, Traced, AsGranted
<1>8. TapeOf(tape)'
  <2> DEFINE r == [seq |-> tape.count, digest |-> Digest(d)]
  <2>1. r \in [seq : Nat, digest : AnyDecision]
    BY <1>3, <1>4, DigestTyped DEF TapeOf
  <2>2. r = [seq |-> Len(decided), digest |-> Digest(d)]
    BY <1>4 DEF TapeOf
  <2>3. tape'.count = tape.count + 1 /\ tape'.head = Append(tape.head, r)
    BY <1>1 DEF Recorded, Fold
  <2> HIDE DEF r
  <2> DEFINE head == Append(tape.head, r)
  <2>4. /\ head \in Seq([seq : Nat, digest : AnyDecision]) /\ Len(head) = Len(decided) + 1
        /\ head[Len(decided) + 1] = r
        /\ \A i \in 1..Len(decided) : head[i] = tape.head[i]
    BY <1>4, <2>1 DEF TapeOf
  <2>5. tape'.head = head /\ tape'.count = Len(decided) + 1
    BY <1>4, <2>3 DEF TapeOf
  <2> HIDE DEF head
  <2>6. ASSUME NEW i \in 1..(Len(decided) + 1)
        PROVE  head[i] = [seq |-> i - 1, digest |-> Digest(decided'[i])]
    <3>1. CASE i = Len(decided) + 1
      BY <1>4, <1>5, <2>2, <2>4, <3>1
    <3>2. CASE i # Len(decided) + 1
      <4>1. i \in 1..Len(decided)
        BY <1>4, <3>2
      <4>2. tape.head[i] = [seq |-> i - 1, digest |-> Digest(decided[i])]
        BY <1>4, <4>1 DEF TapeOf
      <4> QED
        BY <1>5, <2>4, <4>1, <4>2
    <3> QED
      BY <3>1, <3>2
  <2> QED
    BY <1>5, <2>4, <2>5, <2>6 DEF TapeOf
<1>9. TapeOf(checkpoint)'
  <2>1. checkpoint'.count = tape'.count /\ checkpoint'.head = tape'.head
    BY <1>2 DEF SignCheckpoint
  <2> QED
    BY <1>8, <2>1 DEF TapeOf
<1>10. EvidenceInv'
  BY <1>5, <1>8, <1>9 DEF EvidenceInv
<1> QED
  BY <1>6, <1>7, <1>10 DEF AccountInv

LEMMA EditInv ==
  ASSUME AccountInv, Edit
  PROVE  AccountInv'
<1>1. written \in Seq(AnyDecision) /\ revisions \subseteq Revision
  BY DEF AccountInv, EvidenceInv, LedgersInv
<1>2. written' \in Seq(AnyDecision)
  <2>1. ASSUME NEW i \in DOMAIN written,
               NEW field \in {"party", "version", "commitment", "source",
                              "decision", "action", "evaluation", "admission"},
               NEW value \in Domain(field),
               written' = [written EXCEPT ![i][field] = value]
        PROVE  written' \in Seq(AnyDecision)
    <3>1. PICK d \in AnyDecision : d = written[i]
      BY <1>1
    <3>2. [d EXCEPT ![field] = value] \in AnyDecision
      <4>1. CASE field = "party"
        <5>1. value \in Teams \cup {None}
          BY <2>1, <4>1 DEF Domain
        <5> QED
          BY <4>1, <5>1 DEF AnyDecision
      <4>2. CASE field = "version"
        <5>1. value \in Nat \cup {None}
          BY <2>1, <4>2, AccountabilityAssumption DEF Domain
        <5> QED
          BY <4>2, <5>1 DEF AnyDecision
      <4>3. CASE field = "commitment"
        <5>1. value \in {PartyCommitment(o) : o \in Revision} \cup {None}
          BY <2>1, <4>3, <1>1 DEF Domain
        <5> QED
          BY <4>3, <5>1 DEF AnyDecision
      <4>4. CASE field = "source"
        <5>1. value \in {"asserted", "policy", None}
          BY <2>1, <4>4 DEF Domain
        <5> QED
          BY <4>4, <5>1 DEF AnyDecision
      <4>5. CASE field = "decision"
        <5>1. value \in {"allow", "deny"}
          BY <2>1, <4>5 DEF Domain
        <5> QED
          BY <4>5, <5>1 DEF AnyDecision
      <4>6. CASE field = "action"
        <5>1. value \in {"", "tool", None}
          BY <2>1, <4>6 DEF Domain
        <5> QED
          BY <4>6, <5>1 DEF AnyDecision
      <4>7. CASE field = "evaluation"
        <5>1. value \in AnyVerdict
          BY <2>1, <4>7 DEF Domain, AnyVerdict
        <5> QED
          BY <4>7, <5>1 DEF AnyDecision
      <4>8. CASE field = "admission"
        <5>1. value \in AnyVerdict
          BY <2>1, <4>8 DEF Domain, AnyVerdict
        <5> QED
          BY <4>8, <5>1 DEF AnyDecision
      <4> QED
        BY <2>1, <4>1, <4>2, <4>3, <4>4, <4>5, <4>6, <4>7, <4>8
    <3>3. PICK e \in AnyDecision : written' = [written EXCEPT ![i] = e]
      BY <2>1, <3>1, <3>2
    <3>4. DOMAIN written = 1..Len(written) /\ Len(written) \in Nat
      BY <1>1
    <3>5. written' \in [1..Len(written) -> AnyDecision]
      BY <1>1, <3>3, <3>4
    <3> QED
      BY <3>4, <3>5
  <2>2. CASE written' = Reverse(written)
    BY <1>1, <2>2 DEF Reverse
  <2>3. ASSUME NEW i \in DOMAIN written, written' = RemoveAt(written, i)
        PROVE  written' \in Seq(AnyDecision)
    BY <1>1, <2>3 DEF RemoveAt
  <2> QED
    BY <2>1, <2>2, <2>3 DEF Edit
<1>3. UNCHANGED <<store, revisions, granted, decided, tape, checkpoint>>
  BY DEF Edit, ledgers
<1> QED
  BY <1>2, <1>3 DEF AccountInv, LedgersInv, Latest, GrantedInv, Traced, DecidedInv, AsGranted,
                    EvidenceInv, TapeOf

LEMMA InitAccount == AccountabilityInit => AccountInv
<1> SUFFICES ASSUME AccountabilityInit PROVE AccountInv
  OBVIOUS
<1>1. LedgersInv
  BY FS_EmptySet DEF AccountabilityInit, LedgersInv
<1>2. GrantedInv /\ DecidedInv /\ EvidenceInv
  BY DEF AccountabilityInit, GrantedInv, DecidedInv, EvidenceInv, TapeOf, NewStream, Genesis
<1> QED
  BY <1>1, <1>2 DEF AccountInv

LEMMA NextAccount == AccountInv /\ [AccountabilityNext]_accountabilityVars => AccountInv'
<1> SUFFICES ASSUME AccountInv, [AccountabilityNext]_accountabilityVars PROVE AccountInv'
  OBVIOUS
<1>1. CASE UNCHANGED accountabilityVars
  BY <1>1 DEF accountabilityVars, ledgers, evidence, AccountInv, LedgersInv, Latest, GrantedInv,
              Traced, DecidedInv, AsGranted, EvidenceInv, TapeOf
<1> QED
  BY <1>1, ReviseInv, EraseInv, GrantInv, RecordInv, EditInv DEF AccountabilityNext

\* verify_full and what an auditor reads: a log that replays to a signed checkpoint says
\* of each decision who answered for it, as decided and as issued, and one revision
\* alone, the one of then, opens the commitment, however records were edited since.
THEOREM AnswersAlwaysAsIssued == AccountabilitySpec => []AnswersAreAsIssued
<1>1. ASSUME AccountInv, Chained(written), NEW i \in DOMAIN written
      PROVE  LET d == written[i] IN
             /\ Answer(d) = Answer(decided[i])
             /\ d.vc # None => ClaimsOf(d) = granted[d.vc]
             /\ d.commitment # None =>
                  /\ \A o \in Producible : Matches(o, d.commitment) =>
                       o \in revisions /\ o.party = d.party /\ o.version = d.version
                  /\ \A o \in store, roster \in Rosters :
                       /\ o.party = d.party /\ o.version = d.version
                       /\ ToSet(roster) = o.members
                       => Matches(OwnershipRecord(o.party, o.version, roster, o.salt),
                                  d.commitment)
  <2>1. /\ written \in Seq(AnyDecision) /\ decided \in Seq(AnyDecision)
        /\ revisions \subseteq Revision /\ store \subseteq revisions
    BY <1>1 DEF AccountInv, LedgersInv, DecidedInv, EvidenceInv
  <2>2. TapeOf(checkpoint) /\ Len(written) = Len(decided)
    BY <1>1 DEF Chained, AccountInv, EvidenceInv, TapeOf
  <2>3. i \in 1..Len(written) /\ i \in 1..Len(decided)
    BY <1>1, <2>1, <2>2
  <2>4. PICK d \in AnyDecision : d = written[i]
    BY <2>1, <2>3
  <2>5. PICK e \in AnyDecision : e = decided[i] /\ Traced(e) /\ AsGranted(e)
    BY <1>1, <2>1, <2>3 DEF AccountInv, DecidedInv
  <2>6. Digest(d) = Digest(e)
    <3> DEFINE log == [k \in DOMAIN written |-> [seq |-> k - 1, digest |-> Digest(written[k])]]
    <3>1. checkpoint.head = Replay(log)
      BY <1>1 DEF Chained
    <3>2. log[i] = [seq |-> i - 1, digest |-> Digest(d)]
      BY <1>1, <2>4
    <3>3. DOMAIN log = DOMAIN written
      OBVIOUS
    <3> HIDE DEF log
    <3>4. Replay(log)[i] = [seq |-> log[i].seq, digest |-> log[i].digest]
      BY <1>1, <3>3 DEF Replay
    <3>5. checkpoint.head[i] = [seq |-> i - 1, digest |-> Digest(e)]
      BY <2>2, <2>3, <2>5 DEF TapeOf
    <3>6. [seq |-> i - 1, digest |-> Digest(e)].digest = log[i].digest
      BY <3>1, <3>4, <3>5
    <3> QED
      BY <3>2, <3>6
  <2>7. Answer(d) = Answer(e) /\ d.vc = e.vc /\ ClaimsOf(d) = ClaimsOf(e)
    BY <2>6, DigestTells
  <2>8. d.party = e.party /\ d.version = e.version /\ d.commitment = e.commitment
    BY <2>7 DEF Answer
  <2>9. d.vc # None => ClaimsOf(d) = granted[d.vc]
    BY <2>5, <2>7 DEF AsGranted
  <2>10. ASSUME d.commitment # None
         PROVE  /\ \A o \in Producible : Matches(o, d.commitment) =>
                     o \in revisions /\ o.party = d.party /\ o.version = d.version
                /\ \A o \in store, roster \in Rosters :
                     /\ o.party = d.party /\ o.version = d.version
                     /\ ToSet(roster) = o.members
                     => Matches(OwnershipRecord(o.party, o.version, roster, o.salt),
                                d.commitment)
    <3>1. PICK r \in revisions : /\ d.party = r.party /\ d.version = r.version
                                 /\ d.commitment = PartyCommitment(r)
      BY <2>5, <2>8, <2>10 DEF Traced
    <3>2. r \in Revision
      BY <2>1
    <3>3. ASSUME NEW o \in Producible, Matches(o, d.commitment) PROVE o = r
      <4>1. o \in Revision
        BY AccountabilityAssumption DEF Producible, OwnershipRecord, Normalized, Revision, Member
      <4> QED
        BY <3>1, <3>2, <3>3, <4>1, RevisionTold DEF Matches
    <3>4. ASSUME NEW o \in store, NEW roster \in Rosters, o.party = d.party,
                 o.version = d.version, ToSet(roster) = o.members
          PROVE  Matches(OwnershipRecord(o.party, o.version, roster, o.salt), d.commitment)
      <4>1. o = r
        BY <1>1, <2>1, <3>1, <3>4 DEF AccountInv, LedgersInv
      <4>2. PartyCommitment(OwnershipRecord(o.party, o.version, roster, o.salt))
              = PartyCommitment(r)
        BY <3>4, <4>1 DEF PartyCommitment, OwnershipRecord, Normalized
      <4> QED
        BY <3>1, <4>2 DEF Matches
    <3> QED
      BY <3>1, <3>3, <3>4
  <2> QED
    BY <2>4, <2>5, <2>7, <2>9, <2>10
<1>2. AccountInv => AnswersAreAsIssued
  BY <1>1 DEF AnswersAreAsIssued
<1> QED
  BY <1>2, InitAccount, NextAccount, PTL DEF AccountabilitySpec

-----------------------------------------------------------------------------
(***************************************************************************)
(* Custody.  Entries have numbers of their own per organization, so Before *)
(* is a total order of them, what ingest leaves is in that order and there *)
(* is one such sequence of a set.  What verifies has the second it was     *)
(* signed with; where two parties have other times for one entry, but no   *)
(* second entry of that second, the order of either is that of both.       *)
(***************************************************************************)
Digests == [second : Int, salt : Nat]
Bare == [org : Orgs, seq : Nat, time : Int, commitment : Digests]
Entry == {e \in Bare : Second(e.time) = e.commitment.second}

\* What circulates was signed for an entry, whatever became of its time.
Circulating(c) ==
  /\ c.entry \in Bare
  /\ \E e \in Entry : c.signature = [by |-> e.org, over |-> SigningPayload(e)]

LEMMA SecondOrders ==
  ASSUME NEW a \in Int, NEW b \in Int
  PROVE  Second(a) \in Int /\ (a <= b => Second(a) <= Second(b))
<1> DEFINE P == PerSecond
<1>1. P \in Nat /\ P > 0
  BY CustodyAssumption
<1> HIDE DEF P
<1>2. \A x \in Int : x \div P \in Int /\ P * (x \div P) <= x /\ x < P * (x \div P) + P
  BY <1>1
<1> PICK q \in Int, r \in Int : q = a \div P /\ r = b \div P
  BY <1>2
<1>3. P * q <= a /\ a < P * q + P /\ P * r <= b /\ b < P * r + P
  BY <1>2
<1>4. ASSUME a <= b, r < q PROVE FALSE
  <2>1. q - r - 1 \in Nat
    BY <1>4
  <2>2. P * (q - r - 1) >= 0
    BY <1>1, <2>1
  <2>3. P * (q - r - 1) = P * q - P * r - P
    BY <1>1
  <2> QED
    BY <1>1, <1>3, <1>4, <2>2, <2>3
<1> QED
  BY <1>4 DEF Second, P

Same(a, b) == a.org = b.org /\ a.seq = b.seq

\* No number twice.
Numbered(s) == \A i, j \in 1..Len(s) : Same(s[i], s[j]) => i = j
Increasing(s) == \A i, j \in 1..Len(s) : i < j => Before(s[i], s[j])

Chains == {s \in Seq(Entry) : Numbered(s)}

LEMMA BeforeOrders ==
  ASSUME NEW a \in Entry, NEW b \in Entry
  PROVE  /\ ~(Before(a, b) /\ Before(b, a))
         /\ Before(a, b) \/ Before(b, a) \/ Same(a, b)
         /\ \A c \in Entry : Before(a, b) /\ Before(b, c) => Before(a, c)
<1>1. ASSUME NEW c \in Entry
      PROVE  c.org \in Orgs /\ c.seq \in Nat /\ c.time \in Int /\ Rank[c.org] \in Nat
  BY CustodyAssumption DEF Entry, Bare
<1>2. \A o, p \in Orgs : Rank[o] = Rank[p] => o = p
  BY CustodyAssumption
<1>3. ~(Before(a, b) /\ Before(b, a))
  BY <1>1 DEF Before
<1>4. Before(a, b) \/ Before(b, a) \/ Same(a, b)
  BY <1>1, <1>2 DEF Before, Same
<1>5. ASSUME NEW c \in Entry, Before(a, b), Before(b, c) PROVE Before(a, c)
  BY <1>1, <1>5 DEF Before
<1> QED
  BY <1>3, <1>4, <1>5

LEMMA SortedHolds ==
  ASSUME NEW s \in Chains
  PROVE  Sorted(s) \in Chains /\ Increasing(Sorted(s)) /\ Ran(Sorted(s)) = Ran(s)
<1> DEFINE K == DOMAIN s
           Upto(i) == {j \in K : \/ Before(s[j], s[i])
                                 \/ j <= i /\ ~Before(s[i], s[j])}
           upto == [i \in K |-> Upto(i)]
           place == [i \in K |-> Cardinality(Upto(i))]
           at == [k \in 1..Cardinality(K) |-> CHOOSE i \in K : place[i] = k]
<1>1. K = 1..Len(s) /\ Len(s) \in Nat /\ s \in Seq(Entry) /\ Numbered(s)
  BY DEF Chains
<1>2. IsFiniteSet(K) /\ Cardinality(K) = Len(s)
  BY <1>1, FS_Interval
<1>3. \A i \in K : s[i] \in Entry
  BY <1>1
<1>4. ASSUME NEW i \in K, NEW j \in K
      PROVE  j \in Upto(i) <=> (j = i \/ Before(s[j], s[i]))
  <2>1. i \in Nat /\ j \in Nat
    BY <1>1
  <2>2. j # i => Before(s[j], s[i]) \/ Before(s[i], s[j])
    BY <1>1, <1>3, BeforeOrders DEF Numbered
  <2>3. j = i => ~Before(s[i], s[j])
    BY <1>3, BeforeOrders
  <2> QED
    BY <2>1, <2>2, <2>3
<1> HIDE DEF Upto
<1>5. Total(K, upto)
  <2>1. upto \in [K -> SUBSET K]
    BY DEF Upto
  <2>2. \A i \in K : i \in upto[i]
    BY <1>4
  <2>3. \A i, j \in K : i \in upto[j] \/ j \in upto[i]
    BY <1>1, <1>3, <1>4, BeforeOrders DEF Numbered
  <2>4. ASSUME NEW i \in K, NEW j \in K, i \in upto[j], j \in upto[i] PROVE i = j
    BY <1>3, <1>4, <2>4, BeforeOrders
  <2>5. ASSUME NEW i \in K, NEW j \in K, i \in upto[j], NEW k \in upto[i] PROVE k \in upto[j]
    <3>1. k \in K
      BY <2>1
    <3>2. i = j \/ Before(s[i], s[j])
      BY <1>4, <2>5
    <3>3. k = i \/ Before(s[k], s[i])
      BY <1>4, <2>5, <3>1
    <3>4. k = j \/ Before(s[k], s[j])
      BY <1>3, <3>1, <3>2, <3>3, BeforeOrders
    <3> QED
      BY <1>4, <3>1, <3>4
  <2> QED
    BY <2>1, <2>2, <2>3, <2>4, <2>5 DEF Total
<1>6. /\ place = [i \in K |-> Cardinality(upto[i])]
      /\ \A k \in 1..Cardinality(K) :
           (\E i \in K : place[i] = k) => at[k] \in K /\ place[at[k]] = k
  OBVIOUS
<1>7. Sorted(s) = [k \in 1..Cardinality(K) |-> s[at[k]]]
  BY DEF Sorted, Arranged, Upto
<1>8. /\ \A k \in 1..Cardinality(K) : at[k] \in K
      /\ \A i \in K : \E k \in 1..Cardinality(K) : at[k] = i
      /\ \A k, m \in 1..Cardinality(K) : k < m => at[k] \in upto[at[m]] /\ at[k] # at[m]
  <2> HIDE DEF K, upto, place, at
  <2> QED
    BY <1>2, <1>5, <1>6, Ranking
<1>9. ASSUME NEW k \in 1..Len(s), NEW m \in 1..Len(s), k < m
      PROVE  Before(s[at[k]], s[at[m]])
  <2> HIDE DEF K, at
  <2>1. at[k] \in K /\ at[m] \in K /\ at[k] \in upto[at[m]] /\ at[k] # at[m]
    BY <1>2, <1>8, <1>9
  <2>2. at[k] \in Upto(at[m])
    BY <2>1
  <2> QED
    BY <1>4, <2>1, <2>2
<1> PICK n \in Nat : n = Len(s)
  BY <1>1
<1> DEFINE t == Sorted(s)
<1> HIDE DEF K, upto, place, at, t
<1>10. t \in [1..n -> Entry] /\ \A k \in 1..n : t[k] = s[at[k]]
  BY <1>2, <1>3, <1>7, <1>8 DEF t
<1>11. t \in Seq(Entry) /\ Len(t) = n
  BY <1>10
<1>12. Increasing(t)
  BY <1>9, <1>10, <1>11 DEF Increasing
<1>13. Numbered(t)
  <2>1. ASSUME NEW i \in 1..n, NEW j \in 1..n, i < j PROVE ~Same(t[i], t[j])
    <3>1. at[i] # at[j] /\ at[i] \in 1..n /\ at[j] \in 1..n
      BY <1>1, <1>2, <1>8, <2>1
    <3> QED
      BY <1>1, <1>10, <3>1 DEF Numbered
  <2>2. \A i, j \in 1..n : Same(t[i], t[j]) => Same(t[j], t[i])
    BY DEF Same
  <2> QED
    BY <1>11, <2>1, <2>2 DEF Numbered
<1>14. Ran(t) = Ran(s)
  <2>1. ASSUME NEW k \in 1..n PROVE t[k] \in Ran(s)
    BY <1>1, <1>2, <1>8, <1>10 DEF Ran
  <2>2. ASSUME NEW i \in 1..n PROVE s[i] \in Ran(t)
    <3>1. PICK k \in 1..n : at[k] = i
      BY <1>1, <1>2, <1>8
    <3>2. t[k] = s[i]
      BY <1>10, <3>1
    <3> QED
      BY <1>11, <3>2 DEF Ran
  <2>3. ASSUME NEW x \in Ran(t) PROVE x \in Ran(s)
    <3>1. PICK k \in 1..n : x = t[k]
      BY <1>11 DEF Ran
    <3> QED
      BY <2>1, <3>1
  <2>4. ASSUME NEW x \in Ran(s) PROVE x \in Ran(t)
    <3>1. PICK i \in 1..n : x = s[i]
      BY <1>11 DEF Ran
    <3> QED
      BY <2>2, <3>1
  <2> QED
    BY <2>3, <2>4
<1> QED
  BY <1>11, <1>12, <1>13, <1>14 DEF Chains, t

LEMMA SortedUnique ==
  ASSUME NEW s \in Chains, Increasing(s), NEW t \in Chains, Increasing(t), Ran(s) = Ran(t)
  PROVE  s = t
<1>1. ASSUME NEW u \in Chains, Increasing(u)
      PROVE  /\ u \in Seq(Entry) /\ Len(u) \in Nat /\ Cardinality(Ran(u)) = Len(u)
             /\ \A i \in 1..Len(u) : Cardinality({e \in Ran(u) : Before(e, u[i])}) = i - 1
  <2>1. u \in Seq(Entry) /\ Len(u) \in Nat /\ Numbered(u)
    BY DEF Chains
  <2>2. \A i, j \in 1..Len(u) : j < i => u[j] # u[i]
    BY <2>1 DEF Numbered, Same
  <2>3. Cardinality(Ran(u)) = Len(u)
    <3>1. u \in [1..Len(u) -> {u[k] : k \in 1..Len(u)}]
      BY <2>1
    <3>2. \A k \in 1..Len(u) : \A m \in 1..(k - 1) : u[m] # u[k]
      BY <2>1, <2>2
    <3> QED
      BY <2>1, <3>1, <3>2, DistinctCount DEF Ran
  <2>4. ASSUME NEW i \in 1..Len(u)
        PROVE  Cardinality({e \in Ran(u) : Before(e, u[i])}) = i - 1
    <3> DEFINE f == [k \in 1..(i - 1) |-> u[k]]
    <3>1. i - 1 \in Nat /\ \A k \in 1..(i - 1) : k \in 1..Len(u) /\ k < i /\ f[k] = u[k]
      BY <2>1
    <3>2. f \in [1..(i - 1) -> {f[k] : k \in 1..(i - 1)}]
      OBVIOUS
    <3>3. \A k \in 1..(i - 1) : \A m \in 1..(k - 1) : f[m] # f[k]
      BY <2>1, <2>2
    <3>4. Cardinality({f[k] : k \in 1..(i - 1)}) = i - 1
      <4> HIDE DEF f
      <4> QED
        BY <3>1, <3>2, <3>3, DistinctCount
    <3>5. ASSUME NEW j \in 1..Len(u), Before(u[j], u[i]) PROVE j \in 1..(i - 1)
      <4>1. u[i] \in Entry /\ u[j] \in Entry
        BY <2>1
      <4>2. ~Before(u[i], u[j])
        BY <3>5, <4>1, BeforeOrders
      <4>3. ~(i < j)
        BY <1>1, <4>2 DEF Increasing
      <4>4. i # j
        BY <3>5, <4>2
      <4> QED
        BY <2>1, <4>3, <4>4
    <3>6. \A k \in 1..(i - 1) : Before(u[k], u[i])
      BY <1>1, <3>1 DEF Increasing
    <3>7. {e \in Ran(u) : Before(e, u[i])} = {f[k] : k \in 1..(i - 1)}
      BY <3>1, <3>5, <3>6 DEF Ran
    <3> QED
      BY <3>4, <3>7
  <2> QED
    BY <2>1, <2>3, <2>4
<1>2. /\ s \in Seq(Entry) /\ t \in Seq(Entry) /\ Len(s) = Len(t) /\ Len(s) \in Nat
  BY <1>1
<1>3. ASSUME NEW i \in 1..Len(s) PROVE s[i] = t[i]
  <2>1. s[i] \in Ran(t)
    BY DEF Ran
  <2>2. PICK k \in 1..Len(t) : t[k] = s[i]
    BY <2>1 DEF Ran
  <2>3. i - 1 = k - 1
    BY <1>1, <2>2
  <2> QED
    BY <1>2, <2>2, <2>3
<1> QED
  BY <1>2, <1>3

\* Chains that tell the same, and give other times only to an entry that has its
\* second to itself, are in one order.
LEMMA SameOrder ==
  ASSUME NEW s \in Chains, Increasing(s), NEW t \in Chains, Increasing(t),
         {Hashed(e) : e \in Ran(s)} = {Hashed(e) : e \in Ran(t)},
         \A d \in Ran(s), e \in Ran(t) :
           Hashed(d) = Hashed(e) /\ d.time # e.time =>
             \A f \in Ran(s) : f # d => Second(f.time) # Second(d.time)
  PROVE  /\ Len(s) = Len(t)
         /\ \A i \in 1..Len(s) : Hashed(s[i]) = Hashed(t[i])
<1> DEFINE Twin(d) == CHOOSE e \in Ran(t) : Hashed(e) = Hashed(d)
           u == [i \in 1..Len(s) |-> Twin(s[i])]
<1>1. /\ s \in Seq(Entry) /\ Len(s) \in Nat /\ Numbered(s)
      /\ t \in Seq(Entry) /\ Len(t) \in Nat /\ Numbered(t)
  BY DEF Chains
<1>2. Ran(s) \subseteq Entry /\ Ran(t) \subseteq Entry
  BY <1>1 DEF Ran
<1>3. \A d, e : Hashed(d) = Hashed(e) =>
        /\ d.org = e.org /\ d.seq = e.seq /\ Second(d.time) = Second(e.time)
        /\ d.commitment = e.commitment
  BY DEF Hashed
<1>4. ASSUME NEW d \in Ran(s) PROVE Twin(d) \in Ran(t) /\ Hashed(Twin(d)) = Hashed(d)
  <2>1. \E e \in Ran(t) : Hashed(e) = Hashed(d)
    <3>1. Hashed(d) \in {Hashed(e) : e \in Ran(t)}
      OBVIOUS
    <3> QED
      BY <3>1
  <2> QED
    BY <2>1
<1>5. ASSUME NEW d \in Ran(t), NEW e \in Ran(t), Hashed(d) = Hashed(e) PROVE d = e
  BY <1>1, <1>3, <1>5 DEF Ran, Numbered, Same
<1> HIDE DEF Twin
<1>6. \A i \in 1..Len(s) : s[i] \in Ran(s)
  BY DEF Ran
<1>7. ASSUME NEW i \in 1..Len(s)
      PROVE  /\ u[i] \in Ran(t) /\ u[i] \in Entry /\ Hashed(u[i]) = Hashed(s[i])
             /\ s[i] \in Entry /\ s[i].time \in Int /\ u[i].time \in Int
             /\ u[i].org = s[i].org /\ u[i].seq = s[i].seq
             /\ Second(u[i].time) = Second(s[i].time)
  <2>1. u[i] \in Ran(t) /\ Hashed(u[i]) = Hashed(s[i])
    BY <1>4, <1>6
  <2>2. s[i] \in Entry /\ u[i] \in Entry
    BY <1>2, <1>6, <2>1
  <2>3. \A e \in Entry : e.time \in Int
    BY DEF Entry, Bare
  <2> QED
    BY <1>3, <2>1, <2>2, <2>3
<1> DEFINE n == Len(s)
<1>8. u \in [1..n -> Entry]
  BY <1>7
<1>9. u \in Seq(Entry) /\ Len(u) = n
  BY <1>1, <1>8
<1> HIDE DEF u
<1>10. ASSUME NEW i \in 1..n, NEW j \in 1..n, i < j PROVE Before(u[i], u[j])
  <2>1. Before(s[i], s[j])
    BY <1>10 DEF Increasing
  <2>2. s[i] # s[j]
    BY <1>1, <1>10 DEF Numbered, Same
  <2>3. CASE Second(s[i].time) = Second(s[j].time)
    <3>1. u[i].time = s[i].time /\ u[j].time = s[j].time
      BY <1>6, <1>7, <2>2, <2>3
    <3> QED
      BY <1>7, <2>1, <3>1 DEF Before
  <2>4. CASE Second(s[i].time) # Second(s[j].time)
    <3>1. s[i].time < s[j].time
      BY <2>1, <2>4 DEF Before
    <3>2. Second(s[i].time) <= Second(s[j].time)
      BY <1>7, <3>1, SecondOrders
    <3>3. ~(u[j].time <= u[i].time)
      <4>1. Second(u[j].time) <= Second(u[i].time) => FALSE
        <5>1. Second(s[i].time) \in Int /\ Second(s[j].time) \in Int
          BY <1>7, SecondOrders
        <5> QED
          BY <1>7, <2>4, <3>2, <5>1
      <4> QED
        BY <1>7, <4>1, SecondOrders
    <3> QED
      BY <1>7, <3>3 DEF Before
  <2> QED
    BY <2>3, <2>4
<1>11. u \in Chains /\ Increasing(u)
  <2>1. Increasing(u)
    BY <1>9, <1>10 DEF Increasing
  <2>2. Numbered(u)
    BY <1>1, <1>7, <1>9 DEF Numbered, Same
  <2> QED
    BY <1>9, <2>1, <2>2 DEF Chains
<1>12. Ran(u) = Ran(t)
  <2>1. Ran(u) \subseteq Ran(t)
    <3>1. ASSUME NEW x \in Ran(u) PROVE x \in Ran(t)
      <4>1. PICK i \in 1..n : x = u[i]
        BY <1>9 DEF Ran
      <4> QED
        BY <1>7, <4>1
    <3> QED
      BY <3>1
  <2>2. ASSUME NEW e \in Ran(t) PROVE e \in Ran(u)
    <3>1. PICK d \in Ran(s) : Hashed(d) = Hashed(e)
      <4>1. Hashed(e) \in {Hashed(d) : d \in Ran(s)}
        OBVIOUS
      <4> QED
        BY <4>1
    <3>2. PICK i \in 1..n : d = s[i]
      BY <3>1 DEF Ran
    <3>3. u[i] = e
      BY <1>5, <1>7, <3>1, <3>2
    <3> QED
      BY <1>9, <3>3 DEF Ran
  <2> QED
    BY <2>1, <2>2
<1>13. u = t
  BY <1>11, <1>12, SortedUnique
<1> QED
  BY <1>7, <1>9, <1>13

States == [entries : Chains, ok : BOOLEAN]

\* What verifies is what was signed.
LEMMA VerifiedEntry ==
  ASSUME NEW c, Circulating(c), NEW anchor, Verifies(c, anchor)
  PROVE  c.entry \in Entry
<1>1. PICK e \in Entry : c.signature = [by |-> e.org, over |-> SigningPayload(e)]
  BY DEF Circulating
<1>2. SigningPayload(c.entry) = SigningPayload(e)
  <2>1. c.signature = [by |-> anchor, over |-> SigningPayload(c.entry)]
    BY DEF Verifies
  <2>2. c.signature.over = SigningPayload(e)
    BY <1>1
  <2>3. c.signature.over = SigningPayload(c.entry)
    BY <2>1
  <2> QED
    BY <2>2, <2>3
<1>3. Second(c.entry.time) = Second(e.time) /\ c.entry.commitment = e.commitment
  BY <1>2 DEF SigningPayload
<1> QED
  BY <1>3 DEF Circulating, Entry

LEMMA ConsiderHolds ==
  ASSUME NEW x \in States, NEW c, Circulating(c), NEW anchor
  PROVE  Consider(x, c, anchor) \in States
<1> DEFINE same == {i \in DOMAIN x.entries :
                      x.entries[i].org = c.entry.org /\ x.entries[i].seq = c.entry.seq}
<1>1. x.entries \in Chains /\ x.ok \in BOOLEAN
  BY DEF States
<1>2. CASE ~x.ok
  BY <1>2 DEF Consider
<1>3. CASE x.ok /\ ~Verifies(c, anchor)
  <2>1. Consider(x, c, anchor) = [x EXCEPT !.ok = FALSE]
    BY <1>3 DEF Consider
  <2> QED
    BY <2>1 DEF States
<1>4. CASE x.ok /\ Verifies(c, anchor) /\ same # {}
  <2>1. PICK b \in BOOLEAN : b = (x.entries[Min(same)].commitment = c.entry.commitment)
    OBVIOUS
  <2>2. Consider(x, c, anchor) = [x EXCEPT !.ok = b]
    BY <1>4, <2>1 DEF Consider
  <2> QED
    BY <2>2 DEF States
<1>5. CASE x.ok /\ Verifies(c, anchor) /\ same = {}
  <2>1. PICK s \in Seq(Entry) : s = x.entries /\ Numbered(s)
    BY <1>1 DEF Chains
  <2> PICK e \in Entry : e = c.entry
    BY <1>5, VerifiedEntry
  <2>2. Consider(x, c, anchor) = [x EXCEPT !.entries = Append(s, e)]
    BY <1>5, <2>1 DEF Consider
  <2>3. \A i \in 1..Len(s) : ~Same(s[i], e) /\ ~Same(e, s[i])
    BY <1>5, <2>1 DEF Same
  <2> DEFINE t == Append(s, e)
  <2>4. /\ t \in Seq(Entry) /\ Len(t) = Len(s) + 1 /\ Len(s) \in Nat
        /\ t[Len(s) + 1] = e
        /\ \A i \in 1..Len(s) : t[i] = s[i]
    BY <2>1
  <2> HIDE DEF t
  <2>5. ASSUME NEW i \in 1..Len(t), NEW j \in 1..Len(t), Same(t[i], t[j]) PROVE i = j
    <3>1. CASE i \in 1..Len(s) /\ j \in 1..Len(s)
      BY <2>1, <2>4, <2>5, <3>1 DEF Numbered
    <3>2. CASE i = Len(s) + 1 /\ j \in 1..Len(s)
      BY <2>3, <2>4, <2>5, <3>2
    <3>3. CASE j = Len(s) + 1 /\ i \in 1..Len(s)
      BY <2>3, <2>4, <2>5, <3>3
    <3> QED
      BY <2>4, <3>1, <3>2, <3>3
  <2>6. t \in Chains
    BY <2>4, <2>5 DEF Chains, Numbered
  <2> QED
    BY <2>2, <2>6 DEF States, t
<1> QED
  BY <1>2, <1>3, <1>4, <1>5

\* The states there are as a batch is considered: each follows from the one before.
LEMMA ConsideredHolds ==
  ASSUME NEW start \in States, NEW C, \A c \in C : Circulating(c), NEW batch \in Seq(C),
         NEW anchor
  PROVE  Considered(start, batch, anchor) \in States
<1> DEFINE N == Len(batch)
           After(g, m) == g = [n \in 0..m |-> IF n = 0 THEN start
                                              ELSE Consider(g[n - 1], batch[n], anchor)]
<1>1. N \in Nat /\ \A n \in 1..N : Circulating(batch[n])
  OBVIOUS
<1>2. \E g : After(g, 0)
  <2> DEFINE g == [n \in 0..0 |-> start]
  <2>1. After(g, 0)
    OBVIOUS
  <2> QED
    BY <2>1
<1>3. ASSUME NEW m \in Nat, NEW g, After(g, m) PROVE \E h : After(h, m + 1)
  <2> DEFINE h == [n \in 0..(m + 1) |-> IF n = m + 1 THEN Consider(g[m], batch[m + 1], anchor)
                                        ELSE g[n]]
  <2>1. ASSUME NEW n \in 0..(m + 1)
        PROVE  h[n] = IF n = 0 THEN start ELSE Consider(h[n - 1], batch[n], anchor)
    <3>1. CASE n = m + 1
      <4>1. h[n] = Consider(g[m], batch[n], anchor) /\ h[n - 1] = g[m] /\ n # 0
        BY <3>1
      <4> QED
        BY <4>1
    <3>2. CASE n # m + 1
      <4>1. n \in 0..m /\ h[n] = g[n] /\ (n # 0 => n - 1 \in 0..m /\ h[n - 1] = g[n - 1])
        BY <3>2
      <4>2. g[n] = IF n = 0 THEN start ELSE Consider(g[n - 1], batch[n], anchor)
        BY <1>3, <4>1
      <4> QED
        BY <4>1, <4>2
    <3> QED
      BY <3>1, <3>2
  <2>2. After(h, m + 1)
    <3> DEFINE k == [n \in 0..(m + 1) |-> IF n = 0 THEN start
                                          ELSE Consider(h[n - 1], batch[n], anchor)]
    <3>1. \A n \in 0..(m + 1) : h[n] = k[n]
      BY <2>1
    <3>2. DOMAIN h = 0..(m + 1) /\ DOMAIN k = 0..(m + 1)
      OBVIOUS
    <3>3. h = k
      BY <3>1, <3>2
    <3> QED
      BY <3>3
  <2> QED
    BY <2>2
<1> HIDE DEF After
<1>4. \A m \in Nat : \E g : After(g, m)
  <2> DEFINE Without == {m \in Nat : ~\E g : After(g, m)}
  <2>1. SUFFICES ASSUME Without # {} PROVE FALSE
    OBVIOUS
  <2>2. PICK m \in Without : \A k \in Without : ~(<<k, m>> \in OpToRel(<, Nat))
    BY <2>1, NatLessThanWellFounded, WFMin
  <2>3. m # 0
    BY <1>2
  <2>4. m - 1 \in Nat /\ <<m - 1, m>> \in OpToRel(<, Nat)
    BY <2>3 DEF OpToRel
  <2>5. m - 1 \notin Without
    BY <2>2, <2>4
  <2>6. PICK g : After(g, m - 1)
    BY <2>4, <2>5
  <2>7. \E h : After(h, (m - 1) + 1)
    BY <1>3, <2>4, <2>6
  <2> QED
    BY <2>7
<1>5. PICK g : After(g, N) /\ Considered(start, batch, anchor) = g[N]
  <2>1. \E g : After(g, N)
    BY <1>1, <1>4
  <2> DEFINE f == CHOOSE g : After(g, N)
  <2>2. After(f, N)
    BY <2>1
  <2>3. Considered(start, batch, anchor) = f[N]
    BY DEF Considered, After
  <2> QED
    BY <2>2, <2>3
<1>6. \A n \in 0..N : g[n] = IF n = 0 THEN start ELSE Consider(g[n - 1], batch[n], anchor)
  BY <1>5 DEF After
<1>7. \A n \in 0..N : g[n] \in States
  <2> DEFINE Bad == {n \in 0..N : g[n] \notin States}
  <2>1. SUFFICES ASSUME Bad # {} PROVE FALSE
    OBVIOUS
  <2>2. Bad \subseteq Nat
    BY <1>1
  <2>3. PICK m \in Bad : \A k \in Bad : ~(<<k, m>> \in OpToRel(<, Nat))
    BY <2>1, <2>2, NatLessThanWellFounded, WFMin
  <2>4. m # 0
    BY <1>6
  <2>5. m - 1 \in 0..N /\ m \in 1..N /\ <<m - 1, m>> \in OpToRel(<, Nat)
    BY <1>1, <2>4 DEF OpToRel
  <2>6. g[m - 1] \in States
    BY <2>3, <2>5
  <2>7. Circulating(batch[m])
    BY <1>1, <2>5
  <2>8. g[m] = Consider(g[m - 1], batch[m], anchor)
    BY <1>6, <2>4, <2>5
  <2> QED
    BY <2>6, <2>7, <2>8, ConsiderHolds
<1> QED
  BY <1>1, <1>5, <1>7

LogRecord == [time : Times, salt : Nat]

CustodyInv ==
  /\ logs \in [Orgs -> Seq(LogRecord)] /\ salts \in Nat
  /\ \A c \in published : Circulating(c)
  /\ entries \in [Parties -> Chains] /\ settled \in [Parties -> BOOLEAN]
  /\ \A p \in Parties : settled[p] => Increasing(entries[p])

LEMMA RecordAtInv ==
  ASSUME CustodyInv, NEW o \in Orgs, NEW time \in Times, RecordAt(o, time)
  PROVE  CustodyInv'
<1> DEFINE r == [time |-> time, salt |-> salts]
<1>1. r \in LogRecord /\ logs[o] \in Seq(LogRecord)
  BY DEF CustodyInv, LogRecord
<1>2. logs' = [logs EXCEPT ![o] = Append(logs[o], r)]
  BY DEF RecordAt
<1> HIDE DEF r
<1>3. logs' \in [Orgs -> Seq(LogRecord)]
  <2>1. Append(logs[o], r) \in Seq(LogRecord)
    BY <1>1
  <2> QED
    BY <1>2, <2>1 DEF CustodyInv
<1>4. salts' \in Nat /\ UNCHANGED <<published, entries, settled>>
  BY DEF RecordAt, CustodyInv
<1> QED
  BY <1>3, <1>4 DEF CustodyInv

LEMMA ExportInv ==
  ASSUME CustodyInv, NEW o \in Orgs, Export(o)
  PROVE  CustodyInv'
<1>1. ASSUME NEW seq \in 1..Len(logs[o]) PROVE Circulating(Commitment(o, seq))
  <2>1. logs[o] \in Seq(LogRecord)
    BY DEF CustodyInv
  <2>2. PICK r \in LogRecord : r = logs[o][seq]
    BY <2>1
  <2>3. r.time \in Int /\ r.salt \in Nat /\ seq \in Nat
    <3>1. seq \in Nat
      BY <2>1
    <3> QED
      BY <3>1, CustodyAssumption DEF LogRecord
  <2> DEFINE e == [org |-> o, seq |-> seq, time |-> r.time,
                   commitment |-> [second |-> Second(r.time), salt |-> r.salt]]
  <2>4. e \in Bare /\ Second(e.time) = e.commitment.second
    BY <2>3, SecondOrders DEF Bare, Digests
  <2>5. e.org = o
    OBVIOUS
  <2>6. Commitment(o, seq) = [entry |-> e, signature |-> [by |-> o, over |-> SigningPayload(e)]]
    BY <2>2 DEF Commitment, CommitmentOf
  <2> HIDE DEF e
  <2>7. /\ Commitment(o, seq).entry = e
        /\ Commitment(o, seq).signature = [by |-> e.org, over |-> SigningPayload(e)]
    BY <2>5, <2>6
  <2> QED
    BY <2>4, <2>7 DEF Circulating, Entry
<1>2. published' = published \cup {Commitment(o, seq) : seq \in 1..Len(logs[o])}
  BY DEF Export
<1>3. \A c \in published' : Circulating(c)
  BY <1>1, <1>2 DEF CustodyInv
<1>4. UNCHANGED <<logs, salts, entries, settled>>
  BY DEF Export
<1> QED
  BY <1>3, <1>4 DEF CustodyInv

LEMMA HandOnInv ==
  ASSUME CustodyInv, NEW c \in published, NEW time \in Times, HandOn(c, time)
  PROVE  CustodyInv'
<1> DEFINE d == [c EXCEPT !.entry.time = time]
<1>1. Circulating(c) /\ time \in Int
  BY CustodyAssumption DEF CustodyInv
<1>2. d.entry = [c.entry EXCEPT !.time = time] /\ d.signature = c.signature
  OBVIOUS
<1>3. published' = published \cup {d}
  BY DEF HandOn
<1> HIDE DEF d
<1>4. d.entry \in Bare
  <2>1. c.entry \in Bare
    BY <1>1 DEF Circulating
  <2> QED
    BY <1>1, <1>2, <2>1 DEF Bare
<1>5. Circulating(d)
  BY <1>1, <1>2, <1>4 DEF Circulating
<1>6. \A x \in published' : Circulating(x)
  BY <1>3, <1>5 DEF CustodyInv
<1>7. UNCHANGED <<logs, salts, entries, settled>>
  BY DEF HandOn
<1> QED
  BY <1>6, <1>7 DEF CustodyInv

LEMMA RestoreInv ==
  ASSUME CustodyInv, NEW o \in Orgs, Restore(o)
  PROVE  CustodyInv'
<1>1. Front(logs[o]) \in Seq(LogRecord)
  <2>1. logs[o] \in Seq(LogRecord) /\ logs[o] # <<>>
    BY DEF CustodyInv, Restore
  <2> QED
    BY <2>1 DEF Front
<1>2. logs' = [logs EXCEPT ![o] = Front(logs[o])]
  BY DEF Restore
<1>3. logs' \in [Orgs -> Seq(LogRecord)]
  BY <1>1, <1>2 DEF CustodyInv
<1>4. UNCHANGED <<salts, published, entries, settled>>
  BY DEF Restore
<1> QED
  BY <1>3, <1>4 DEF CustodyInv

LEMMA IngestInv ==
  ASSUME CustodyInv, NEW batch \in Batches, NEW p \in Parties, NEW o \in Orgs,
         Ingest(p, batch, o)
  PROVE  CustodyInv'
<1>1. batch \in Seq(published)
  <2>1. PICK n \in 1..MaxBatch : batch \in [1..n -> published]
    BY DEF Batches
  <2>2. n \in Nat
    BY <2>1, CustodyAssumption
  <2> QED
    BY <2>1, <2>2
<1> DEFINE start == [entries |-> entries[p], ok |-> TRUE]
           state == Considered(start, batch, o)
<1>2. start \in States
  BY DEF States, CustodyInv
<1> HIDE DEF start
<1>3. state \in States
  <2>1. \A c \in published : Circulating(c)
    BY DEF CustodyInv
  <2> QED
    BY <1>1, <1>2, <2>1, ConsideredHolds
<1>4. /\ entries' = [entries EXCEPT ![p] = IF state.ok THEN Sorted(state.entries)
                                           ELSE state.entries]
      /\ settled' = [settled EXCEPT ![p] = state.ok]
      /\ UNCHANGED <<logs, salts, published>>
  BY DEF Ingest, start
<1> HIDE DEF state
<1>5. state.entries \in Chains /\ state.ok \in BOOLEAN
  BY <1>3 DEF States
<1>6. Sorted(state.entries) \in Chains /\ Increasing(Sorted(state.entries))
  BY <1>5, SortedHolds
<1>7. /\ entries' \in [Parties -> Chains] /\ settled' \in [Parties -> BOOLEAN]
      /\ settled'[p] => Increasing(entries'[p])
      /\ \A q \in Parties : q # p => entries'[q] = entries[q] /\ settled'[q] = settled[q]
  BY <1>4, <1>5, <1>6 DEF CustodyInv
<1> QED
  BY <1>4, <1>7 DEF CustodyInv

LEMMA InitCustody == CustodyInit => CustodyInv
BY DEF CustodyInit, CustodyInv, Chains, Numbered, Increasing

LEMMA NextCustody == CustodyInv /\ [CustodyNext]_custodyVars => CustodyInv'
<1> SUFFICES ASSUME CustodyInv, [CustodyNext]_custodyVars PROVE CustodyInv'
  OBVIOUS
<1>1. CASE UNCHANGED custodyVars
  BY <1>1 DEF custodyVars, CustodyInv
<1> QED
  BY <1>1, RecordAtInv, ExportInv, HandOnInv, RestoreInv, IngestInv DEF CustodyNext

\* AuditCompositor: however commitments were batched, repeated, ordered and handed on,
\* two parties whose last ingest succeeded and who hold the same as far as it is signed
\* have one root, unless they were given different times within a second that two
\* entries share; and a record revealed to both checks out with both, or is not what
\* the other was given.
THEOREM PartiesAlwaysAgree == CustodySpec => []RootsAgree
<1>1. ASSUME CustodyInv, NEW p \in Parties, NEW q \in Parties, settled[p], settled[q],
             Told(p) = Told(q), ~Retimed(p, q)
      PROVE  RootHash(p) = RootHash(q)
  <2>1. /\ entries[p] \in Chains /\ Increasing(entries[p]) /\ Held(p) = Ran(entries[p])
        /\ entries[q] \in Chains /\ Increasing(entries[q]) /\ Held(q) = Ran(entries[q])
    BY <1>1 DEF CustodyInv, Held, Ran
  <2>2. {Hashed(e) : e \in Ran(entries[p])} = {Hashed(e) : e \in Ran(entries[q])}
    BY <1>1, <2>1 DEF Told
  <2>3. \A d \in Ran(entries[p]), e \in Ran(entries[q]) :
          Hashed(d) = Hashed(e) /\ d.time # e.time =>
            \A f \in Ran(entries[p]) : f # d => Second(f.time) # Second(d.time)
    BY <1>1, <2>1 DEF Retimed
  <2> PICK s \in Chains, t \in Chains : s = entries[p] /\ t = entries[q]
    BY <2>1
  <2>4. Len(s) = Len(t) /\ \A i \in 1..Len(s) : Hashed(s[i]) = Hashed(t[i])
    BY <2>1, <2>2, <2>3, SameOrder
  <2>5. DOMAIN s = 1..Len(s) /\ DOMAIN t = 1..Len(t)
    BY DEF Chains
  <2> QED
    BY <2>4, <2>5 DEF RootHash
<1>2. ASSUME CustodyInv, NEW p \in Parties, NEW q \in Parties, NEW o \in Orgs,
             NEW seq \in 1..Len(logs[o]), VerifyRevealed(p, o, seq, logs[o][seq]),
             NEW e \in Held(q), e.org = o, e.seq = seq
      PROVE  VerifyRevealed(q, o, seq, logs[o][seq]) <=> Hashed(e) \in Told(p)
  <2> PICK mine : mine = CommitmentOf(logs[o][seq])
    OBVIOUS
  <2>1. /\ entries[p] \in Seq(Entry) /\ Numbered(entries[p])
        /\ entries[q] \in Seq(Entry) /\ Numbered(entries[q])
    BY <1>2 DEF CustodyInv, Chains
  <2>2. PICK i \in 1..Len(entries[p]) :
          /\ entries[p][i].org = o /\ entries[p][i].seq = seq
          /\ entries[p][i].commitment = mine
    BY <1>2 DEF VerifyRevealed
  <2>3. PICK x \in Entry : x = entries[p][i]
    BY <2>1
  <2>4. PICK j \in 1..Len(entries[q]) : e = entries[q][j]
    BY <1>2 DEF Held
  <2>5. e \in Entry
    BY <2>1, <2>4
  <2>6. ASSUME e.commitment = mine PROVE Hashed(e) = Hashed(x)
    BY <1>2, <2>2, <2>3, <2>5, <2>6 DEF Entry, Hashed
  <2>7. ASSUME Hashed(e) \in Told(p) PROVE e.commitment = mine
    <3>1. PICK d \in Held(p) : Hashed(e) = Hashed(d)
      BY <2>7 DEF Told
    <3>2. d.org = o /\ d.seq = seq /\ d.commitment = e.commitment
      BY <1>2, <3>1 DEF Hashed
    <3>3. PICK k \in 1..Len(entries[p]) : d = entries[p][k]
      BY <3>1 DEF Held
    <3>4. k = i
      BY <2>1, <2>2, <3>2, <3>3 DEF Numbered, Same
    <3> QED
      BY <2>2, <3>2, <3>3, <3>4
  <2>8. VerifyRevealed(q, o, seq, logs[o][seq]) => e.commitment = mine
    BY <1>2, <2>1, <2>4 DEF VerifyRevealed, Numbered, Same
  <2>9. e.commitment = mine => VerifyRevealed(q, o, seq, logs[o][seq])
    BY <1>2, <2>4 DEF VerifyRevealed
  <2>10. Hashed(x) \in Told(p)
    BY <2>3 DEF Held, Told
  <2> QED
    BY <2>6, <2>7, <2>8, <2>9, <2>10
<1>3. CustodyInv => RootsAgree
  BY <1>1, <1>2 DEF RootsAgree
<1> QED
  BY <1>3, InitCustody, NextCustody, PTL DEF CustodySpec

-----------------------------------------------------------------------------
(***************************************************************************)
(* Arguments.  Paths of one value are in a total order, so a text spells   *)
(* each once, two values are spelled alike only if they are one, and what  *)
(* is read from a text is what was written into it, but for the kind of    *)
(* its numbers.                                                            *)
(***************************************************************************)
Typed(v) == Comparable(DOMAIN v) /\ \A p \in DOMAIN v : v[p] \in Scalar

LEMMA PlaceTyped == \A step \in PathStep : Place(step) \in Int
<1>1. ASSUME NEW k \in ToSet(KeyOrder) PROVE Place(<<"key", k>>) \in Int
  <2>1. KeyOrder \in Seq(STRING)
    BY ArgBindingAssumption
  <2>2. \E i \in 1..Len(KeyOrder) : KeyOrder[i] = k
    BY <2>1 DEF ToSet
  <2>3. DOMAIN KeyOrder = 1..Len(KeyOrder) /\ Len(KeyOrder) \in Nat
    BY <2>1
  <2>4. Place(<<"key", k>>) = CHOOSE i \in DOMAIN KeyOrder : KeyOrder[i] = k
    BY DEF Place
  <2> QED
    BY <2>2, <2>3, <2>4
<1>2. ASSUME NEW n \in Nat PROVE Place(<<"at", n>>) \in Int
  BY DEF Place
<1> QED
  BY <1>1, <1>2 DEF PathStep

LEMMA PrecedesOrders ==
  ASSUME NEW p \in Seq(PathStep), NEW q \in Seq(PathStep), NEW r \in Seq(PathStep)
  PROVE  /\ ~(Precedes(p, q) /\ Precedes(q, p))
         /\ Precedes(p, q) /\ Precedes(q, r) => Precedes(p, r)
<1>1. /\ DOMAIN p = 1..Len(p) /\ Len(p) \in Nat /\ \A i \in DOMAIN p : Place(p[i]) \in Int
      /\ DOMAIN q = 1..Len(q) /\ Len(q) \in Nat /\ \A i \in DOMAIN q : Place(q[i]) \in Int
      /\ DOMAIN r = 1..Len(r) /\ Len(r) \in Nat /\ \A i \in DOMAIN r : Place(r[i]) \in Int
  BY PlaceTyped
<1>2. ASSUME Precedes(p, q), Precedes(q, p) PROVE FALSE
  <2>1. PICK i \in DOMAIN q :
          /\ i \in DOMAIN p => Place(p[i]) < Place(q[i])
          /\ \A j \in 1..(i - 1) : j \in DOMAIN p /\ p[j] = q[j]
    BY <1>2 DEF Precedes
  <2>2. PICK k \in DOMAIN p :
          /\ k \in DOMAIN q => Place(q[k]) < Place(p[k])
          /\ \A j \in 1..(k - 1) : j \in DOMAIN q /\ q[j] = p[j]
    BY <1>2 DEF Precedes
  <2>3. i \in Nat /\ k \in Nat /\ i >= 1 /\ k >= 1
    BY <1>1
  <2>4. CASE i < k
    <3>1. i \in 1..(k - 1)
      BY <2>3, <2>4
    <3>2. q[i] = p[i] /\ i \in DOMAIN p
      BY <1>1, <2>1, <2>2, <2>3, <2>4, <3>1
    <3> QED
      BY <1>1, <2>1, <3>2
  <2>5. CASE k < i
    <3>1. k \in 1..(i - 1)
      BY <2>3, <2>5
    <3>2. q[k] = p[k] /\ k \in DOMAIN q
      BY <1>1, <2>1, <2>2, <2>3, <2>5, <3>1
    <3> QED
      BY <1>1, <2>2, <3>2
  <2>6. CASE i = k
    BY <1>1, <2>1, <2>2, <2>6
  <2> QED
    BY <2>3, <2>4, <2>5, <2>6
<1>3. ASSUME Precedes(p, q), Precedes(q, r) PROVE Precedes(p, r)
  <2>1. PICK i \in DOMAIN q :
          /\ i \in DOMAIN p => Place(p[i]) < Place(q[i])
          /\ \A j \in 1..(i - 1) : j \in DOMAIN p /\ p[j] = q[j]
    BY <1>3 DEF Precedes
  <2>2. PICK k \in DOMAIN r :
          /\ k \in DOMAIN q => Place(q[k]) < Place(r[k])
          /\ \A j \in 1..(k - 1) : j \in DOMAIN q /\ q[j] = r[j]
    BY <1>3 DEF Precedes
  <2>3. i \in Nat /\ k \in Nat /\ i >= 1 /\ k >= 1
    BY <1>1
  <2> DEFINE m == IF i < k THEN i ELSE k
  <2>4. m \in DOMAIN r
    BY <1>1, <2>3
  <2>5. m \in DOMAIN p => Place(p[m]) < Place(r[m])
    <3>1. CASE i < k
      <4>1. q[i] = r[i]
        BY <2>2, <2>3, <3>1
      <4> QED
        BY <2>1, <3>1, <4>1
    <3>2. CASE k < i
      <4>1. p[k] = q[k] /\ k \in DOMAIN q
        BY <1>1, <2>1, <2>3, <3>2
      <4> QED
        BY <2>2, <2>3, <3>2, <4>1
    <3>3. CASE i = k
      BY <1>1, <2>1, <2>2, <3>3
    <3> QED
      BY <2>3, <3>1, <3>2, <3>3
  <2>6. ASSUME NEW j \in 1..(m - 1) PROVE j \in DOMAIN p /\ p[j] = r[j]
    <3>1. j \in 1..(i - 1) /\ j \in 1..(k - 1)
      BY <2>3
    <3> QED
      BY <2>1, <2>2, <3>1
  <2> HIDE DEF m
  <2> QED
    BY <2>4, <2>5, <2>6 DEF Precedes
<1> QED
  BY <1>2, <1>3

LEMMA ListedHolds ==
  ASSUME NEW P, Comparable(P), NEW l, l = Listed(P, Precedes)
  PROVE  /\ Cardinality(P) \in Nat
         /\ l \in [1..Cardinality(P) -> P]
         /\ \A p \in P : \E i \in 1..Cardinality(P) : l[i] = p
         /\ \A i, j \in 1..Cardinality(P) : i # j => l[i] # l[j]
<1> DEFINE Upto(p) == {q \in P : q = p \/ Precedes(q, p)}
           upto == [p \in P |-> Upto(p)]
           place == [p \in P |-> Cardinality(Upto(p))]
           at == [k \in 1..Cardinality(P) |-> CHOOSE p \in P : place[p] = k]
<1>1. /\ IsFiniteSet(P)
      /\ \A p, q \in P : p \in Seq(PathStep) /\ (p = q \/ Precedes(p, q) \/ Precedes(q, p))
  BY DEF Comparable
<1>2. ASSUME NEW p \in P, NEW q \in P PROVE q \in Upto(p) <=> (q = p \/ Precedes(q, p))
  OBVIOUS
<1> HIDE DEF Upto
<1>3. Total(P, upto)
  <2>1. upto \in [P -> SUBSET P]
    BY DEF Upto
  <2>2. \A p, q \in P : p \in upto[p] /\ (p \in upto[q] \/ q \in upto[p])
    BY <1>1, <1>2
  <2>3. ASSUME NEW p \in P, NEW q \in P, p \in upto[q], q \in upto[p] PROVE p = q
    BY <1>1, <1>2, <2>3, PrecedesOrders
  <2>4. ASSUME NEW p \in P, NEW q \in P, p \in upto[q], NEW r \in upto[p] PROVE r \in upto[q]
    <3>1. r \in P
      BY <2>1
    <3>2. (p = q \/ Precedes(p, q)) /\ (r = p \/ Precedes(r, p))
      BY <1>2, <2>4, <3>1
    <3>3. r = q \/ Precedes(r, q)
      BY <1>1, <3>1, <3>2, PrecedesOrders
    <3> QED
      BY <1>2, <3>1, <3>3
  <2> QED
    BY <2>1, <2>2, <2>3, <2>4 DEF Total
<1>4. /\ place = [p \in P |-> Cardinality(upto[p])]
      /\ \A k \in 1..Cardinality(P) :
           (\E p \in P : place[p] = k) => at[k] \in P /\ place[at[k]] = k
  OBVIOUS
<1>5. l = at
  BY DEF Listed, Upto
<1>6. /\ Cardinality(P) \in Nat
      /\ \A k \in 1..Cardinality(P) : at[k] \in P
      /\ \A p \in P : \E k \in 1..Cardinality(P) : at[k] = p
      /\ \A k, m \in 1..Cardinality(P) : k < m => at[k] # at[m]
  <2> HIDE DEF upto, place, at
  <2> QED
    BY <1>1, <1>3, <1>4, Ranking
<1>7. at = [k \in 1..Cardinality(P) |-> at[k]]
  OBVIOUS
<1> HIDE DEF at
<1> QED
  BY <1>5, <1>6, <1>7

LEMMA InOrderHolds ==
  ASSUME NEW v, Typed(v)
  PROVE  LET t == InOrder(v) IN
         /\ t \in ArgTexts /\ PathsOf(t) = DOMAIN v
         /\ \A i \in DOMAIN t : t[i][1] \in DOMAIN v /\ t[i][2] = v[t[i][1]]
         /\ \A i, j \in DOMAIN t : t[i][1] = t[j][1] => i = j
<1>1. PICK l : l = Listed(DOMAIN v, Precedes)
  OBVIOUS
<1>2. PICK n \in Nat :
        /\ l \in [1..n -> DOMAIN v]
        /\ \A p \in DOMAIN v : \E i \in 1..n : l[i] = p
        /\ \A i, j \in 1..n : i # j => l[i] # l[j]
  BY <1>1, ListedHolds DEF Typed
<1>3. PICK t : t = InOrder(v)
  OBVIOUS
<1>4. t = [i \in 1..n |-> <<l[i], v[l[i]]>>]
  BY <1>1, <1>2, <1>3 DEF InOrder
<1>5. \A i \in 1..n : l[i] \in Seq(PathStep) /\ v[l[i]] \in Scalar
  BY <1>2 DEF Typed, Comparable
<1>6. t \in ArgTexts
  <2>1. PICK S : S = Seq(PathStep) \X Scalar
    OBVIOUS
  <2>2. \A i \in 1..n : <<l[i], v[l[i]]>> \in S
    BY <1>5, <2>1
  <2>3. t \in [1..n -> S]
    BY <1>4, <2>2
  <2>4. t \in Seq(S)
    BY <2>3
  <2> QED
    BY <2>1, <2>4 DEF ArgTexts
<1>7. DOMAIN t = 1..n /\ \A i \in 1..n : t[i][1] = l[i] /\ t[i][2] = v[l[i]]
  BY <1>4
<1>8. PathsOf(t) = DOMAIN v
  <2>1. ASSUME NEW p \in PathsOf(t) PROVE p \in DOMAIN v
    <3>1. PICK i \in 1..n : p = t[i][1]
      BY <1>7 DEF PathsOf
    <3> QED
      BY <1>2, <1>7, <3>1
  <2>2. ASSUME NEW p \in DOMAIN v PROVE p \in PathsOf(t)
    <3>1. PICK i \in 1..n : l[i] = p
      BY <1>2
    <3> QED
      BY <1>7, <3>1 DEF PathsOf
  <2> QED
    BY <2>1, <2>2
<1> QED
  BY <1>2, <1>3, <1>6, <1>7, <1>8

LEMMA InOrderTells ==
  ASSUME NEW v, Typed(v), NEW w, Typed(w), InOrder(v) = InOrder(w)
  PROVE  DOMAIN v = DOMAIN w /\ \A p \in DOMAIN v : v[p] = w[p]
<1>1. PICK t : t = InOrder(v)
  OBVIOUS
<1>2. /\ PathsOf(t) = DOMAIN v
      /\ \A i \in DOMAIN t : t[i][1] \in DOMAIN v /\ t[i][2] = v[t[i][1]]
  BY <1>1, InOrderHolds
<1>3. /\ PathsOf(t) = DOMAIN w
      /\ \A i \in DOMAIN t : t[i][1] \in DOMAIN w /\ t[i][2] = w[t[i][1]]
  BY <1>1, InOrderHolds
<1>4. ASSUME NEW p \in DOMAIN v PROVE v[p] = w[p]
  <2>1. PICK i \in DOMAIN t : t[i][1] = p
    BY <1>2 DEF PathsOf
  <2> QED
    BY <1>2, <1>3, <2>1
<1> QED
  BY <1>2, <1>3, <1>4

\* Of the members with one name the last is one of them.
LEMMA LastHolds ==
  ASSUME NEW text \in ArgTexts, NEW p \in PathsOf(text),
         NEW last, last = SelectLastInSeq(text, LAMBDA pair : pair[1] = p)
  PROVE  last \in DOMAIN text /\ text[last][1] = p
<1> DEFINE I == {i \in 1..Len(text) : text[i][1] = p}
<1>1. DOMAIN text = 1..Len(text) /\ Len(text) \in Nat
  BY DEF ArgTexts
<1>2. I # {} /\ I \subseteq 1..Len(text)
  BY <1>1 DEF PathsOf
<1>3. \E i \in I : \A j \in I : i >= j
  <2> DEFINE F == {Len(text) - i : i \in I}
  <2>1. F \subseteq Nat /\ F # {}
    BY <1>1, <1>2
  <2>2. PICK f \in F : \A g \in F : <<g, f>> \notin OpToRel(<, Nat)
    BY <2>1, NatLessThanWellFounded, WFMin
  <2>3. PICK i \in I : f = Len(text) - i
    BY <2>2
  <2>4. ASSUME NEW j \in I PROVE i >= j
    <3>1. Len(text) - j \in F
      OBVIOUS
    <3>2. ~(Len(text) - j < f)
      BY <2>1, <2>2, <3>1 DEF OpToRel
    <3> QED
      BY <1>1, <1>2, <2>3, <3>2
  <2> QED
    BY <2>4
<1>4. last = IF I # {} THEN Max(I) ELSE 0
  BY DEF SelectLastInSeq
<1>5. last \in I
  BY <1>2, <1>3, <1>4 DEF Max
<1> QED
  BY <1>1, <1>5

LEMMA ReadHolds ==
  ASSUME NEW text \in ArgTexts, NEW r
  PROVE  /\ DOMAIN Native(r, text) = PathsOf(text)
         /\ \A p \in PathsOf(text) : \E i \in DOMAIN text :
              text[i][1] = p /\ Native(r, text)[p] = Parsed(r, text[i][2])
<1>1. ASSUME NEW p \in PathsOf(text)
      PROVE  \E i \in DOMAIN text : text[i][1] = p /\ Native(r, text)[p] = Parsed(r, text[i][2])
  <2>1. PICK last : last = SelectLastInSeq(text, LAMBDA pair : pair[1] = p)
    OBVIOUS
  <2>2. last \in DOMAIN text /\ text[last][1] = p
    BY <2>1, LastHolds
  <2>3. Native(r, text)[p] = Parsed(r, text[last][2])
    BY <2>1 DEF Native
  <2> QED
    BY <2>2, <2>3
<1> QED
  BY <1>1 DEF Native

LEMMA ReadBack ==
  ASSUME NEW v, Typed(v), NEW r
  PROVE  /\ DOMAIN Native(r, InOrder(v)) = DOMAIN v
         /\ \A p \in DOMAIN v : Native(r, InOrder(v))[p] = Parsed(r, v[p])
<1>1. PICK t : t = InOrder(v)
  OBVIOUS
<1>2. /\ t \in ArgTexts /\ PathsOf(t) = DOMAIN v
      /\ \A i \in DOMAIN t : t[i][2] = v[t[i][1]]
  BY <1>1, InOrderHolds
<1>3. /\ DOMAIN Native(r, t) = PathsOf(t)
      /\ \A p \in PathsOf(t) : \E i \in DOMAIN t :
           t[i][1] = p /\ Native(r, t)[p] = Parsed(r, t[i][2])
  BY <1>2, ReadHolds
<1> QED
  BY <1>1, <1>2, <1>3

\* One number in two kinds, or one scalar.
Alike(s, t) == s = t \/ (IsNumber(s) /\ IsNumber(t) /\ s[2] = t[2])

\* A scalar every runtime holds alike.
Plain(s) == s[1] # "nan" /\ (IsNumber(s) => s[2] < Limit)

LEMMA NumberTyped == \A s \in Scalar : IsNumber(s) => s \in Numbers
  BY ArgBindingAssumption DEF Scalar, Numbers, IsNumber

LEMMA DoubleHolds ==
  /\ \A n \in Nat : Double(n) \in Nat /\ (n < Limit => Double(n) = n)
  /\ \A n, m \in Nat : n < Limit /\ Double(n) = Double(m) => n = m
<1>1. Limit \in Nat
  BY ArgBindingAssumption
<1>2. ASSUME NEW n \in Nat
      PROVE  /\ Double(n) \in Nat /\ (n <= Limit => Double(n) = n)
             /\ (n > Limit => Double(n) >= Limit)
  BY <1>1 DEF Double
<1>3. ASSUME NEW n \in Nat, NEW m \in Nat, n < Limit, Double(n) = Double(m) PROVE n = m
  BY <1>1, <1>2, <1>3
<1> QED
  BY <1>1, <1>2, <1>3

LEMMA ScalarHolds ==
  ASSUME NEW s \in Scalar, NEW r
  PROVE  /\ {Parsed(r, s), Written(r, s), Printed(s)} \subseteq Scalar
         /\ Plain(s) => /\ Alike(Parsed(r, s), s) /\ Plain(Parsed(r, s))
                        /\ Alike(Written(r, s), s) /\ Alike(Printed(s), s)
<1>1. CASE IsNumber(s)
  <2>1. PICK k \in {"int", "float"}, n \in Nat : s = <<k, n>>
    BY <1>1, NumberTyped DEF Numbers
  <2>2. Parsed(r, s) = s \/ Parsed(r, s) = <<"float", Double(n)>>
    BY <2>1 DEF Parsed
  <2>3. /\ Written(r, s) = s \/ Written(r, s) = <<"int", n>>
        /\ Printed(s) = s \/ Printed(s) = <<"int", n>>
    BY <2>1 DEF Written, Printed
  <2>4. Double(n) \in Nat /\ (n < Limit => Double(n) = n)
    BY DoubleHolds
  <2>5. \A m \in Nat : <<"int", m>> \in Scalar /\ <<"float", m>> \in Scalar
    BY DEF Scalar, Numbers
  <2>6. Plain(s) => n < Limit
    BY <1>1, <2>1 DEF Plain
  <2>7. {Parsed(r, s), Written(r, s), Printed(s)} \subseteq Scalar
    BY <2>2, <2>3, <2>4, <2>5
  <2>8. \A x \in {s, <<"int", n>>, <<"float", n>>} : Alike(x, s) /\ (n < Limit => Plain(x))
    BY <2>1 DEF Alike, Plain, IsNumber
  <2> QED
    BY <2>2, <2>3, <2>4, <2>6, <2>7, <2>8
<1>2. CASE ~IsNumber(s)
  <2>1. Parsed(r, s) = s
    BY <1>2 DEF Parsed
  <2>2. Printed(s) = s
    BY <1>2 DEF Printed, IsNumber
  <2>3. Written(r, s) = s \/ (Written(r, s) = <<"null">> /\ s[1] = "nan")
    BY <1>2 DEF Written, IsNumber
  <2>4. <<"null">> \in Scalar
    BY DEF Scalar, Literals
  <2> QED
    BY <2>1, <2>2, <2>3, <2>4 DEF Alike, Plain
<1> QED
  BY <1>1, <1>2

LEMMA AlikeTells ==
  ASSUME NEW s \in Scalar, NEW t \in Scalar, Alike(s, t)
  PROVE  /\ Printed(s) = Printed(t)
         /\ Plain(s) <=> Plain(t)
         /\ IsNumber(s) <=> IsNumber(t)
         /\ IsNumber(s) => s[2] = t[2]
         /\ ~IsNumber(s) => s = t
         /\ IsNumber(s) /\ s[1] = "int" /\ t[1] = "int" => s = t
<1>1. CASE IsNumber(s) /\ IsNumber(t)
  <2>1. PICK k \in {"int", "float"}, n \in Nat : s = <<k, n>>
    BY <1>1, NumberTyped DEF Numbers
  <2>2. PICK l \in {"int", "float"}, m \in Nat : t = <<l, m>>
    BY <1>1, NumberTyped DEF Numbers
  <2>3. n = m
    BY <2>1, <2>2 DEF Alike
  <2>4. Printed(s) = <<"int", n>> /\ Printed(t) = <<"int", n>>
    BY <2>1, <2>2, <2>3 DEF Printed
  <2>5. Plain(s) <=> Plain(t)
    BY <1>1, <2>1, <2>2, <2>3 DEF Plain
  <2> QED
    BY <1>1, <2>1, <2>2, <2>3, <2>4, <2>5
<1>2. CASE ~(IsNumber(s) /\ IsNumber(t))
  BY <1>2 DEF Alike
<1> QED
  BY <1>1, <1>2

SaysSame(v, w) == DOMAIN v = DOMAIN w /\ \A p \in DOMAIN v : Alike(v[p], w[p])

LEMMA PortableHolds == ASSUME NEW v PROVE Portable(v) <=> \A p \in DOMAIN v : Plain(v[p])
  BY DEF Portable, HasNaN, Scalars, Plain

LEMMA SameHolds ==
  ASSUME NEW v, Typed(v), NEW w, Typed(w), SaysSame(v, w)
  PROVE  /\ SaysSame(w, v)
         /\ Portable(w) => Portable(v)
         /\ Meaning(v) = Meaning(w)
         /\ \A p \in DOMAIN v : Printed(v[p]) = Printed(w[p])
<1>1. /\ DOMAIN v = DOMAIN w
      /\ \A p \in DOMAIN v : v[p] \in Scalar /\ w[p] \in Scalar /\ Alike(v[p], w[p])
  BY DEF SaysSame, Typed
<1>2. SaysSame(w, v)
  BY <1>1 DEF SaysSame, Alike
<1>3. Portable(w) => Portable(v)
  BY <1>1, AlikeTells, PortableHolds
<1>4. Meaning(v) = Meaning(w)
  <2>1. ASSUME NEW p \in DOMAIN v
        PROVE  (IF IsNumber(v[p]) THEN <<"number", v[p][2]>> ELSE v[p])
               = (IF IsNumber(w[p]) THEN <<"number", w[p][2]>> ELSE w[p])
    BY <1>1, AlikeTells
  <2> QED
    BY <1>1, <2>1 DEF Meaning
<1>5. \A p \in DOMAIN v : Printed(v[p]) = Printed(w[p])
  BY <1>1, AlikeTells
<1> QED
  BY <1>2, <1>3, <1>4, <1>5

LEMMA SameTransitive ==
  ASSUME NEW u, NEW v, NEW w, SaysSame(u, v), SaysSame(v, w)
  PROVE  SaysSame(u, w)
  BY DEF SaysSame, Alike

LEMMA SpelledHolds ==
  ASSUME NEW v, Typed(v), NEW r,
         NEW w, w = [p \in DOMAIN v |-> Written(r, v[p])] \/ w = [p \in DOMAIN v |-> Printed(v[p])]
  PROVE  /\ Typed(w)
         /\ Portable(v) => SaysSame(w, v)
<1>1. DOMAIN w = DOMAIN v
  OBVIOUS
<1>2. \A p \in DOMAIN v : w[p] = Written(r, v[p]) \/ w[p] = Printed(v[p])
  OBVIOUS
<1>3. \A p \in DOMAIN v : v[p] \in Scalar
  BY DEF Typed
<1>4. \A p \in DOMAIN v : w[p] \in Scalar
  BY <1>2, <1>3, ScalarHolds
<1>5. ASSUME Portable(v), NEW p \in DOMAIN v PROVE Alike(w[p], v[p])
  BY <1>2, <1>3, <1>5, ScalarHolds, PortableHolds
<1>6. Typed(w)
  BY <1>1, <1>4 DEF Typed
<1> QED
  BY <1>1, <1>5, <1>6 DEF SaysSame

Legible(text) == text \in ArgTexts /\ Comparable(PathsOf(text))

LEMMA ReadTyped ==
  ASSUME NEW text, Legible(text), NEW r
  PROVE  Typed(Native(r, text))
<1>1. PICK v : v = Native(r, text)
  OBVIOUS
<1>2. /\ DOMAIN v = PathsOf(text)
      /\ \A p \in PathsOf(text) : \E i \in DOMAIN text : v[p] = Parsed(r, text[i][2])
  BY <1>1, ReadHolds DEF Legible
<1>3. \A i \in DOMAIN text : text[i][2] \in Scalar
  BY DEF Legible, ArgTexts
<1>4. \A p \in DOMAIN v : v[p] \in Scalar
  BY <1>2, <1>3, ScalarHolds
<1> QED
  BY <1>1, <1>2, <1>4 DEF Legible, Typed

LEMMA SpelledSound ==
  ASSUME NEW w, Typed(w), NEW r
  PROVE  /\ Legible(InOrder(w))
         /\ Portable(w) => SaysSame(Native(r, InOrder(w)), w)
<1>1. PICK t : t = InOrder(w)
  OBVIOUS
<1>2. t \in ArgTexts /\ PathsOf(t) = DOMAIN w
  BY <1>1, InOrderHolds
<1>3. Legible(t)
  BY <1>2 DEF Legible, Typed
<1>4. PICK v : v = Native(r, t)
  OBVIOUS
<1>5. DOMAIN v = DOMAIN w /\ \A p \in DOMAIN w : v[p] = Parsed(r, w[p])
  BY <1>1, <1>4, ReadBack
<1>6. ASSUME Portable(w), NEW p \in DOMAIN w PROVE Alike(v[p], w[p])
  <2>1. w[p] \in Scalar /\ Plain(w[p])
    BY <1>6, PortableHolds DEF Typed
  <2> QED
    BY <1>5, <2>1, ScalarHolds
<1> QED
  BY <1>1, <1>3, <1>4, <1>5, <1>6 DEF SaysSame

\* What a transport sends on says what it got.
LEMMA SerializeHolds ==
  ASSUME NEW v, Typed(v), NEW r, NEW q
  PROVE  /\ Legible(Serialize(r, v))
         /\ Portable(v) => SaysSame(Native(q, Serialize(r, v)), v)
<1>1. PICK w : w = [p \in DOMAIN v |-> Written(r, v[p])]
  OBVIOUS
<1>2. Typed(w) /\ (Portable(v) => SaysSame(w, v))
  BY <1>1, SpelledHolds
<1>3. Serialize(r, v) = InOrder(w)
  BY <1>1 DEF Serialize
<1>4. Portable(v) => Portable(w)
  BY <1>2, SameHolds
<1> QED
  BY <1>2, <1>3, <1>4, SpelledSound, SameTransitive

\* The text that is signed, under either profile.
LEMMA BindingHolds ==
  ASSUME NEW r \in Runtimes, NEW profile \in Profiles,
         NEW v, Typed(v), Structured(v), Portable(v)
  PROVE  \E w : /\ Typed(w) /\ SaysSame(w, v) /\ Portable(w)
                /\ BindArgs(r, profile, v) = InOrder(w)
<1>1. CanonicalArgs(r, v) = Canonicalize(v)
  BY DEF CanonicalArgs, Structured
<1>2. PICK w : /\ w = [p \in DOMAIN v |-> Written(r, v[p])] \/ w = [p \in DOMAIN v |-> Printed(v[p])]
               /\ BindArgs(r, profile, v) = InOrder(w)
  BY <1>1 DEF BindArgs, Canonicalize, Serialize
<1>3. Typed(w) /\ SaysSame(w, v)
  BY <1>2, SpelledHolds
<1>4. Portable(w)
  BY <1>3, SameHolds
<1> QED
  BY <1>2, <1>3, <1>4

\* A call that is sent, as it stands: only pc tells whether it was judged.
Sent(c) ==
  /\ c = [pc |-> c.pc, holder |-> c.holder, verifier |-> c.verifier, signs |-> c.signs,
          checks |-> c.checks, args |-> c.args, binding |-> c.binding, declared |-> c.declared,
          carried |-> c.carried, body |-> c.body, relays |-> c.relays, altered |-> c.altered]
  /\ c.holder \in Runtimes /\ c.verifier \in Receivers
  /\ c.signs \in Profiles /\ c.checks \in Profiles
  /\ Typed(c.args) /\ Legible(c.body)
  /\ c.binding = BindArgs(c.holder, c.signs, c.args)
  /\ c.altered = {} =>
       /\ c.declared = c.signs
       /\ c.carried = IF c.signs = "octets" THEN c.binding ELSE None
       /\ Portable(c.args) => \A r : SaysSame(Native(r, c.body), c.args)

LEMMA AdmittedSays ==
  ASSUME NEW c, Sent(c), Admits(c), Portable(c.args), Structured(c.args),
         Structured(Native(c.verifier, c.body))
  PROVE  SaysSame(Native(c.verifier, c.body), c.args)
<1>1. PICK w : /\ Typed(w) /\ SaysSame(w, c.args) /\ Portable(w)
               /\ c.binding = InOrder(w)
  BY BindingHolds DEF Sent
<1>2. PICK d : d = Native(c.verifier, c.body)
  OBVIOUS
<1>3. Typed(d)
  BY <1>2, ReadTyped DEF Sent
<1>4. SaysSame(d, w)
  <2>1. CASE c.checks = "octets"
    <3>1. PICK x : x = Native(c.verifier, InOrder(w))
      OBVIOUS
    <3>2. SemanticEq(x, d)
      BY <1>1, <1>2, <2>1, <3>1 DEF Admits
    <3>3. SaysSame(x, w) /\ Typed(x)
      BY <1>1, <3>1, SpelledSound, ReadTyped
    <3>4. DOMAIN x = DOMAIN d /\ Portable(x)
      BY <1>1, <3>2, <3>3, SameHolds DEF SemanticEq
    <3>5. ASSUME NEW p \in DOMAIN d PROVE Alike(d[p], x[p])
      <4>1. x[p] \in Scalar /\ d[p] \in Scalar /\ Plain(x[p])
        BY <1>3, <3>3, <3>4, PortableHolds DEF Typed
      <4>2. CASE IsNumber(x[p]) /\ IsNumber(d[p])
        <5>1. x[p][2] \in Nat /\ d[p][2] \in Nat /\ x[p][2] < Limit
          BY <4>1, <4>2, NumberTyped DEF Numbers, Plain
        <5>2. NumbersEq(x[p], d[p])
          BY <3>2, <3>4, <4>2 DEF SemanticEq
        <5>3. x[p] = d[p] \/ Double(x[p][2]) = Double(d[p][2])
          BY <5>2 DEF NumbersEq
        <5> QED
          BY <4>2, <5>1, <5>3, DoubleHolds DEF Alike
      <4>3. CASE ~(IsNumber(x[p]) /\ IsNumber(d[p]))
        BY <3>2, <3>4, <4>3 DEF SemanticEq, Alike
      <4> QED
        BY <4>2, <4>3
    <3> QED
      BY <3>3, <3>4, <3>5, SameTransitive DEF SaysSame
  <2>2. CASE c.checks # "octets"
    <3>1. PICK y : y = [p \in DOMAIN d |-> Printed(d[p])]
      OBVIOUS
    <3>2. CanonicalArgs(c.verifier, d) = InOrder(y)
      BY <1>2, <3>1 DEF CanonicalArgs, Structured, Canonicalize
    <3>3. InOrder(y) = InOrder(w)
      BY <1>1, <1>2, <2>2, <3>2 DEF Admits
    <3>4. Typed(y)
      BY <1>3, <3>1, SpelledHolds
    <3>5. DOMAIN y = DOMAIN w /\ \A p \in DOMAIN y : y[p] = w[p]
      BY <1>1, <3>3, <3>4, InOrderTells
    <3>6. ASSUME NEW p \in DOMAIN d PROVE Alike(d[p], w[p])
      <4>1. d[p] \in Scalar /\ w[p] = Printed(d[p])
        BY <1>3, <3>1, <3>5 DEF Typed
      <4>2. CASE IsNumber(d[p])
        <5>1. PICK k \in {"int", "float"}, n \in Nat : d[p] = <<k, n>>
          BY <4>1, <4>2, NumberTyped DEF Numbers
        <5>2. w[p] = <<k, n>> \/ w[p] = <<"int", n>>
          BY <4>1, <5>1 DEF Printed
        <5> QED
          BY <5>1, <5>2 DEF Alike, IsNumber
      <4>3. CASE ~IsNumber(d[p])
        BY <4>1, <4>3 DEF Printed, IsNumber, Alike
      <4> QED
        BY <4>2, <4>3
    <3> QED
      BY <3>1, <3>5, <3>6 DEF SaysSame
  <2> QED
    BY <2>1, <2>2
<1> QED
  BY <1>1, <1>2, <1>4, SameTransitive

LEMMA UnalteredAdmitted ==
  ASSUME NEW c, Sent(c), Portable(c.args), Structured(c.args),
         c.altered = {}, c.signs = c.checks, Len(c.binding) <= MaxBoundArgs
  PROVE  Admits(c)
<1>1. PICK w : /\ Typed(w) /\ SaysSame(w, c.args) /\ Portable(w)
               /\ c.binding = InOrder(w)
  BY BindingHolds DEF Sent
<1>2. PICK d : d = Native(c.verifier, c.body)
  OBVIOUS
<1>3. Typed(d) /\ SaysSame(d, c.args) /\ Typed(c.args) /\ c.declared = c.checks
  BY <1>2, ReadTyped DEF Sent
<1>4. Portable(d)
  BY <1>3, SameHolds
<1>5. CASE c.checks = "octets"
  <2>1. c.carried = InOrder(w) /\ c.carried = c.binding
    BY <1>1, <1>5 DEF Sent
  <2>2. Usable(c.carried)
    <3>1. InOrder(w) \in ArgTexts
      BY <1>1, SpelledSound DEF Legible
    <3> QED
      BY <2>1, <3>1, ArgBindingAssumption DEF Usable
  <2>3. PICK x : x = Native(c.verifier, c.carried)
    OBVIOUS
  <2>4. SaysSame(x, w) /\ Typed(x)
    BY <1>1, <2>1, <2>3, SpelledSound, ReadTyped
  <2>5. SaysSame(x, d)
    BY <1>1, <1>3, <2>4, SameHolds, SameTransitive
  <2>6. ASSUME NEW p \in DOMAIN x
        PROVE  IF IsNumber(x[p]) /\ IsNumber(d[p]) THEN NumbersEq(x[p], d[p]) ELSE x[p] = d[p]
    <3>1. x[p] \in Scalar /\ d[p] \in Scalar /\ Alike(x[p], d[p])
      BY <1>3, <2>4, <2>5 DEF SaysSame, Typed
    <3> QED
      BY <3>1, AlikeTells DEF NumbersEq
  <2>7. SemanticEq(x, d)
    BY <2>5, <2>6 DEF SemanticEq, SaysSame
  <2> QED
    BY <1>2, <1>3, <1>5, <2>1, <2>2, <2>3, <2>7 DEF Admits
<1>6. CASE c.checks # "octets"
  <2>1. c.signs = "jcs"
    BY <1>6 DEF Sent, Profiles
  <2>2. Representable(c.verifier, "jcs", d)
    <3>1. ASSUME NEW p \in DOMAIN d, d[p][1] = "int" PROVE d[p][2] <= Wide
      <4>1. d[p] \in Scalar /\ Plain(d[p]) /\ IsNumber(d[p])
        BY <1>3, <1>4, <3>1, PortableHolds DEF Typed, IsNumber
      <4>2. d[p][2] \in Nat /\ d[p][2] < Limit
        BY <4>1, NumberTyped DEF Numbers, Plain
      <4> QED
        BY <4>2, ArgBindingAssumption
    <3>2. \A s \in Scalars(d) : s[1] = "int" => s[2] <= Wide
      BY <3>1 DEF Scalars
    <3>3. ~HasNaN(d)
      BY <1>4 DEF Portable
    <3> QED
      BY <3>2, <3>3 DEF Representable
  <2>3. Structured(d)
    BY <1>3 DEF Structured, SaysSame
  <2>4. /\ CanonicalArgs(c.verifier, d) = Canonicalize(d)
        /\ CanonicalArgs(c.holder, c.args) = Canonicalize(c.args)
    BY <2>3 DEF CanonicalArgs, Structured
  <2>5. Canonicalize(d) = Canonicalize(c.args)
    <3>1. DOMAIN d = DOMAIN c.args /\ \A p \in DOMAIN d : Printed(d[p]) = Printed(c.args[p])
      BY <1>3, SameHolds DEF SaysSame
    <3>2. [p \in DOMAIN d |-> Printed(d[p])] = [p \in DOMAIN c.args |-> Printed(c.args[p])]
      BY <3>1
    <3> QED
      BY <3>2 DEF Canonicalize
  <2>6. c.binding = CanonicalArgs(c.holder, c.args)
    BY <2>1 DEF Sent, BindArgs
  <2> QED
    BY <1>2, <1>3, <1>6, <2>2, <2>4, <2>5, <2>6 DEF Admits
<1> QED
  BY <1>5, <1>6

ArgInv ==
  \/ call \in NewCalls
  \/ /\ Sent(call)
     /\ call.pc \in {"sent", "admitted", "refused"}
     /\ call.pc = "admitted" => Admits(call)
     /\ call.pc = "refused" => ~Admits(call)

LEMMA BindSends == ASSUME ArgInv, Bind PROVE ArgInv'
<1>1. call \in NewCalls
  BY DEF ArgInv, Bind
<1>2. /\ call.holder \in Runtimes /\ call.verifier \in Receivers
      /\ call.signs \in Profiles /\ call.checks \in Profiles
  BY <1>1 DEF NewCalls
<1>3. PICK v \in {Native(call.holder, text) : text \in Arguments} \cup Beyond :
        call' = [pc |-> "sent", holder |-> call.holder, verifier |-> call.verifier,
                 signs |-> call.signs, checks |-> call.checks,
                 args |-> v, binding |-> BindArgs(call.holder, call.signs, v),
                 declared |-> call.signs,
                 carried |-> IF call.signs = "octets"
                             THEN BindArgs(call.holder, call.signs, v) ELSE None,
                 body |-> Serialize(call.holder, v), relays |-> 0, altered |-> {}]
  BY DEF Bind
<1>4. Typed(v)
  <2>1. CASE v \in Beyond
    <3>1. \A p \in DOMAIN v : v[p] \in Scalars(v)
      BY DEF Scalars
    <3>2. Scalars(v) \subseteq Literals
      BY <2>1 DEF Literals
    <3> QED
      BY <2>1, <3>1, <3>2, ArgBindingAssumption DEF Typed, Scalar
  <2>2. ASSUME NEW text \in Arguments, v = Native(call.holder, text) PROVE Typed(v)
    <3>1. Legible(text)
      BY ArgBindingAssumption DEF Legible
    <3> QED
      BY <2>2, <3>1, ReadTyped
  <2> QED
    BY <2>1, <2>2
<1>5. PICK c : c = call'
  OBVIOUS
<1>6. /\ c = [pc |-> c.pc, holder |-> c.holder, verifier |-> c.verifier, signs |-> c.signs,
              checks |-> c.checks, args |-> c.args, binding |-> c.binding,
              declared |-> c.declared, carried |-> c.carried, body |-> c.body,
              relays |-> c.relays, altered |-> c.altered]
      /\ c.pc = "sent" /\ c.args = v /\ c.body = Serialize(call.holder, v)
      /\ c.holder = call.holder /\ c.verifier = call.verifier
      /\ c.signs = call.signs /\ c.checks = call.checks
      /\ c.binding = BindArgs(call.holder, call.signs, v) /\ c.declared = c.signs
      /\ c.carried = IF c.signs = "octets" THEN c.binding ELSE None
  BY <1>3, <1>5
<1>7. /\ Legible(c.body)
      /\ Portable(c.args) => \A r : SaysSame(Native(r, c.body), c.args)
  BY <1>4, <1>6, SerializeHolds
<1>8. Sent(c)
  BY <1>2, <1>4, <1>6, <1>7 DEF Sent
<1> QED
  BY <1>5, <1>6, <1>8 DEF ArgInv

\* A change to what is on its way, and to what is known to have been altered.
LEMMA ChangeKeeps ==
  ASSUME NEW c, Sent(c), NEW d, Legible(d.body),
         d = [c EXCEPT !.declared = d.declared, !.carried = d.carried, !.body = d.body,
                       !.relays = d.relays, !.altered = d.altered],
         \/ d.altered # {}
         \/ /\ c.altered = {} /\ d.declared = c.declared /\ d.carried = c.carried
            /\ Portable(c.args) => \A r : SaysSame(Native(r, d.body), c.args)
  PROVE  Sent(d) /\ d.pc = c.pc
<1>1. /\ d = [pc |-> d.pc, holder |-> d.holder, verifier |-> d.verifier, signs |-> d.signs,
              checks |-> d.checks, args |-> d.args, binding |-> d.binding,
              declared |-> d.declared, carried |-> d.carried, body |-> d.body,
              relays |-> d.relays, altered |-> d.altered]
      /\ d.pc = c.pc /\ d.holder = c.holder /\ d.verifier = c.verifier
      /\ d.signs = c.signs /\ d.checks = c.checks /\ d.args = c.args /\ d.binding = c.binding
  BY DEF Sent
<1> QED
  BY <1>1 DEF Sent

LEMMA RelayKeeps == ASSUME ArgInv, Relay PROVE ArgInv'
<1>1. Sent(call) /\ call.pc = "sent"
  BY DEF ArgInv, NewCalls, Relay
<1>2. PICK r \in Runtimes : call' = [call EXCEPT !.relays = @ + 1, !.body = Serialize(r, Native(r, @))]
  BY DEF Relay
<1>3. PICK v : v = Native(r, call.body)
  OBVIOUS
<1>4. Typed(v)
  BY <1>1, <1>3, ReadTyped DEF Sent
<1>5. PICK d : d = call'
  OBVIOUS
<1>6. /\ d = [call EXCEPT !.declared = d.declared, !.carried = d.carried, !.body = d.body,
                          !.relays = d.relays, !.altered = d.altered]
      /\ d.body = Serialize(r, v) /\ d.altered = call.altered
      /\ d.declared = call.declared /\ d.carried = call.carried
  BY <1>1, <1>2, <1>3, <1>5 DEF Sent
<1>7. Legible(d.body)
  BY <1>4, <1>6, SerializeHolds
<1>8. ASSUME call.altered = {}, Portable(call.args), NEW q
      PROVE  SaysSame(Native(q, d.body), call.args)
  <2>1. SaysSame(v, call.args) /\ Typed(call.args)
    BY <1>1, <1>3, <1>8 DEF Sent
  <2>2. Portable(v)
    BY <1>4, <1>8, <2>1, SameHolds
  <2>3. SaysSame(Native(q, d.body), v)
    BY <1>4, <1>6, <2>2, SerializeHolds
  <2> QED
    BY <2>1, <2>3, SameTransitive
<1>9. Sent(d) /\ d.pc = "sent"
  BY <1>1, <1>6, <1>7, <1>8, ChangeKeeps
<1> QED
  BY <1>5, <1>9 DEF ArgInv

LEMMA AlterKeeps == ASSUME ArgInv, Alter PROVE ArgInv'
<1>1. Sent(call) /\ call.pc = "sent"
  BY DEF ArgInv, NewCalls, Alter
<1>2. PICK d : d = call'
  OBVIOUS
<1>3. ASSUME NEW text \in Arguments, Altered("body", "body", text)
      PROVE  Sent(d) /\ d.pc = "sent"
  <2>1. d = [call EXCEPT !.body = text, !.altered = call.altered \cup {"body"}]
    BY <1>2, <1>3 DEF Altered
  <2>2. /\ d = [call EXCEPT !.declared = d.declared, !.carried = d.carried, !.body = d.body,
                            !.relays = d.relays, !.altered = d.altered]
        /\ d.body = text /\ d.altered # {}
    BY <1>1, <2>1 DEF Sent
  <2>3. Legible(text)
    BY <1>3, ArgBindingAssumption DEF Legible
  <2> QED
    BY <1>1, <2>2, <2>3, ChangeKeeps
<1>4. ASSUME NEW text \in Arguments \cup {None}, Altered("copy", "carried", text)
      PROVE  Sent(d) /\ d.pc = "sent"
  <2>1. d = [call EXCEPT !.carried = text, !.altered = call.altered \cup {"copy"}]
    BY <1>2, <1>4 DEF Altered
  <2>2. /\ d = [call EXCEPT !.declared = d.declared, !.carried = d.carried, !.body = d.body,
                            !.relays = d.relays, !.altered = d.altered]
        /\ d.body = call.body /\ d.altered # {}
    BY <1>1, <2>1 DEF Sent
  <2> QED
    BY <1>1, <2>2, ChangeKeeps DEF Sent
<1>5. ASSUME Altered("profile", "declared", call.checks)
      PROVE  Sent(d) /\ d.pc = "sent"
  <2>1. d = [call EXCEPT !.declared = call.checks, !.altered = call.altered \cup {"profile"}]
    BY <1>2, <1>5 DEF Altered
  <2>2. /\ d = [call EXCEPT !.declared = d.declared, !.carried = d.carried, !.body = d.body,
                            !.relays = d.relays, !.altered = d.altered]
        /\ d.body = call.body /\ d.altered # {}
    BY <1>1, <2>1 DEF Sent
  <2> QED
    BY <1>1, <2>2, ChangeKeeps DEF Sent
<1> QED
  BY <1>2, <1>3, <1>4, <1>5 DEF Alter, ArgInv

LEMMA ReceiveKeeps == ASSUME ArgInv, Receive PROVE ArgInv'
<1>1. Sent(call) /\ call.pc = "sent"
  BY DEF ArgInv, NewCalls, Receive
<1>2. PICK d : d = call'
  OBVIOUS
<1>3. d = [call EXCEPT !.pc = IF Admits(call) THEN "admitted" ELSE "refused"]
  BY <1>2 DEF Receive
<1>4. /\ d = [pc |-> d.pc, holder |-> d.holder, verifier |-> d.verifier, signs |-> d.signs,
              checks |-> d.checks, args |-> d.args, binding |-> d.binding,
              declared |-> d.declared, carried |-> d.carried, body |-> d.body,
              relays |-> d.relays, altered |-> d.altered]
      /\ d.holder = call.holder /\ d.verifier = call.verifier /\ d.signs = call.signs
      /\ d.checks = call.checks /\ d.args = call.args /\ d.binding = call.binding
      /\ d.declared = call.declared /\ d.carried = call.carried /\ d.body = call.body
      /\ d.altered = call.altered
      /\ d.pc = IF Admits(call) THEN "admitted" ELSE "refused"
  BY <1>1, <1>3 DEF Sent
<1>5. Sent(d)
  BY <1>1, <1>4 DEF Sent
<1>6. Admits(d) <=> Admits(call)
  BY <1>4 DEF Admits
<1> QED
  BY <1>2, <1>4, <1>5, <1>6 DEF ArgInv

\* A2AVerifier.authorize: between any runtimes and under any profiles, a call that is
\* admitted with arguments every runtime holds alike delivers what the holder signed,
\* whatever was done to it on the way; and one nobody altered is admitted.
THEOREM BoundAlwaysDelivered == ArgumentsSpec => []BoundIsDelivered
<1>1. ArgumentsInit => ArgInv
  BY DEF ArgumentsInit, ArgInv
<1>2. ArgInv /\ [ArgumentsNext]_call => ArgInv'
  <2>1. ASSUME ArgInv, UNCHANGED call PROVE ArgInv'
    BY <2>1 DEF ArgInv, Admits
  <2> QED
    BY <2>1, BindSends, RelayKeeps, AlterKeeps, ReceiveKeeps DEF ArgumentsNext
<1>3. ArgInv => BoundIsDelivered
  <2>1. ASSUME ArgInv, call.pc \in {"admitted", "refused"}, Portable(call.args), Structured(call.args)
        PROVE  /\ call.pc = "admitted" /\ Structured(Delivered) => Understood
               /\ (/\ call.altered = {} /\ call.signs = call.checks
                   /\ Len(call.binding) <= MaxBoundArgs) => call.pc = "admitted"
    <3>1. /\ Sent(call) /\ (call.pc = "admitted" => Admits(call))
          /\ (call.pc = "refused" => ~Admits(call))
      BY <2>1 DEF ArgInv, NewCalls
    <3>2. ASSUME call.pc = "admitted", Structured(Delivered) PROVE Understood
      <4>1. SaysSame(Delivered, call.args)
        BY <2>1, <3>1, <3>2, AdmittedSays DEF Delivered
      <4>2. Typed(Delivered) /\ Typed(call.args)
        BY <3>1, ReadTyped DEF Sent, Delivered
      <4> QED
        BY <4>1, <4>2, SameHolds DEF Understood
    <3>3. ASSUME call.altered = {}, call.signs = call.checks, Len(call.binding) <= MaxBoundArgs
          PROVE  call.pc = "admitted"
      BY <2>1, <3>1, <3>3, UnalteredAdmitted
    <3> QED
      BY <3>2, <3>3
  <2> QED
    BY <2>1 DEF BoundIsDelivered
<1> QED
  BY <1>1, <1>2, <1>3, PTL DEF ArgumentsSpec
=============================================================================
