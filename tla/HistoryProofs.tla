---------------------------- MODULE HistoryProofs ----------------------------
(***************************************************************************)
(* Proofs about the histories of MCClient (ChatHistory): for every number  *)
(* of conversations, messages and calls in flight, and however events are  *)
(* lost, repeated or late, a history is in order, a resync leaves no gap   *)
(* but what was not broadcast to the connection, unread counters count     *)
(* what is unseen, and nothing shown disappears without a cause.           *)
(* HistoryInv is inductive: it says what the calls under way carry, what   *)
(* the events tell, and what each resynced conversation has to hear of.    *)
(***************************************************************************)
EXTENDS MCClient, Integers, SequenceTheorems, FiniteSetTheorems, TLAPS

-----------------------------------------------------------------------------
(* Lists.  A finite set of numbers has one increasing enumeration at least: *)
(* an element's position is how many are not beyond it.                     *)

\* One cardinality, whichever module's.
LEMMA SameSize == \A S : R!Cardinality(S) = Cardinality(S) /\ H!Cardinality(S) = Cardinality(S)
  BY DEF R!Cardinality, H!Cardinality, Cardinality
LEMMA SameFinite == \A S : R!IsFiniteSet(S) <=> IsFiniteSet(S)
  BY DEF R!IsFiniteSet, IsFiniteSet

EnumeratesUp(f, S) ==
  /\ f \in [1..Cardinality(S) -> S]
  /\ \A i, j \in DOMAIN f : i < j => f[i] < f[j]
  /\ \A x \in S : \E i \in DOMAIN f : f[i] = x

LEMMA Enumerable == ASSUME NEW S \in SUBSET Nat, IsFiniteSet(S)
                    PROVE  \E f : EnumeratesUp(f, S)
<1> DEFINE n == Cardinality(S)
           UpTo(x) == {j \in S : j <= x}
           r == [x \in S |-> Cardinality(UpTo(x))]
<1>1. n \in Nat
  BY FS_CardinalityType
<1>2. \A x \in S : IsFiniteSet(UpTo(x)) /\ r[x] \in 1..n
  <2> TAKE x \in S
  <2>1. IsFiniteSet(UpTo(x)) /\ Cardinality(UpTo(x)) <= n
    BY FS_Subset
  <2>2. Cardinality(UpTo(x)) \in Nat /\ (Cardinality(UpTo(x)) = 0 => UpTo(x) = {})
    BY <2>1, FS_CardinalityType, FS_EmptySet
  <2>3. x \in UpTo(x)
    OBVIOUS
  <2>4. QED
    BY <1>1, <2>1, <2>2, <2>3
<1>3. ASSUME NEW x \in S, NEW y \in S, x < y PROVE r[x] < r[y]
  <2>1. UpTo(x) \in SUBSET UpTo(y) /\ y \in UpTo(y) /\ y \notin UpTo(x)
    <3>1. x \in Nat /\ y \in Nat
      OBVIOUS
    <3>2. \A j \in S : j <= x => j <= y
      BY <1>3, <3>1
    <3>3. ~(y <= x) /\ y <= y
      BY <1>3, <3>1
    <3>4. QED
      BY <3>2, <3>3
  <2>2. IsFiniteSet(UpTo(y))
    BY <1>2
  <2>3. Cardinality(UpTo(x)) <= Cardinality(UpTo(y)) /\ Cardinality(UpTo(x)) # Cardinality(UpTo(y))
    BY <2>1, <2>2, FS_Subset
  <2>4. r[x] \in Nat /\ r[y] \in Nat /\ r[x] = Cardinality(UpTo(x)) /\ r[y] = Cardinality(UpTo(y))
    BY <1>2, <1>1
  <2>5. QED
    BY <2>3, <2>4
<1>4. r \in Injection(S, 1..n)
  <2>1. r \in [S -> 1..n]
    BY <1>2
  <2>2. \A x, y \in S : r[x] = r[y] => x = y
    <3> SUFFICES ASSUME NEW x \in S, NEW y \in S, r[x] = r[y], x # y PROVE FALSE
      OBVIOUS
    <3>1. x < y \/ y < x
      OBVIOUS
    <3>2. r[x] < r[y] \/ r[y] < r[x]
      BY <1>3, <3>1
    <3>3. r[x] \in Nat /\ r[y] \in Nat
      BY <1>2, <1>1
    <3> HIDE DEF r
    <3>4. QED
      BY <3>2, <3>3
  <2> HIDE DEF r
  <2>3. QED
    BY <2>1, <2>2 DEF Injection, IsInjective
<1>5. r \in Surjection(S, 1..n)
  <2>1. IsFiniteSet(1..n) /\ Cardinality(1..n) = n
    BY <1>1, FS_Interval
  <2> HIDE DEF r
  <2>2. QED
    BY <1>4, <2>1, FS_Injection
<1> DEFINE f == [i \in 1..n |-> CHOOSE x \in S : r[x] = i]
<1>6. \A i \in 1..n : f[i] \in S /\ r[f[i]] = i
  <2> HIDE DEF r
  <2>1. \A i \in 1..n : \E x \in S : r[x] = i
    BY <1>5 DEF Surjection
  <2>2. QED
    BY <2>1
<1>7. f \in [1..n -> S] /\ DOMAIN f = 1..n
  BY <1>6
<1>8. \A x \in S : \E i \in 1..n : f[i] = x
  <2> TAKE x \in S
  <2>1. r[x] \in 1..n
    BY <1>2
  <2>2. f[r[x]] \in S /\ r[f[r[x]]] = r[x]
    BY <1>6, <2>1
  <2>3. f[r[x]] = x
    <3> HIDE DEF r, f
    <3>1. QED
      BY <1>4, <2>2 DEF Injection, IsInjective
  <2>4. QED
    BY <2>1, <2>3
<1>9. \A i, j \in 1..n : i < j => f[i] < f[j]
  <2> SUFFICES ASSUME NEW i \in 1..n, NEW j \in 1..n, i < j PROVE f[i] < f[j]
    OBVIOUS
  <2>1. f[i] \in S /\ f[j] \in S /\ r[f[i]] = i /\ r[f[j]] = j
    BY <1>6
  <2> HIDE DEF f, r
  <2>2. f[i] \in Nat /\ f[j] \in Nat /\ i \in Nat /\ j \in Nat
    <3>1. f[i] \in Nat /\ f[j] \in Nat
      BY <2>1
    <3>2. \A m \in Nat : \A k \in 1..m : k \in Nat
      OBVIOUS
    <3>3. QED
      BY <1>1, <3>1, <3>2
  <2>3. CASE f[i] = f[j]
    BY <2>1, <2>2, <2>3
  <2>4. CASE f[j] < f[i]
    BY <1>3, <2>1, <2>2, <2>4
  <2>5. QED
    BY <2>2, <2>3, <2>4
<1> HIDE DEF f
<1>10. EnumeratesUp(f, S)
  BY <1>7, <1>8, <1>9 DEF EnumeratesUp
<1>11. QED
  BY <1>10

\* What sorting and filtering build their lists from.
LEMMA IncreasingIs == ASSUME NEW S \in SUBSET Nat, IsFiniteSet(S)
                      PROVE  EnumeratesUp(R!Increasing(S), S) /\ EnumeratesUp(H!Increasing(S), S)
<1> DEFINE Up(f) == \A i, j \in DOMAIN f : i < j => f[i] < f[j]
<1>1. PICK f0 : EnumeratesUp(f0, S)
  BY Enumerable
<1>2. Cardinality(S) \in Nat
  BY FS_CardinalityType
<1>3. f0 \in R!SetToSeqs(S)
  <2>1. f0 \in [1..Cardinality(S) -> S] /\ \A i, j \in 1..Cardinality(S) : i < j => f0[i] < f0[j]
    BY <1>1 DEF EnumeratesUp
  <2>2. \A i \in 1..Cardinality(S) : f0[i] \in Nat /\ i \in Nat
    <3>1. \A m \in Nat : \A k \in 1..m : k \in Nat
      OBVIOUS
    <3>2. QED
      BY <1>2, <2>1, <3>1
  <2>3. \A i, j \in 1..Cardinality(S) : i # j => f0[i] # f0[j]
    <3> TAKE i, j \in 1..Cardinality(S)
    <3> HAVE i # j
    <3>1. i < j \/ j < i
      BY <2>2
    <3>2. QED
      BY <2>1, <2>2, <3>1
  <2>4. QED
    BY <2>1, <2>3, SameSize DEF R!SetToSeqs
<1>4. R!Increasing(S) \in R!SetToSeqs(S) /\ Up(R!Increasing(S))
  BY <1>1, <1>3 DEF R!Increasing, EnumeratesUp
<1>5. ASSUME NEW f \in R!SetToSeqs(S), Up(f) PROVE EnumeratesUp(f, S)
  <2>1. f \in [1..Cardinality(S) -> S] /\ \A i, j \in 1..Cardinality(S) : i # j => f[i] # f[j]
    BY SameSize DEF R!SetToSeqs
  <2>2. f \in Injection(1..Cardinality(S), S)
    BY <2>1 DEF Injection, IsInjective
  <2>3. Cardinality(1..Cardinality(S)) = Cardinality(S)
    BY <1>2, FS_Interval
  <2>4. f \in Surjection(1..Cardinality(S), S)
    BY <2>2, <2>3, FS_Injection
  <2>5. QED
    BY <1>5, <2>1, <2>4 DEF EnumeratesUp, Surjection
<1>6. H!Increasing(S) = R!Increasing(S)
  BY SameSize DEF H!Increasing, R!Increasing, H!SetToSeqs, R!SetToSeqs
<1>7. QED
  BY <1>4, <1>5, <1>6

-----------------------------------------------------------------------------
(* Histories.  Sequences of messages, and the set of those in one.          *)

Ascends(ms) == \A i, j \in DOMAIN ms : i < j => ms[i] < ms[j]

LEMMA OfEnumeration == ASSUME NEW S \in SUBSET Nat, IsFiniteSet(S), NEW f, EnumeratesUp(f, S)
                       PROVE  f \in Seq(Nat) /\ f \in Seq(S) /\ Ascends(f) /\ H!ToSet(f) = S
<1>1. Cardinality(S) \in Nat
  BY FS_CardinalityType
<1>2. f \in [1..Cardinality(S) -> S] /\ f \in [1..Cardinality(S) -> Nat]
  BY DEF EnumeratesUp
<1>3. f \in Seq(S) /\ f \in Seq(Nat)
  BY <1>1, <1>2, SeqDef
<1>4. \A x : x \in H!ToSet(f) <=> x \in S
  BY <1>2 DEF H!ToSet, EnumeratesUp
<1>5. QED
  BY <1>3, <1>4 DEF EnumeratesUp, Ascends

LEMMA SetOfSeq == ASSUME NEW T, NEW ms \in Seq(T)
                  PROVE  IsFiniteSet(H!ToSet(ms)) /\ H!ToSet(ms) \subseteq T
<1>1. DOMAIN ms = 1..Len(ms) /\ Len(ms) \in Nat /\ \A i \in DOMAIN ms : ms[i] \in T
  BY LenProperties, ElementOfSeq
<1>2. ms \in Surjection(1..Len(ms), H!ToSet(ms))
  BY <1>1 DEF Surjection, H!ToSet
<1>3. IsFiniteSet(1..Len(ms))
  BY <1>1, FS_Interval
<1>4. IsFiniteSet(H!ToSet(ms))
  BY <1>2, <1>3, FS_Surjection DEF ExistsSurjection
<1>5. QED
  BY <1>1, <1>4 DEF H!ToSet

LEMMA Sorted == ASSUME NEW ms \in Seq(Nat)
                PROVE  /\ H!SortMessages(ms) \in Seq(Nat) /\ Ascends(H!SortMessages(ms))
                       /\ H!ToSet(H!SortMessages(ms)) = H!ToSet(ms)
<1> DEFINE S == H!ToSet(ms)
<1>1. S \in SUBSET Nat /\ IsFiniteSet(S)
  BY SetOfSeq
<1>2. H!SortMessages(ms) = H!Increasing(S)
  BY DEF H!SortMessages
<1> HIDE DEF S
<1>3. QED
  BY <1>1, <1>2, IncreasingIs, OfEnumeration DEF S

LEMMA SetOfConcat == ASSUME NEW T, NEW ms \in Seq(T), NEW ns \in Seq(T)
                     PROVE  ms \o ns \in Seq(T) /\ H!ToSet(ms \o ns) = H!ToSet(ms) \cup H!ToSet(ns)
<1> DEFINE cat == ms \o ns
           n == Len(ms)
           k == Len(ns)
<1>1. /\ cat \in Seq(T) /\ Len(cat) = n + k
      /\ \A i \in 1..(n + k) : cat[i] = IF i <= n THEN ms[i] ELSE ns[i - n]
  BY ConcatProperties
<1>2. n \in Nat /\ k \in Nat /\ DOMAIN ms = 1..n /\ DOMAIN ns = 1..k /\ DOMAIN cat = 1..(n + k)
  <2>1. n \in Nat /\ k \in Nat /\ DOMAIN ms = 1..n /\ DOMAIN ns = 1..k /\ DOMAIN cat = 1..Len(cat)
    BY <1>1, LenProperties
  <2> HIDE DEF cat, n, k
  <2>2. QED
    BY <1>1, <2>1
<1> HIDE DEF cat, n, k
<1>3. \A x \in H!ToSet(cat) : x \in H!ToSet(ms) \cup H!ToSet(ns)
  <2> TAKE x \in H!ToSet(cat)
  <2>1. PICK i \in 1..(n + k) : cat[i] = x
    BY <1>2 DEF H!ToSet
  <2>2. IF i <= n THEN i \in 1..n /\ ms[i] = x ELSE i - n \in 1..k /\ ns[i - n] = x
    BY <1>1, <1>2, <2>1
  <2>3. QED
    BY <1>2, <2>2 DEF H!ToSet
<1>4. \A x \in H!ToSet(ms) : x \in H!ToSet(cat)
  <2> TAKE x \in H!ToSet(ms)
  <2>1. PICK i \in 1..n : ms[i] = x
    BY <1>2 DEF H!ToSet
  <2>2. i \in 1..(n + k) /\ i <= n
    BY <1>2
  <2>3. cat[i] = x
    BY <1>1, <2>1, <2>2
  <2>4. QED
    BY <1>2, <2>2, <2>3 DEF H!ToSet
<1>5. \A x \in H!ToSet(ns) : x \in H!ToSet(cat)
  <2> TAKE x \in H!ToSet(ns)
  <2>1. PICK i \in 1..k : ns[i] = x
    BY <1>2 DEF H!ToSet
  <2>2. i + n \in 1..(n + k) /\ ~(i + n <= n) /\ (i + n) - n = i
    BY <1>2
  <2>3. cat[i + n] = x
    BY <1>1, <2>1, <2>2
  <2>4. QED
    BY <1>2, <2>2, <2>3 DEF H!ToSet
<1>6. H!ToSet(cat) = H!ToSet(ms) \cup H!ToSet(ns)
  BY <1>3, <1>4, <1>5
<1>7. QED
  BY <1>1, <1>6 DEF cat

LEMMA Merged == ASSUME NEW ms \in Seq(Nat), NEW ns \in Seq(Nat)
                PROVE  /\ H!SortMessages(ms \o ns) \in Seq(Nat) /\ Ascends(H!SortMessages(ms \o ns))
                       /\ H!ToSet(H!SortMessages(ms \o ns)) = H!ToSet(ms) \cup H!ToSet(ns)
                       /\ H!MergeMessages(ms, ns) = H!SortMessages(ms \o ns)
<1> DEFINE cat == ms \o ns
<1>1. cat \in Seq(Nat) /\ H!ToSet(cat) = H!ToSet(ms) \cup H!ToSet(ns)
  BY SetOfConcat
<1>2. H!MergeMessages(ms, ns) = H!SortMessages(cat)
  BY DEF H!MergeMessages
<1> HIDE DEF cat
<1>3. QED
  BY <1>1, <1>2, Sorted DEF cat

LEMMA SetOfReverse == ASSUME NEW T, NEW ms \in Seq(T)
                      PROVE  H!Reverse(ms) \in Seq(T) /\ H!ToSet(H!Reverse(ms)) = H!ToSet(ms)
<1> DEFINE back == H!Reverse(ms)
           n == Len(ms)
<1>1. n \in Nat /\ DOMAIN ms = 1..n /\ \A i \in 1..n : ms[i] \in T
  BY LenProperties, ElementOfSeq
<1>2. back = [i \in 1..n |-> ms[(n - i) + 1]]
  BY DEF H!Reverse
<1>3. \A i \in 1..n : (n - i) + 1 \in 1..n /\ (n - ((n - i) + 1)) + 1 = i
  BY <1>1
<1> HIDE DEF back, n
<1>4. back \in [1..n -> T]
  BY <1>1, <1>2, <1>3
<1>5. back \in Seq(T)
  BY <1>1, <1>4, SeqDef
<1>6. \A x : x \in H!ToSet(back) => x \in H!ToSet(ms)
  BY <1>1, <1>2, <1>3 DEF H!ToSet
<1>7. \A x \in H!ToSet(ms) : x \in H!ToSet(back)
  <2> TAKE x \in H!ToSet(ms)
  <2>1. PICK i \in 1..n : ms[i] = x
    BY <1>1 DEF H!ToSet
  <2>2. back[(n - i) + 1] = x
    BY <1>2, <1>3, <2>1
  <2>3. QED
    BY <1>3, <1>4, <2>2 DEF H!ToSet
<1>8. QED
  BY <1>5, <1>6, <1>7 DEF back

LEMMA WithoutOne == ASSUME NEW ms \in Seq(Nat), Ascends(ms), NEW id
                    PROVE  /\ H!Without(ms, id) \in Seq(Nat) /\ Ascends(H!Without(ms, id))
                           /\ H!ToSet(H!Without(ms, id)) = H!ToSet(ms) \ {id}
<1> DEFINE S == {i \in DOMAIN ms : ms[i] # id}
           f == H!Increasing(S)
           w == [k \in DOMAIN f |-> ms[f[k]]]
<1>1. DOMAIN ms = 1..Len(ms) /\ Len(ms) \in Nat /\ \A i \in DOMAIN ms : ms[i] \in Nat
  BY LenProperties, ElementOfSeq
<1>2. S \in SUBSET Nat /\ IsFiniteSet(S) /\ S \subseteq DOMAIN ms
  <2>1. IsFiniteSet(1..Len(ms))
    BY <1>1, FS_Interval
  <2>2. S \in SUBSET (1..Len(ms)) /\ 1..Len(ms) \subseteq Nat
    BY <1>1
  <2>3. QED
    BY <2>1, <2>2, FS_Subset
<1>3. Cardinality(S) \in Nat
  BY <1>2, FS_CardinalityType
<1>4. EnumeratesUp(f, S)
  BY <1>2, IncreasingIs
<1>5. H!Without(ms, id) = w
  BY DEF H!Without
<1>6. S = {i \in DOMAIN ms : ms[i] # id}
  OBVIOUS
<1> HIDE DEF f, S
<1>7. DOMAIN f = 1..Cardinality(S) /\ \A k \in DOMAIN f : f[k] \in S /\ f[k] \in DOMAIN ms
  BY <1>2, <1>4 DEF EnumeratesUp
<1>8. DOMAIN w = DOMAIN f /\ \A k \in DOMAIN w : w[k] = ms[f[k]]
  OBVIOUS
<1> HIDE DEF w
<1>9. w \in Seq(Nat)
  <2>1. w \in [1..Cardinality(S) -> Nat]
    BY <1>1, <1>7, <1>8 DEF w
  <2>2. QED
    BY <1>3, <2>1, SeqDef
<1>10. Ascends(w)
  <2> SUFFICES ASSUME NEW k \in DOMAIN f, NEW l \in DOMAIN f, k < l PROVE ms[f[k]] < ms[f[l]]
    BY <1>8 DEF Ascends
  <2>1. f[k] < f[l]
    BY <1>4 DEF EnumeratesUp
  <2>2. QED
    BY <1>7, <2>1 DEF Ascends
<1>11. \A x : x \in H!ToSet(w) <=> x \in H!ToSet(ms) /\ x # id
  <2>1. ASSUME NEW x \in H!ToSet(w) PROVE x \in H!ToSet(ms) /\ x # id
    BY <1>6, <1>7, <1>8 DEF H!ToSet
  <2>2. ASSUME NEW x \in H!ToSet(ms), x # id PROVE x \in H!ToSet(w)
    <3>1. PICK i \in DOMAIN ms : ms[i] = x
      BY DEF H!ToSet
    <3>2. i \in S
      BY <1>6, <2>2, <3>1
    <3>3. PICK k \in DOMAIN f : f[k] = i
      BY <1>4, <3>2 DEF EnumeratesUp
    <3>4. QED
      BY <1>8, <3>1, <3>3 DEF H!ToSet
  <2>3. QED
    BY <2>1, <2>2
<1>12. QED
  BY <1>5, <1>9, <1>10, <1>11

LEMMA FirstIsLeast == ASSUME NEW ms \in Seq(Nat), Ascends(ms), ms # <<>>
                      PROVE  Head(ms) \in H!ToSet(ms) /\ Head(ms) \in Nat /\ \A x \in H!ToSet(ms) : Head(ms) <= x
<1>1. /\ Head(ms) = ms[1] /\ Len(ms) \in Nat \ {0} /\ DOMAIN ms = 1..Len(ms)
      /\ \A i \in DOMAIN ms : ms[i] \in Nat
  BY HeadTailProperties, EmptySeq, LenProperties, ElementOfSeq
<1>2. 1 \in DOMAIN ms /\ \A i \in DOMAIN ms : i = 1 \/ 1 < i
  BY <1>1
<1>3. \A i \in DOMAIN ms : ms[1] <= ms[i]
  BY <1>1, <1>2 DEF Ascends
<1>4. QED
  BY <1>1, <1>2, <1>3 DEF H!ToSet

-----------------------------------------------------------------------------
(* The invariant of histories: what the calls carry, what the events tell,  *)
(* and that a message a resync covers is shown, announced or being deleted. *)

Operations == {"load", "sync", "older", "createDM", "refresh", "send", "delete"}
Fetches == {"load", "sync", "older"}
IdsOf(c) == {i \in DOMAIN log : log[i].conv = c}
Calls == [op: Operations, conv: H!Convs, id: Nat, done: BOOLEAN, reply: Seq(Nat)]
Logged == [conv: H!Convs, mine: BOOLEAN, live: BOOLEAN]
Events == [type: {"message_created", "message_deleted"}, id: DOMAIN log]

HistoryTypes ==
  /\ log \in Seq(Logged) /\ Len(log) <= MaxMessages
  /\ link \in BOOLEAN /\ drops \in 0..MaxDrops /\ listening \subseteq H!Convs
  /\ sending \subseteq Events /\ wire \in Seq(Events)
  /\ calls \subseteq Calls
  /\ present \subseteq H!Convs /\ selected \in H!Convs \cup {none}
  /\ shown \in [H!Convs -> Seq(Nat)]
  /\ unread \in [H!Convs -> Nat]
  /\ loadingOlder \in BOOLEAN /\ hasOlder \in [H!Convs -> BOOLEAN]
  /\ synced \in [conv: H!Convs \cup {none}, from: Nat, upto: Nat] /\ replaced \subseteq H!Convs
  /\ handled \subseteq DOMAIN log /\ missed \subseteq DOMAIN log
  /\ told \subseteq DOMAIN log /\ belated \subseteq DOMAIN log

ShownInv == \A c \in H!Convs : H!ToSet(shown[c]) \subseteq IdsOf(c) /\ Ascends(shown[c])

\* A call carries what the server found, and a resync knows its connection.
CallInv(call) ==
  /\ call.op \in Fetches /\ call.done => H!ToSet(call.reply) \subseteq IdsOf(call.conv)
  /\ call.op = "send" /\ call.done =>
       Len(call.reply) = 1 /\ call.reply[1] \in IdsOf(call.conv) /\ log[call.reply[1]].mine
  /\ call.op = "delete" =>
       call.id \in IdsOf(call.conv) /\ log[call.id].mine /\ (call.done => ~log[call.id].live)
  /\ call.op = "sync" => /\ call.id <= drops /\ (link \/ call.id < drops)
                         /\ call.id = drops => call.conv \in present \cup replaced

\* An event tells of the server's past.
WireInv ==
  /\ \A i \in DOMAIN wire : wire[i].type = "message_deleted" => ~log[wire[i].id].live
  /\ \A ev \in sending : ev.type = "message_deleted" => ~log[ev.id].live

\* The creation of a message is announced to the open connection, or was not.
Created(id) == \E i \in DOMAIN wire : wire[i].id = id /\ wire[i].type = "message_created"
Expected(id) == Created(id) \/ H!Event("message_created", id) \in sending \/ id \in missed

Held(c, id) == id \in H!ToSet(shown[c]) \/ H!BeingDeleted(id)

\* Each message from the first one on is fetched or held, or is a later one
\* that is announced.
Covered(c, first, upto, fetched) ==
  /\ upto \in 0..Len(log)
  /\ \A id \in IdsOf(c) : log[id].live /\ first <= id =>
       id \in fetched \/ Held(c, id) \/ (upto < id /\ Expected(id))
First(reply) == IF reply = <<>> THEN 1 ELSE Head(reply)
Upto(reply) == IF reply = <<>> THEN 0 ELSE H!Last(reply)
SyncInv(call) ==
  call.op = "sync" /\ call.done /\ link /\ call.id = drops /\ call.conv \in present \ replaced
    => Covered(call.conv, First(call.reply), Upto(call.reply), H!ToSet(call.reply))
SyncedInv == link /\ synced.conv \in present /\ Covered(synced.conv, synced.from, synced.upto, {})
ResyncInv ==
  /\ synced # H!NotSynced => SyncedInv
  /\ \A call \in calls : SyncInv(call)

\* A message no event told of has not been counted.
Unseen(c) == {id \in IdsOf(c) : ~log[id].mine /\ id \notin handled /\ id \in told}
Late(c) == \E id \in belated : log[id].conv = c
UnreadInv ==
  /\ \A c \in H!Convs : ~Late(c) => unread[c] <= Cardinality(Unseen(c))
  /\ \A id \in handled : id \notin told /\ ~log[id].mine => id \in H!ToSet(shown[log[id].conv])

HistoryInv ==
  /\ HistoryTypes /\ ShownInv /\ (\A call \in calls : CallInv(call)) /\ WireInv
  /\ ResyncInv /\ UnreadInv

LEMMA LogIs == ASSUME log \in Seq(Logged)
               PROVE  /\ DOMAIN log = 1..Len(log) /\ Len(log) \in Nat
                      /\ \A i \in DOMAIN log : log[i] \in Logged /\ i \in Nat
                      /\ IsFiniteSet(DOMAIN log)
<1>1. DOMAIN log = 1..Len(log) /\ Len(log) \in Nat /\ \A i \in DOMAIN log : log[i] \in Logged
  BY LenProperties, ElementOfSeq
<1>2. IsFiniteSet(1..Len(log)) /\ \A m \in Nat : \A k \in 1..m : k \in Nat
  BY <1>1, FS_Interval
<1>3. QED
  BY <1>1, <1>2

LEMMA WireIs == ASSUME wire \in Seq(Events)
                PROVE  /\ DOMAIN wire = 1..Len(wire) /\ Len(wire) \in Nat
                       /\ \A i \in DOMAIN wire : wire[i] \in Events /\ i \in Nat
<1>1. DOMAIN wire = 1..Len(wire) /\ Len(wire) \in Nat /\ \A i \in DOMAIN wire : wire[i] \in Events
  BY LenProperties, ElementOfSeq
<1>2. \A m \in Nat : \A k \in 1..m : k \in Nat
  OBVIOUS
<1>3. QED
  BY <1>1, <1>2

\* What the list endpoints answer.
LEMMA ListingIs == ASSUME HistoryTypes, NEW c \in H!Convs, NEW before
                   PROVE  /\ H!Listing(c, before) \in Seq(Nat) /\ Ascends(H!Listing(c, before))
                          /\ H!ToSet(H!Listing(c, before)) =
                               IF c \in DMs THEN H!LiveIds(c)
                               ELSE H!Newest({i \in H!LiveIds(c) : i < before}, PageSize)
                          /\ H!ToSet(H!Listing(c, before)) \subseteq IdsOf(c)
<1> DEFINE older == {i \in H!LiveIds(c) : i < before}
           S == IF c \in DMs THEN H!LiveIds(c) ELSE H!Newest(older, PageSize)
<1>1. DOMAIN log \subseteq Nat /\ IsFiniteSet(DOMAIN log)
  BY LogIs DEF HistoryTypes
<1>2. S \subseteq IdsOf(c) /\ IdsOf(c) \subseteq DOMAIN log
  BY DEF H!LiveIds, H!Newest, IdsOf
<1>3. H!Listing(c, before) = H!Increasing(S)
  BY DEF H!Listing
<1> HIDE DEF S
<1>4. S \in SUBSET Nat /\ IsFiniteSet(S)
  <2>1. S \subseteq DOMAIN log
    BY <1>2
  <2>2. QED
    BY <1>1, <2>1, FS_Subset
<1>5. /\ H!Increasing(S) \in Seq(Nat) /\ Ascends(H!Increasing(S)) /\ H!ToSet(H!Increasing(S)) = S
  BY <1>4, IncreasingIs, OfEnumeration
<1>6. QED
  BY <1>2, <1>3, <1>5 DEF S

\* The last of a finite set of numbers.
LEMMA Last == ASSUME NEW S \in SUBSET Nat, IsFiniteSet(S), S # {}
              PROVE  \E x \in S : \A y \in S : y <= x
<1> DEFINE n == Cardinality(S)
<1>1. n \in Nat \ {0}
  BY FS_CardinalityType, FS_EmptySet
<1>2. PICK f : EnumeratesUp(f, S)
  BY Enumerable
<1>3. f \in [1..n -> S] /\ n \in 1..n
  BY <1>1, <1>2 DEF EnumeratesUp
<1>4. ASSUME NEW y \in S PROVE y <= f[n]
  <2>1. PICK i \in 1..n : f[i] = y
    BY <1>2, <1>3 DEF EnumeratesUp
  <2>2. f[n] \in Nat /\ y \in Nat
    BY <1>3
  <2>3. i = n \/ i < n
    BY <1>1
  <2>4. i < n => f[i] < f[n]
    BY <1>2, <1>3 DEF EnumeratesUp
  <2> HIDE DEF n
  <2>5. QED
    BY <2>1, <2>2, <2>3, <2>4
<1>5. QED
  BY <1>3, <1>4

\* The first page leaves out nothing from its first message on.
LEMMA FirstPageCovers == ASSUME HistoryTypes, NEW c \in H!Convs, NEW id \in IdsOf(c), log[id].live,
                                First(H!FirstPage(c)) <= id
                         PROVE  id \in H!ToSet(H!FirstPage(c))
<1> DEFINE page == H!FirstPage(c)
           older == {i \in H!LiveIds(c) : i < Len(log) + 1}
           Beyond(i) == {j \in older : j > i}
<1>1. /\ DOMAIN log = 1..Len(log) /\ Len(log) \in Nat /\ IsFiniteSet(DOMAIN log) /\ DOMAIN log \subseteq Nat
  BY LogIs DEF HistoryTypes
<1>2. older = H!LiveIds(c)
  <2>1. \A i \in 1..Len(log) : i < Len(log) + 1
    BY <1>1
  <2>2. QED
    BY <1>1, <2>1 DEF H!LiveIds
<1>3. id \in older /\ id \in Nat
  BY <1>1, <1>2 DEF IdsOf, H!LiveIds
<1>4. /\ page \in Seq(Nat) /\ Ascends(page)
      /\ H!ToSet(page) = IF c \in DMs THEN older ELSE H!Newest(older, PageSize)
  BY <1>2, ListingIs DEF H!FirstPage
<1>5. older \in SUBSET Nat /\ IsFiniteSet(older)
  <2>1. older \subseteq DOMAIN log
    BY DEF H!LiveIds
  <2> HIDE DEF older
  <2>2. QED
    BY <1>1, <2>1, FS_Subset
<1>6. PageSize \in Nat \ {0}
  BY ClientConstants DEF H!HistoryAssumption
<1> HIDE DEF page, older
<1>7. \A i : i \in H!Newest(older, PageSize) <=> i \in older /\ Cardinality(Beyond(i)) < PageSize
  BY SameSize DEF H!Newest
<1>8. CASE page = <<>>
  <2>1. H!ToSet(page) = {}
    BY <1>8 DEF H!ToSet
  <2>2. PICK x \in older : \A y \in older : y <= x
    BY <1>3, <1>5, Last
  <2>3. Beyond(x) = {}
    <3>1. \A y \in older : ~(y > x)
      <4>1. \A i, j \in Nat : i <= j => ~(i > j)
        OBVIOUS
      <4>2. QED
        BY <1>5, <2>2, <4>1
    <3>2. QED
      BY <3>1
  <2>4. Cardinality(Beyond(x)) = 0
    BY <2>3, FS_EmptySet
  <2>5. x \in H!ToSet(page)
    BY <1>4, <1>6, <1>7, <2>2, <2>4
  <2>6. QED
    BY <2>1, <2>5
<1>9. CASE page # <<>>
  <2>1. Head(page) \in H!ToSet(page) /\ Head(page) \in Nat
    BY <1>4, <1>9, FirstIsLeast
  <2>2. Head(page) <= id
    BY <1>9 DEF First, page
  <2>3. CASE c \in DMs
    BY <1>3, <1>4, <2>3 DEF page
  <2>4. CASE c \notin DMs
    <3>1. Head(page) \in older /\ Cardinality(Beyond(Head(page))) < PageSize
      BY <1>4, <1>7, <2>1, <2>4
    <3>2. Beyond(id) \subseteq Beyond(Head(page))
      <4>1. \A i, j, k \in Nat : i > j /\ k <= j => i > k
        OBVIOUS
      <4>2. \A y \in older : y > id => y > Head(page)
        BY <1>3, <1>5, <2>1, <2>2, <4>1
      <4>3. QED
        BY <4>2
    <3>3. IsFiniteSet(Beyond(Head(page)))
      BY <1>5, FS_Subset
    <3>4. /\ Cardinality(Beyond(id)) <= Cardinality(Beyond(Head(page)))
          /\ Cardinality(Beyond(Head(page))) \in Nat /\ Cardinality(Beyond(id)) \in Nat
      BY <3>2, <3>3, FS_Subset, FS_CardinalityType
    <3>5. Cardinality(Beyond(id)) < PageSize
      BY <1>6, <3>1, <3>4
    <3>6. QED
      BY <1>3, <1>4, <1>7, <2>4, <3>5 DEF page
  <2>5. QED
    BY <2>3, <2>4
<1>10. QED
  BY <1>8, <1>9

LEMMA HistorySafe == HistoryInv => H!TypeOK /\ H!HistoryInOrder /\ H!ResyncComplete /\ H!UnreadIsUnseen
<1> SUFFICES ASSUME HistoryInv PROVE H!TypeOK /\ H!HistoryInOrder /\ H!ResyncComplete /\ H!UnreadIsUnseen
  OBVIOUS
<1>1. /\ DOMAIN log = 1..Len(log) /\ Len(log) \in Nat /\ IsFiniteSet(DOMAIN log) /\ DOMAIN log \subseteq Nat
      /\ \A i \in DOMAIN log : log[i] \in Logged
  BY LogIs DEF HistoryInv, HistoryTypes
<1>2. H!TypeOK
  <2>1. \A i \in DOMAIN wire : wire[i] \in [type: {"message_created", "message_deleted"}, id: DOMAIN log]
    BY WireIs DEF HistoryInv, HistoryTypes, Events
  <2>2. handled \subseteq H!Ids /\ missed \subseteq H!Ids /\ told \subseteq H!Ids /\ belated \subseteq H!Ids
    <3>1. MaxMessages \in Nat
      BY ClientConstants DEF H!HistoryAssumption
    <3>2. 1..Len(log) \subseteq 1..MaxMessages
      BY <1>1, <3>1 DEF HistoryInv, HistoryTypes
    <3>3. QED
      BY <1>1, <3>2 DEF HistoryInv, HistoryTypes, H!Ids
  <2>3. \A c \in H!Convs : H!ToSet(shown[c]) \subseteq {i \in DOMAIN log : log[i].conv = c}
    BY DEF HistoryInv, ShownInv, IdsOf
  <2>4. QED
    BY <1>1, <2>1, <2>2, <2>3 DEF HistoryInv, HistoryTypes, H!TypeOK, Logged, Events
<1>3. H!HistoryInOrder
  BY DEF HistoryInv, ShownInv, Ascends, H!HistoryInOrder
<1>4. H!ResyncComplete
  <2> SUFFICES ASSUME synced # H!NotSynced, NEW id \in H!LiveIds(synced.conv), id >= synced.from
               PROVE  \/ id \in H!ToSet(shown[synced.conv])
                      \/ H!BeingDeleted(id)
                      \/ id > synced.upto /\ \/ \E i \in DOMAIN wire : wire[i] = H!Event("message_created", id)
                                             \/ H!Event("message_created", id) \in sending
                                             \/ id \in missed
    BY DEF H!ResyncComplete
  <2>1. id \in IdsOf(synced.conv) /\ log[id].live /\ synced.from <= id
    <3>1. id \in Nat /\ synced.from \in Nat
      BY <1>1 DEF HistoryInv, HistoryTypes, H!LiveIds
    <3>2. QED
      BY <3>1 DEF H!LiveIds, IdsOf
  <2>2. Covered(synced.conv, synced.from, synced.upto, {})
    BY DEF HistoryInv, ResyncInv, SyncedInv
  <2>3. synced.upto < id => id > synced.upto
    BY <1>1, <2>1 DEF HistoryInv, HistoryTypes, IdsOf
  <2>4. Created(id) => \E i \in DOMAIN wire : wire[i] = H!Event("message_created", id)
    <3>1. \A i \in DOMAIN wire : wire[i] \in Events
      BY WireIs DEF HistoryInv, HistoryTypes
    <3>2. \A i \in DOMAIN wire : wire[i] = [type |-> wire[i].type, id |-> wire[i].id]
      BY <3>1 DEF Events
    <3>3. QED
      BY <3>2 DEF Created, H!Event
  <2>5. QED
    BY <2>1, <2>2, <2>3, <2>4 DEF Covered, Held, Expected
<1>5. H!UnreadIsUnseen
  <2> SUFFICES ASSUME NEW c \in H!Convs, \A id \in belated : log[id].conv # c
               PROVE  unread[c] <= Cardinality({id \in DOMAIN log :
                                     log[id].conv = c /\ ~log[id].mine /\ id \notin handled})
    BY SameSize DEF H!UnreadIsUnseen
  <2> DEFINE U == {id \in DOMAIN log : log[id].conv = c /\ ~log[id].mine /\ id \notin handled}
  <2>1. IsFiniteSet(U) /\ Unseen(c) \subseteq U
    <3>1. U \subseteq DOMAIN log /\ Unseen(c) \subseteq U
      BY DEF Unseen, IdsOf
    <3> HIDE DEF U
    <3>2. QED
      BY <1>1, <3>1, FS_Subset
  <2> HIDE DEF U
  <2>2. Cardinality(Unseen(c)) <= Cardinality(U) /\ Cardinality(U) \in Nat /\ Cardinality(Unseen(c)) \in Nat
    BY <2>1, FS_Subset, FS_CardinalityType
  <2>3. unread[c] <= Cardinality(Unseen(c)) /\ unread[c] \in Nat
    BY DEF HistoryInv, HistoryTypes, UnreadInv, Late
  <2>4. unread[c] <= Cardinality(U)
    BY <2>2, <2>3
  <2>5. QED
    BY <2>4 DEF U
<1>6. QED
  BY <1>2, <1>3, <1>4, <1>5

LEMMA HistoryInit == ASSUME H!Init PROVE HistoryInv
<1>1. H!HistoryAssumption
  BY ClientConstants
<1>2. HistoryTypes
  <2>1. log \in Seq(Logged) /\ Len(log) = 0 /\ calls \subseteq Calls
    BY DEF H!Init
  <2>2. wire \in Seq(Events) /\ sending \subseteq Events /\ listening \subseteq H!Convs
    BY DEF H!Init
  <2>3. shown \in [H!Convs -> Seq(Nat)] /\ unread \in [H!Convs -> Nat] /\ hasOlder \in [H!Convs -> BOOLEAN]
    BY DEF H!Init
  <2>4. 0 <= MaxMessages /\ 0 \in 0..MaxDrops
    BY <1>1 DEF H!HistoryAssumption
  <2>5. synced \in [conv: H!Convs \cup {none}, from: Nat, upto: Nat]
    BY DEF H!Init, H!NotSynced
  <2>6. QED
    BY <2>1, <2>2, <2>3, <2>4, <2>5 DEF H!Init, HistoryTypes
<1>3. ShownInv
  BY DEF H!Init, ShownInv, Ascends, H!ToSet
<1>4. ResyncInv /\ WireInv /\ \A call \in calls : CallInv(call)
  BY DEF H!Init, ResyncInv, WireInv
<1>5. UnreadInv
  <2>1. \A c \in H!Convs : Unseen(c) = {}
    BY DEF H!Init, Unseen, IdsOf
  <2>2. /\ \A c \in H!Convs : unread[c] = 0 /\ Cardinality(Unseen(c)) = 0
        /\ handled = {}
    BY <2>1, FS_EmptySet DEF H!Init
  <2>3. \A m, n : m = 0 /\ n = 0 => m <= n
    OBVIOUS
  <2>4. QED
    BY <2>2, <2>3 DEF UnreadInv
<1>6. QED
  BY <1>2, <1>3, <1>4, <1>5 DEF HistoryInv

\* What every step leaves: the log only grows, and a conversation keeps what
\* a resync relies on.
LogGrows ==
  \A i \in DOMAIN log : /\ i \in DOMAIN log' /\ log'[i].conv = log[i].conv /\ log'[i].mine = log[i].mine
                        /\ log'[i].live => log[i].live
LosesNone(c) ==
  \A id \in IdsOf(c)' : log'[id].live =>
    \/ Held(c, id)'
    \/ IF id \in IdsOf(c) THEN log[id].live /\ ~Held(c, id) /\ (Expected(id) => Expected(id)')
       ELSE Len(log) < id /\ Expected(id)'

LEMMA CoverStays == ASSUME NEW c, LosesNone(c), HistoryTypes, HistoryTypes', LogGrows
                    PROVE  \A first, upto, fetched :
                             Covered(c, first, upto, fetched) => Covered(c, first, upto, fetched)'
<1>1. /\ DOMAIN log = 1..Len(log) /\ Len(log) \in Nat /\ DOMAIN log' = 1..Len(log') /\ Len(log') \in Nat
  BY LenProperties DEF HistoryTypes
<1>2. Len(log) <= Len(log')
  <2>1. \A m, n \in Nat : (m = 0 \/ m \in 1..n) => m <= n
    OBVIOUS
  <2>2. Len(log) = 0 \/ Len(log) \in DOMAIN log
    BY <1>1
  <2>3. QED
    BY <1>1, <2>1, <2>2 DEF LogGrows
<1> SUFFICES ASSUME NEW first, NEW upto, NEW fetched, Covered(c, first, upto, fetched)
             PROVE  Covered(c, first, upto, fetched)'
  OBVIOUS
<1>3. upto \in 0..Len(log) /\ upto \in 0..Len(log')
  BY <1>1, <1>2 DEF Covered
<1>4. ASSUME NEW id \in IdsOf(c)', log'[id].live, first <= id
      PROVE  id \in fetched \/ Held(c, id)' \/ (upto < id /\ Expected(id)')
  <2>1. CASE id \in IdsOf(c)
    BY <1>4, <2>1 DEF LosesNone, Covered
  <2>2. CASE id \notin IdsOf(c)
    <3>1. Held(c, id)' \/ (Len(log) < id /\ Expected(id)')
      BY <1>4, <2>2 DEF LosesNone
    <3>2. id \in Nat
      BY <1>1 DEF IdsOf
    <3>3. Len(log) < id => upto < id
      BY <1>1, <1>3, <3>2
    <3>4. QED
      BY <3>1, <3>3
  <2>3. QED
    BY <2>1, <2>2
<1>5. QED
  BY <1>3, <1>4 DEF Covered

LEMMA CallStays == ASSUME NEW call, CallInv(call), LogGrows, link' = link \/ link', drops' = drops,
                          present \cup replaced \subseteq present' \cup replaced'
                   PROVE  CallInv(call)'
<1>1. \A c : IdsOf(c) \subseteq IdsOf(c)'
  BY DEF LogGrows, IdsOf
<1>2. ASSUME call.op \in Fetches, call.done PROVE H!ToSet(call.reply) \subseteq IdsOf(call.conv)'
  BY <1>1, <1>2 DEF CallInv
<1>3. ASSUME call.op = "send", call.done
      PROVE  Len(call.reply) = 1 /\ call.reply[1] \in IdsOf(call.conv)' /\ log'[call.reply[1]].mine
  <2>1. Len(call.reply) = 1 /\ call.reply[1] \in IdsOf(call.conv) /\ log[call.reply[1]].mine
    BY <1>3 DEF CallInv
  <2>2. QED
    BY <1>1, <2>1 DEF LogGrows, IdsOf
<1>4. ASSUME call.op = "delete"
      PROVE  call.id \in IdsOf(call.conv)' /\ log'[call.id].mine /\ (call.done => ~log'[call.id].live)
  <2>1. call.id \in IdsOf(call.conv) /\ log[call.id].mine /\ (call.done => ~log[call.id].live)
    BY <1>4 DEF CallInv
  <2>2. QED
    BY <1>1, <2>1 DEF LogGrows, IdsOf
<1>5. ASSUME call.op = "sync"
      PROVE  call.id <= drops' /\ (link' \/ call.id < drops') /\ (call.id = drops' => call.conv \in present' \cup replaced')
  BY <1>5 DEF CallInv
<1>6. QED
  BY <1>2, <1>3, <1>4, <1>5 DEF CallInv

LEMMA ResyncStays == ASSUME HistoryInv, HistoryTypes', LogGrows, link' = link, drops' = drops, replaced \subseteq replaced',
                            (synced # H!NotSynced)' =>
                              \/ synced' = synced /\ synced.conv \in present' /\ (link => LosesNone(synced.conv))
                              \/ SyncedInv',
                            link => \A c \in present \ replaced' : LosesNone(c),
                            \A call \in calls' : call \in calls \/ SyncInv(call)'
                     PROVE  ResyncInv'
<1>1. ASSUME synced' # H!NotSynced, synced' = synced, synced.conv \in present', link => LosesNone(synced.conv)
      PROVE  SyncedInv'
  <2>1. link /\ Covered(synced.conv, synced.from, synced.upto, {})
    BY <1>1 DEF HistoryInv, ResyncInv, SyncedInv
  <2>2. Covered(synced.conv, synced.from, synced.upto, {})'
    BY <1>1, <2>1, CoverStays DEF HistoryInv
  <2>3. QED
    BY <1>1, <2>1, <2>2 DEF SyncedInv
<1>2. ASSUME NEW call \in calls, SyncInv(call) PROVE SyncInv(call)'
  <2> SUFFICES ASSUME call.op = "sync", call.done, link', call.id = drops', call.conv \in present' \ replaced'
               PROVE  Covered(call.conv, First(call.reply), Upto(call.reply), H!ToSet(call.reply))'
    BY DEF SyncInv
  <2>1. call.conv \in present \ replaced
    BY DEF HistoryInv, CallInv
  <2>2. Covered(call.conv, First(call.reply), Upto(call.reply), H!ToSet(call.reply))
    BY <1>2, <2>1 DEF SyncInv
  <2>3. LosesNone(call.conv)
    BY <2>1
  <2>4. QED
    BY <2>2, <2>3, CoverStays DEF HistoryInv
<1>3. \A call \in calls' : SyncInv(call)'
  BY <1>2 DEF HistoryInv, ResyncInv
<1>4. (synced # H!NotSynced)' => SyncedInv'
  BY <1>1 DEF H!NotSynced
<1>5. QED
  BY <1>3, <1>4 DEF ResyncInv

LEMMA UnreadStays == ASSUME HistoryInv, log' \in Seq(Logged),
                            \A c \in H!Convs : Late(c) => Late(c)' \/ unread'[c] = 0,
                            \A c \in H!Convs :
                              \/ Late(c)' \/ unread'[c] = 0
                              \/ unread'[c] = unread[c] /\ Unseen(c) \subseteq Unseen(c)'
                              \/ /\ unread'[c] = unread[c] + 1 /\ Unseen(c) \subseteq Unseen(c)'
                                 /\ \E id \in Unseen(c)' : id \notin Unseen(c),
                            \A id \in handled' : id \notin told' /\ ~log'[id].mine => id \in H!ToSet(shown'[log'[id].conv])
                     PROVE  UnreadInv'
<1>1. IsFiniteSet(DOMAIN log')
  <2>1. DOMAIN log' = 1..Len(log') /\ Len(log') \in Nat
    BY LenProperties
  <2>2. QED
    BY <2>1, FS_Interval
<1>2. ASSUME NEW c \in H!Convs, ~Late(c)' PROVE unread'[c] <= Cardinality(Unseen(c)')
  <2>0. Late(c) => unread'[c] = 0
    BY <1>2
  <2>1. Unseen(c)' \subseteq DOMAIN log'
    BY DEF Unseen, IdsOf
  <2>2. IsFiniteSet(Unseen(c)')
    BY <1>1, <2>1, FS_Subset
  <2>3. Cardinality(Unseen(c)') \in Nat
    BY <2>2, FS_CardinalityType
  <2>4. CASE unread'[c] = 0
    BY <2>3, <2>4
  <2>5. ASSUME unread'[c] = unread[c], Unseen(c) \subseteq Unseen(c)', ~Late(c)
        PROVE  unread'[c] <= Cardinality(Unseen(c)')
    <3>1. Cardinality(Unseen(c)) <= Cardinality(Unseen(c)') /\ IsFiniteSet(Unseen(c))
      BY <2>2, <2>5, FS_Subset
    <3>2. Cardinality(Unseen(c)) \in Nat
      BY <3>1, FS_CardinalityType
    <3>3. unread[c] \in Nat /\ unread[c] <= Cardinality(Unseen(c))
      BY <2>5 DEF HistoryInv, HistoryTypes, UnreadInv
    <3>4. QED
      BY <2>3, <2>5, <3>1, <3>2, <3>3
  <2>6. ASSUME unread'[c] = unread[c] + 1, Unseen(c) \subseteq Unseen(c)', NEW id \in Unseen(c)', id \notin Unseen(c),
               ~Late(c)
        PROVE  unread'[c] <= Cardinality(Unseen(c)')
    <3>1. IsFiniteSet(Unseen(c)) /\ Unseen(c) \cup {id} \subseteq Unseen(c)'
      BY <2>2, <2>6, FS_Subset
    <3>2. Cardinality(Unseen(c) \cup {id}) = Cardinality(Unseen(c)) + 1 /\ Cardinality(Unseen(c)) \in Nat
      BY <2>6, <3>1, FS_AddElement, FS_CardinalityType
    <3>3. Cardinality(Unseen(c) \cup {id}) <= Cardinality(Unseen(c)')
      BY <2>2, <3>1, FS_Subset
    <3>4. unread[c] \in Nat /\ unread[c] <= Cardinality(Unseen(c))
      BY <2>6 DEF HistoryInv, HistoryTypes, UnreadInv
    <3>5. QED
      BY <2>3, <2>6, <3>2, <3>3, <3>4
  <2>7. QED
    BY <1>2, <2>0, <2>4, <2>5, <2>6
<1>3. QED
  BY <1>2 DEF UnreadInv

\* What came late stays late until the counter begins anew.
LEMMA LateStays == ASSUME HistoryTypes, LogGrows, belated \subseteq belated', NEW c, Late(c)
                   PROVE  Late(c)'
<1>1. PICK id \in belated : log[id].conv = c
  BY DEF Late
<1>2. id \in belated' /\ log'[id].conv = c
  BY <1>1 DEF HistoryTypes, LogGrows
<1>3. QED
  BY <1>2 DEF Late

\* A step that leaves the store's messages and the events alone.
LEMMA CallsOnly == ASSUME HistoryInv, HistoryTypes',
                          UNCHANGED <<log, sending, link, listening, drops, wire, shown, unread, synced,
                                      replaced, handled, missed, told, belated>>,
                          present \subseteq present',
                          \A call \in calls' : call \in calls \/ (CallInv(call)' /\ SyncInv(call)'),
                          \A call \in calls \ calls' : call.op = "delete" =>
                            ~log[call.id].live \/ \E d \in calls' : d.op = "delete" /\ d.id = call.id
                   PROVE  HistoryInv'
<1>1. LogGrows
  BY DEF LogGrows
<1>2. ShownInv' /\ WireInv'
  BY DEF HistoryInv, ShownInv, IdsOf, WireInv
<1>3. \A call \in calls' : CallInv(call)'
  BY <1>1, CallStays DEF HistoryInv
<1>4. ASSUME NEW c \in H!Convs PROVE LosesNone(c)
  <2> SUFFICES ASSUME NEW id \in IdsOf(c), log[id].live, Held(c, id) \/ Expected(id)
               PROVE  Held(c, id)' \/ (~Held(c, id) /\ Expected(id)')
    BY DEF LosesNone, IdsOf
  <2>1. Expected(id)' = Expected(id) /\ shown'[c] = shown[c]
    BY DEF Expected, Created
  <2>2. H!BeingDeleted(id) => H!BeingDeleted(id)'
    BY DEF H!BeingDeleted
  <2>3. QED
    BY <2>1, <2>2 DEF Held
<1>5. ResyncInv'
  <2>1. synced # H!NotSynced => synced.conv \in present' /\ synced.conv \in H!Convs
    BY DEF HistoryInv, ResyncInv, SyncedInv, HistoryTypes
  <2>2. (synced # H!NotSynced)' => synced' = synced /\ synced.conv \in present' /\ LosesNone(synced.conv)
    BY <1>4, <2>1 DEF H!NotSynced
  <2>3. \A c \in present \ replaced' : LosesNone(c)
    BY <1>4 DEF HistoryInv, HistoryTypes
  <2>4. QED
    BY <1>1, <2>2, <2>3, ResyncStays
<1>6. UnreadInv'
  <2>1. \A c \in H!Convs : unread'[c] = unread[c] /\ Unseen(c)' = Unseen(c) /\ Late(c)' = Late(c)
    BY DEF Unseen, IdsOf, Late
  <2>2. \A id \in handled' : id \notin told' /\ ~log'[id].mine => id \in H!ToSet(shown'[log'[id].conv])
    BY DEF HistoryInv, UnreadInv
  <2>3. QED
    BY <2>1, <2>2, UnreadStays DEF HistoryInv, HistoryTypes
<1>7. QED
  BY <1>2, <1>3, <1>5, <1>6 DEF HistoryInv

\* A step that changes the messages of the store.
LEMMA StoreStays == ASSUME HistoryInv, HistoryTypes', ShownInv',
                           UNCHANGED <<log, sending, link, listening, drops, wire, missed, told>>,
                           replaced \subseteq replaced', present \cup replaced \subseteq present' \cup replaced',
                           (synced # H!NotSynced)' =>
                             \/ synced' = synced /\ synced.conv \in present' /\ LosesNone(synced.conv)
                             \/ SyncedInv',
                           \A c \in present \ replaced' : LosesNone(c),
                           \A call \in calls' : call \in calls \/ (CallInv(call)' /\ SyncInv(call)'),
                           \A c \in H!Convs : \/ unread'[c] = 0
                                              \/ /\ unread'[c] = unread[c] /\ Late(c)' = Late(c)
                                                 /\ \A id \in handled' \ handled : id \notin Unseen(c),
                           \A id \in handled' : id \notin told /\ ~log[id].mine => id \in H!ToSet(shown'[log[id].conv])
                    PROVE  HistoryInv'
<1>1. LogGrows
  BY DEF LogGrows
<1>2. WireInv'
  BY DEF HistoryInv, WireInv
<1>3. \A call \in calls' : CallInv(call)'
  BY <1>1, CallStays DEF HistoryInv
<1>4. ResyncInv'
  BY <1>1, ResyncStays
<1>5. UnreadInv'
  <2>1. \A c \in H!Convs : (\A id \in handled' \ handled : id \notin Unseen(c)) => Unseen(c) \subseteq Unseen(c)'
    BY DEF Unseen, IdsOf
  <2>2. \A c \in H!Convs : unread'[c] = 0 \/ (unread'[c] = unread[c] /\ Unseen(c) \subseteq Unseen(c)')
    BY <2>1
  <2>3. \A c \in H!Convs : Late(c) => Late(c)' \/ unread'[c] = 0
    OBVIOUS
  <2>4. \A id \in handled' : id \notin told' /\ ~log'[id].mine => id \in H!ToSet(shown'[log'[id].conv])
    OBVIOUS
  <2>5. QED
    BY <2>2, <2>3, <2>4, UnreadStays DEF HistoryInv, HistoryTypes
<1>6. QED
  BY <1>2, <1>3, <1>4, <1>5 DEF HistoryInv

\* With the same log and events, what is shown or being deleted stays held.
LEMMA KnownStays == ASSUME UNCHANGED <<log, sending, wire, missed>>, NEW c,
                           \A id \in H!ToSet(shown[c]) : log[id].live => id \in H!ToSet(shown'[c]) \/ H!BeingDeleted(id)',
                           \A id \in IdsOf(c) : H!BeingDeleted(id) /\ log[id].live =>
                                                  H!BeingDeleted(id)' \/ id \in H!ToSet(shown'[c])
                    PROVE  LosesNone(c)
<1>1. IdsOf(c)' = IdsOf(c) /\ \A id : Expected(id)' = Expected(id)
  BY DEF IdsOf, Expected, Created
<1>2. \A id \in IdsOf(c) : log[id].live /\ Held(c, id) => Held(c, id)'
  BY DEF Held
<1>3. QED
  BY <1>1, <1>2 DEF LosesNone

-----------------------------------------------------------------------------
(* What the user does, and calls the server answers from what it has.       *)

LEMMA LastIsLogged == ASSUME HistoryTypes, NEW c, NEW reply \in Seq(Nat), H!ToSet(reply) \subseteq IdsOf(c)
                      PROVE  Upto(reply) \in 0..Len(log)
<1>1. DOMAIN log = 1..Len(log) /\ Len(log) \in Nat
  BY LogIs DEF HistoryTypes
<1>2. CASE reply = <<>>
  BY <1>1, <1>2 DEF Upto
<1>3. CASE reply # <<>>
  <2>1. Len(reply) \in Nat /\ DOMAIN reply = 1..Len(reply) /\ Len(reply) # 0
    BY <1>3, EmptySeq, LenProperties
  <2>2. Len(reply) \in DOMAIN reply
    BY <2>1
  <2>3. H!Last(reply) \in IdsOf(c)
    BY <2>2 DEF H!Last, H!ToSet
  <2>4. \A n \in Nat : \A m \in 1..n : m \in 0..n
    OBVIOUS
  <2>5. QED
    BY <1>1, <1>3, <2>3, <2>4 DEF Upto, IdsOf
<1>4. QED
  BY <1>2, <1>3

LEMMA NewCall == ASSUME NEW op \in Operations, NEW c \in H!Convs, NEW id \in Nat
                 PROVE  /\ H!Call(op, c, id) \in Calls /\ H!Call(op, c, id).op = op
                        /\ H!Call(op, c, id).conv = c /\ H!Call(op, c, id).id = id /\ ~H!Call(op, c, id).done
                        /\ SyncInv(H!Call(op, c, id))'
                        /\ op \notin {"sync", "delete"} => CallInv(H!Call(op, c, id))'
<1>1. /\ H!Call(op, c, id) \in Calls /\ H!Call(op, c, id).op = op
      /\ H!Call(op, c, id).conv = c /\ H!Call(op, c, id).id = id /\ ~H!Call(op, c, id).done
  BY DEF H!Call, Calls
<1> HIDE DEF H!Call
<1>2. QED
  BY <1>1 DEF SyncInv, CallInv

LEMMA IssueSafe == ASSUME HistoryInv, HistoryTypes', NEW op \in Operations \ {"sync", "delete"},
                          NEW c \in H!Convs, NEW id \in Nat,
                          calls' = calls \cup {H!Call(op, c, id)} \/ calls' = calls,
                          UNCHANGED <<log, sending, link, listening, drops, wire, shown, unread, synced,
                                      replaced, handled, missed, told, belated, present>>
                   PROVE  HistoryInv'
<1>1. CallInv(H!Call(op, c, id))' /\ SyncInv(H!Call(op, c, id))'
  BY NewCall
<1> HIDE DEF H!Call
<1>2. /\ \A call \in calls' : call \in calls \/ (CallInv(call)' /\ SyncInv(call)')
      /\ calls \ calls' = {}
  BY <1>1
<1>3. QED
  BY <1>2, CallsOnly

LEMMA HistorySelectSafe == ASSUME HistoryInv, NEW c \in H!Convs \cup {none}, H!SelectConversation(c)
                                PROVE  HistoryInv'
<1>1. /\ selected' = c
      /\ UNCHANGED <<log, sending, link, listening, drops, wire, shown, unread, synced, replaced, handled,
                     missed, told, belated, present, loadingOlder, hasOlder>>
      /\ IF c \in present /\ shown[c] = <<>> THEN calls' = calls \cup {H!Call("load", c, 0)} ELSE calls' = calls
  BY DEF H!SelectConversation, H!Issue, H!server, H!network, H!history
<1>2. CASE c \in H!Convs
  <2>1. H!Call("load", c, 0) \in Calls
    BY <1>2, NewCall DEF Operations
  <2> HIDE DEF H!Call
  <2>2. HistoryTypes'
    BY <1>1, <2>1 DEF HistoryInv, HistoryTypes, Events
  <2>3. QED
    BY <1>1, <1>2, <2>2, IssueSafe DEF Operations
<1>3. CASE c \notin H!Convs
  <2>1. calls' = calls
    BY <1>1, <1>3 DEF HistoryInv, HistoryTypes
  <2>2. HistoryTypes'
    BY <1>1, <2>1 DEF HistoryInv, HistoryTypes, Events
  <2>3. QED
    BY <1>1, <2>1, <2>2, CallsOnly
<1>4. QED
  BY <1>2, <1>3

LEMMA LoadOlderSafe == ASSUME HistoryInv, H!LoadOlderMessages PROVE HistoryInv'
<1> DEFINE id == Head(shown[selected])
<1>1. /\ selected \in present /\ shown[selected] # <<>> /\ loadingOlder' = TRUE
      /\ calls' = calls \cup {H!Call("older", selected, id)}
      /\ UNCHANGED <<log, sending, link, listening, drops, wire, shown, unread, synced, replaced, handled,
                     missed, told, belated, present, selected, hasOlder>>
  BY DEF H!LoadOlderMessages, H!Issue, H!server, H!network, H!history
<1>2. selected \in H!Convs /\ id \in Nat
  <2>1. selected \in H!Convs
    BY <1>1 DEF HistoryInv, HistoryTypes
  <2>2. shown[selected] \in Seq(Nat) /\ Ascends(shown[selected])
    BY <2>1 DEF HistoryInv, HistoryTypes, ShownInv
  <2>3. QED
    BY <1>1, <2>1, <2>2, FirstIsLeast
<1> HIDE DEF id
<1>3. H!Call("older", selected, id) \in Calls
  BY <1>2, NewCall DEF Operations
<1> HIDE DEF H!Call
<1>4. HistoryTypes'
  BY <1>1, <1>3 DEF HistoryInv, HistoryTypes, Events
<1>5. QED
  BY <1>1, <1>2, <1>4, IssueSafe DEF Operations

LEMMA CreateDMSafe == ASSUME HistoryInv, NEW c \in H!Convs, H!CreateDM(c) PROVE HistoryInv'
<1>1. /\ calls' = calls \cup {H!Call("createDM", c, 0)}
      /\ UNCHANGED <<log, sending, link, listening, drops, wire, shown, unread, synced, replaced, handled,
                     missed, told, belated, present, selected, loadingOlder, hasOlder>>
  BY DEF H!CreateDM, H!Issue, H!server, H!network, H!history
<1>2. H!Call("createDM", c, 0) \in Calls
  BY NewCall DEF Operations
<1> HIDE DEF H!Call
<1>3. HistoryTypes'
  BY <1>1, <1>2 DEF HistoryInv, HistoryTypes, Events
<1>4. QED
  BY <1>1, <1>3, IssueSafe DEF Operations

LEMMA SendMessageSafe == ASSUME HistoryInv, H!SendMessage PROVE HistoryInv'
<1>1. /\ selected # none /\ calls' = calls \cup {H!Call("send", selected, 0)}
      /\ UNCHANGED <<log, sending, link, listening, drops, wire, shown, unread, synced, replaced, handled,
                     missed, told, belated, present, selected, loadingOlder, hasOlder>>
  BY DEF H!SendMessage, H!Issue, H!server, H!network, H!history
<1>2. selected \in H!Convs
  BY <1>1 DEF HistoryInv, HistoryTypes
<1>3. H!Call("send", selected, 0) \in Calls
  BY <1>2, NewCall DEF Operations
<1> HIDE DEF H!Call
<1>4. HistoryTypes'
  BY <1>1, <1>3 DEF HistoryInv, HistoryTypes, Events
<1>5. QED
  BY <1>1, <1>2, <1>4, IssueSafe DEF Operations

\* A call answered by what the server has.
LEMMA FetchServed == ASSUME HistoryInv, NEW call \in calls, ~call.done, NEW reply \in Seq(Nat),
                            call.op \in Operations \ {"send", "delete"},
                            call.op \in Fetches => H!ToSet(reply) \subseteq IdsOf(call.conv),
                            call.op = "sync" => reply = H!FirstPage(call.conv),
                            calls' = (calls \ {call}) \cup {[call EXCEPT !.done = TRUE, !.reply = reply]},
                            UNCHANGED <<log, sending, link, listening, drops, wire, shown, unread, synced,
                                        replaced, handled, missed, told, belated, present, selected,
                                        loadingOlder, hasOlder>>
                     PROVE  HistoryInv'
<1> DEFINE served == [call EXCEPT !.done = TRUE, !.reply = reply]
<1>1. call \in Calls
  BY DEF HistoryInv, HistoryTypes
<1>2. /\ served \in Calls /\ served.op = call.op /\ served.conv = call.conv /\ served.id = call.id
      /\ served.done /\ served.reply = reply
  BY <1>1 DEF Calls
<1> HIDE DEF served
<1>3. HistoryTypes'
  BY <1>2 DEF HistoryInv, HistoryTypes, served, Events
<1>4. CallInv(served)'
  <2>1. CallInv(call)
    BY DEF HistoryInv
  <2>2. IdsOf(call.conv)' = IdsOf(call.conv)
    BY DEF IdsOf
  <2>3. QED
    BY <1>2, <2>1, <2>2 DEF CallInv
<1>5. SyncInv(served)'
  <2> SUFFICES ASSUME served.op = "sync" PROVE Covered(served.conv, First(served.reply), Upto(served.reply), H!ToSet(served.reply))'
    BY DEF SyncInv
  <2>1. reply = H!FirstPage(call.conv) /\ call.conv \in H!Convs
    BY <1>1, <1>2 DEF Calls
  <2>2. \A id \in IdsOf(call.conv) : log[id].live /\ First(reply) <= id => id \in H!ToSet(reply)
    BY <2>1, FirstPageCovers DEF HistoryInv
  <2>3. Upto(reply) \in 0..Len(log)
    BY <1>1, <1>2, <2>1, LastIsLogged DEF HistoryInv, Fetches
  <2>4. QED
    BY <1>2, <2>2, <2>3 DEF Covered, IdsOf
<1>6. \A other \in calls' : other \in calls \/ (CallInv(other)' /\ SyncInv(other)')
  BY <1>4, <1>5 DEF served
<1>7. calls \ calls' \subseteq {call} /\ call.op # "delete"
  OBVIOUS
<1>8. QED
  BY <1>3, <1>6, <1>7, CallsOnly

-----------------------------------------------------------------------------
(* Answers that replace a history, and what the user takes out of one.      *)

\* A counter that begins anew leaves the others.
LEMMA CountersStay == ASSUME HistoryInv, log' = log, NEW c \in H!Convs,
                             H!ClearUnread(c) \/ UNCHANGED <<unread, belated>>, NEW d \in H!Convs
                      PROVE  unread'[d] = 0 \/ (unread'[d] = unread[d] /\ Late(d)' = Late(d))
<1>1. CASE H!ClearUnread(c)
  <2>1. /\ unread' = [unread EXCEPT ![c] = 0] /\ belated' = {id \in belated : log[id].conv # c}
        /\ unread \in [H!Convs -> Nat]
    BY <1>1 DEF H!ClearUnread, HistoryInv, HistoryTypes
  <2>2. CASE d = c
    BY <2>1, <2>2
  <2>3. CASE d # c
    <3>1. unread'[d] = unread[d]
      BY <2>1, <2>3
    <3>2. Late(d)' = Late(d)
      BY <2>1, <2>3 DEF Late
    <3>3. QED
      BY <3>1, <3>2
  <2>4. QED
    BY <2>2, <2>3
<1>2. CASE UNCHANGED <<unread, belated>>
  BY <1>2 DEF Late
<1>3. QED
  BY <1>1, <1>2

\* What ClearUnread leaves.
LEMMA Cleared == ASSUME HistoryInv, NEW c \in H!Convs, H!ClearUnread(c)
                 PROVE  unread' \in [H!Convs -> Nat] /\ belated' \subseteq belated
  BY DEF H!ClearUnread, HistoryInv, HistoryTypes

\* A conversation's messages replaced: by the first load, a fresh entry or none.
LEMMA ReplacedSafe == ASSUME HistoryInv, HistoryTypes', ShownInv', NEW c \in H!Convs, H!Replaced(c),
                             UNCHANGED <<log, sending, link, listening, drops, wire, missed, told>>,
                             \A d \in H!Convs \ {c} : shown'[d] = shown[d] /\ (d \in present <=> d \in present'),
                             H!ClearUnread(c) \/ UNCHANGED <<unread, belated>>,
                             calls' \subseteq calls, \A call \in calls \ calls' : call.op # "delete"
                      PROVE  HistoryInv'
<1>1. /\ replaced' = replaced \cup {c} /\ synced' = IF synced.conv = c THEN H!NotSynced ELSE synced
      /\ handled' = {id \in handled : log[id].conv # c}
  BY DEF H!Replaced
<1>2. ASSUME NEW d \in H!Convs \ {c} PROVE LosesNone(d)
  <2>1. shown'[d] = shown[d] /\ \A id : H!BeingDeleted(id) => H!BeingDeleted(id)'
    BY DEF H!BeingDeleted
  <2>2. QED
    BY <2>1, KnownStays
<1>3. (synced # H!NotSynced)' => synced' = synced /\ synced.conv \in present' /\ LosesNone(synced.conv)
  <2> SUFFICES ASSUME (synced # H!NotSynced)' PROVE synced' = synced /\ synced.conv \in present' /\ LosesNone(synced.conv)
    OBVIOUS
  <2>1. synced' = synced /\ synced.conv # c /\ synced # H!NotSynced
    BY <1>1 DEF H!NotSynced
  <2>2. synced.conv \in present /\ synced.conv \in H!Convs
    BY <2>1 DEF HistoryInv, ResyncInv, SyncedInv, HistoryTypes
  <2>3. QED
    BY <1>2, <2>1, <2>2
<1>4. replaced \subseteq replaced' /\ present \cup replaced \subseteq present' \cup replaced'
      /\ \A d \in present \ replaced' : LosesNone(d)
  BY <1>1, <1>2 DEF HistoryInv, HistoryTypes
<1>5. \A d \in H!Convs :
        \/ unread'[d] = 0
        \/ unread'[d] = unread[d] /\ Late(d)' = Late(d) /\ \A id \in handled' \ handled : id \notin Unseen(d)
  BY <1>1, CountersStay
<1>6. ASSUME NEW id \in handled', id \notin told, ~log[id].mine PROVE id \in H!ToSet(shown'[log[id].conv])
  <2>1. id \in handled /\ log[id].conv # c
    BY <1>1
  <2>2. id \in H!ToSet(shown[log[id].conv])
    BY <1>6, <2>1 DEF HistoryInv, UnreadInv
  <2>3. log[id].conv \in H!Convs
    BY <2>1, LogIs DEF HistoryInv, HistoryTypes, Logged
  <2>4. QED
    BY <2>1, <2>2, <2>3
<1>7. QED
  BY <1>3, <1>4, <1>5, <1>6, StoreStays

\* An answer applied to a conversation.
LEMMA Applied == ASSUME HistoryInv, NEW call, call.conv \in H!Convs, NEW ms \in Seq(Nat),
                        Ascends(ms),
                        H!ToSet(ms) \subseteq IdsOf(call.conv), H!Apply(call, ms), log' = log
                 PROVE  /\ shown' \in [H!Convs -> Seq(Nat)] /\ ShownInv'
                        /\ \A d \in H!Convs \ {call.conv} : shown'[d] = shown[d]
                        /\ shown'[call.conv] = IF call.conv \in present THEN ms ELSE shown[call.conv]
<1>1. shown' = [shown EXCEPT ![call.conv] = IF call.conv \in present THEN ms ELSE shown[call.conv]]
  BY DEF H!Apply
<1>2. shown \in [H!Convs -> Seq(Nat)]
  BY DEF HistoryInv, HistoryTypes
<1>3. /\ shown' \in [H!Convs -> Seq(Nat)]
      /\ \A d \in H!Convs \ {call.conv} : shown'[d] = shown[d]
      /\ shown'[call.conv] = IF call.conv \in present THEN ms ELSE shown[call.conv]
  BY <1>1, <1>2
<1>4. ShownInv'
  BY <1>3 DEF HistoryInv, ShownInv, IdsOf
<1>5. QED
  BY <1>3, <1>4

LEMMA LoadAnsweredSafe == ASSUME HistoryInv, NEW call \in calls, call.done, H!Finish(call),
                                 H!LoadAnswered(call),
                                 UNCHANGED <<log, sending, link, listening, drops, wire>>
                          PROVE  HistoryInv'
<1>1. /\ call.op = "load" /\ H!Apply(call, H!SortMessages(call.reply)) /\ H!Replaced(call.conv)
      /\ calls' = calls \ {call}
      /\ UNCHANGED <<missed, told, belated, present, selected, unread, loadingOlder, hasOlder>>
  BY DEF H!LoadAnswered, H!Finish
<1>2. call.conv \in H!Convs /\ call.reply \in Seq(Nat) /\ H!ToSet(call.reply) \subseteq IdsOf(call.conv)
  BY <1>1 DEF HistoryInv, HistoryTypes, Calls, CallInv, Fetches
<1>3. /\ shown' \in [H!Convs -> Seq(Nat)] /\ ShownInv'
      /\ \A d \in H!Convs \ {call.conv} : shown'[d] = shown[d]
  BY <1>1, <1>2, Sorted, Applied
<1>4. HistoryTypes'
  BY <1>1, <1>2, <1>3 DEF HistoryInv, HistoryTypes, Events, H!Replaced, H!NotSynced
<1>5. QED
  BY <1>1, <1>2, <1>3, <1>4, ReplacedSafe

LEMMA CreateDMAnsweredSafe == ASSUME HistoryInv, NEW call \in calls, call.done, H!Finish(call),
                                     H!CreateDMAnswered(call),
                                     UNCHANGED <<log, sending, link, listening, drops, wire>>
                              PROVE  HistoryInv'
<1>1. /\ call.op = "createDM" /\ present' = present \cup {call.conv} /\ selected' = call.conv
      /\ shown' = [shown EXCEPT ![call.conv] = <<>>] /\ H!ClearUnread(call.conv)
      /\ H!Replaced(call.conv) /\ calls' = calls \ {call}
      /\ UNCHANGED <<missed, told, loadingOlder, hasOlder>>
  BY DEF H!CreateDMAnswered, H!Finish
<1>2. call.conv \in H!Convs /\ shown \in [H!Convs -> Seq(Nat)]
  BY <1>1 DEF HistoryInv, HistoryTypes, Calls
<1>3. /\ shown' \in [H!Convs -> Seq(Nat)] /\ unread' \in [H!Convs -> Nat] /\ belated' \subseteq belated
      /\ \A d \in H!Convs \ {call.conv} : shown'[d] = shown[d]
      /\ shown'[call.conv] = <<>>
  BY <1>1, <1>2, Cleared
<1>4. ShownInv'
  <2>1. H!ToSet(<<>>) = {} /\ Ascends(<<>>)
    BY DEF H!ToSet, Ascends
  <2>2. QED
    BY <1>3, <2>1 DEF HistoryInv, ShownInv, IdsOf
<1>5. HistoryTypes'
  BY <1>1, <1>2, <1>3 DEF HistoryInv, HistoryTypes, Events, H!Replaced, H!NotSynced
<1>6. QED
  BY <1>1, <1>2, <1>3, <1>4, <1>5, ReplacedSafe

LEMMA HistoryRemoveSafe == ASSUME HistoryInv, NEW c \in H!Convs, H!RemoveConversation(c)
                           PROVE  HistoryInv'
<1>1. /\ present' = present \ {c} /\ selected' = (IF selected = c THEN none ELSE selected)
      /\ shown' = [shown EXCEPT ![c] = <<>>] /\ H!ClearUnread(c)
      /\ H!Replaced(c)
      /\ UNCHANGED <<log, sending, link, listening, drops, wire, missed, told, calls, loadingOlder, hasOlder>>
  BY DEF H!RemoveConversation, H!server, H!network
<1>2. shown \in [H!Convs -> Seq(Nat)]
  BY DEF HistoryInv, HistoryTypes
<1>3. /\ shown' \in [H!Convs -> Seq(Nat)] /\ unread' \in [H!Convs -> Nat] /\ belated' \subseteq belated
      /\ \A d \in H!Convs \ {c} : shown'[d] = shown[d]
      /\ shown'[c] = <<>>
  BY <1>1, <1>2, Cleared
<1>4. ShownInv'
  BY <1>1, <1>3 DEF HistoryInv, ShownInv, IdsOf, H!ToSet, Ascends
<1>5. HistoryTypes'
  BY <1>1, <1>3 DEF HistoryInv, HistoryTypes, Events, H!Replaced, H!NotSynced
<1>6. QED
  BY <1>1, <1>3, <1>4, <1>5, ReplacedSafe

LEMMA MarkReadSafe == ASSUME HistoryInv, NEW c \in H!Convs, H!MarkConversationRead(c)
                      PROVE  HistoryInv'
<1>1. /\ H!ClearUnread(c) /\ handled' = handled \cup H!ToSet(shown[c])
      /\ UNCHANGED <<log, sending, link, listening, drops, wire, synced, replaced, missed, told, calls,
                     present, selected, shown, loadingOlder, hasOlder>>
  BY DEF H!MarkConversationRead, H!server, H!network
<1>2. unread' \in [H!Convs -> Nat] /\ belated' \subseteq belated /\ unread'[c] = 0
  BY <1>1, Cleared DEF H!ClearUnread, HistoryInv, HistoryTypes
<1>3. H!ToSet(shown[c]) \subseteq IdsOf(c)
  BY DEF HistoryInv, ShownInv
<1>4. HistoryTypes'
  BY <1>1, <1>2, <1>3 DEF HistoryInv, HistoryTypes, Events, IdsOf
<1>5. ShownInv'
  BY <1>1 DEF HistoryInv, ShownInv, IdsOf
<1>6. ASSUME NEW d PROVE LosesNone(d)
  BY <1>1, KnownStays DEF H!BeingDeleted
<1>7. (synced # H!NotSynced)' => synced' = synced /\ synced.conv \in present' /\ LosesNone(synced.conv)
  BY <1>1, <1>6 DEF HistoryInv, ResyncInv, SyncedInv, H!NotSynced
<1>8. \A d \in H!Convs :
        \/ unread'[d] = 0
        \/ unread'[d] = unread[d] /\ Late(d)' = Late(d) /\ \A id \in handled' \ handled : id \notin Unseen(d)
  <2>1. \A d \in H!Convs \ {c} : \A id \in handled' \ handled : id \notin Unseen(d)
    BY <1>1, <1>3 DEF Unseen, IdsOf
  <2>2. \A d \in H!Convs : unread'[d] = 0 \/ (unread'[d] = unread[d] /\ Late(d)' = Late(d))
    BY <1>1, CountersStay
  <2>3. QED
    BY <1>2, <2>1, <2>2
<1>9. \A id \in handled' : id \notin told /\ ~log[id].mine => id \in H!ToSet(shown'[log[id].conv])
  BY <1>1, <1>3 DEF HistoryInv, UnreadInv, IdsOf
<1>10. QED
  BY <1>1, <1>4, <1>5, <1>6, <1>7, <1>8, <1>9, StoreStays

LEMMA MessageDeleteSafe == ASSUME HistoryInv, NEW id, H!DeleteMessage(id) PROVE HistoryInv'
<1>0. PICK c : c = selected
  OBVIOUS
<1> DEFINE call == H!Call("delete", c, id)
<1>1. /\ c \in present /\ id \in H!ToSet(shown[c]) /\ log[id].mine
      /\ shown' = [shown EXCEPT ![c] = H!Without(shown[c], id)]
      /\ calls' = calls \cup {call}
      /\ UNCHANGED <<log, sending, link, listening, drops, wire, synced, replaced, handled, missed, told,
                     belated, present, selected, unread, loadingOlder, hasOlder>>
  BY <1>0 DEF H!DeleteMessage, H!Issue, H!server, H!network, H!history
<1>2. c \in H!Convs /\ shown \in [H!Convs -> Seq(Nat)]
  BY <1>1 DEF HistoryInv, HistoryTypes
<1>3. id \in IdsOf(c) /\ id \in Nat
  <2>1. id \in IdsOf(c)
    BY <1>1, <1>2 DEF HistoryInv, ShownInv
  <2>2. QED
    BY <2>1, LogIs DEF HistoryInv, HistoryTypes, IdsOf
<1>4. call \in Calls /\ call.op = "delete" /\ call.conv = c /\ call.id = id /\ ~call.done /\ SyncInv(call)'
  BY <1>2, <1>3, NewCall DEF Operations
<1> HIDE DEF call
<1>5. /\ H!Without(shown[c], id) \in Seq(Nat) /\ Ascends(H!Without(shown[c], id))
      /\ H!ToSet(H!Without(shown[c], id)) = H!ToSet(shown[c]) \ {id}
  BY <1>2, WithoutOne DEF HistoryInv, ShownInv
<1>6. /\ shown' \in [H!Convs -> Seq(Nat)] /\ H!ToSet(shown'[c]) = H!ToSet(shown[c]) \ {id} /\ Ascends(shown'[c])
      /\ \A d \in H!Convs \ {c} : shown'[d] = shown[d]
  BY <1>1, <1>2, <1>5
<1>7. HistoryTypes'
  BY <1>1, <1>4, <1>6 DEF HistoryInv, HistoryTypes, Events
<1>8. ShownInv'
  BY <1>1, <1>6 DEF HistoryInv, ShownInv, IdsOf
<1>9. CallInv(call)'
  BY <1>1, <1>3, <1>4 DEF CallInv, IdsOf
<1>10. /\ H!BeingDeleted(id)' /\ \A other : H!BeingDeleted(other) => H!BeingDeleted(other)'
  BY <1>1, <1>4 DEF H!BeingDeleted
<1>11. ASSUME NEW d \in H!Convs PROVE LosesNone(d)
  BY <1>1, <1>6, <1>10, KnownStays
<1>12. (synced # H!NotSynced)' => synced' = synced /\ synced.conv \in present' /\ LosesNone(synced.conv)
  BY <1>1, <1>11 DEF HistoryInv, HistoryTypes, ResyncInv, SyncedInv, H!NotSynced
<1>13. ASSUME NEW other \in handled', other \notin told, ~log[other].mine PROVE other \in H!ToSet(shown'[log[other].conv])
  <2>1. other \in H!ToSet(shown[log[other].conv]) /\ other # id
    BY <1>1, <1>13 DEF HistoryInv, UnreadInv
  <2>2. log[other].conv \in H!Convs
    BY <1>1, <1>13, LogIs DEF HistoryInv, HistoryTypes, Logged
  <2>3. QED
    BY <1>6, <2>1, <2>2
<1>14. /\ \A d \in present \ replaced' : LosesNone(d)
       /\ \A other \in calls' : other \in calls \/ (CallInv(other)' /\ SyncInv(other)')
       /\ \A d \in H!Convs : /\ unread'[d] = unread[d] /\ Late(d)' = Late(d)
                              /\ \A other \in handled' \ handled : other \notin Unseen(d)
  BY <1>1, <1>4, <1>9, <1>11 DEF HistoryInv, HistoryTypes, Late
<1>15. QED
  BY <1>1, <1>7, <1>8, <1>12, <1>13, <1>14, StoreStays

-----------------------------------------------------------------------------
(* Answers that extend a history.                                           *)

\* Nothing shown disappears.
Extends == \A d \in H!Convs : H!ToSet(shown[d]) \subseteq H!ToSet(shown'[d])

\* An answered or failed call that adds to what is shown.
LEMMA ExtendedSafe == ASSUME HistoryInv, HistoryTypes', ShownInv', NEW call \in calls,
                             calls' = calls \ {call},
                             UNCHANGED <<log, sending, link, listening, drops, wire, replaced, unread,
                                         missed, told, belated>>, present \subseteq present',
                             Extends,
                             handled \subseteq handled', \A id \in handled' : id \in handled \/ log[id].mine,
                             call.op = "delete" => \/ ~log[call.id].live \/ call.conv \notin present
                                                   \/ call.id \in H!ToSet(shown'[call.conv]),
                             (synced # H!NotSynced)' =>
                               \/ synced' = synced
                               \/ SyncedInv'
                      PROVE  HistoryInv'
<1>1. ASSUME NEW c \in present PROVE LosesNone(c)
  <2>1. c \in H!Convs
    BY DEF HistoryInv, HistoryTypes
  <2>2. ASSUME NEW id \in IdsOf(c), H!BeingDeleted(id), log[id].live
        PROVE  H!BeingDeleted(id)' \/ id \in H!ToSet(shown'[c])
    <3>1. PICK d \in calls : d.op = "delete" /\ d.id = id
      BY <2>2 DEF H!BeingDeleted
    <3>2. CASE d \in calls'
      BY <3>1, <3>2 DEF H!BeingDeleted
    <3>3. CASE d = call
      <4>1. call.id \in IdsOf(call.conv)
        BY <3>1, <3>3 DEF HistoryInv, CallInv
      <4>2. call.conv = c
        BY <3>1, <3>3, <4>1 DEF IdsOf
      <4>3. QED
        BY <2>2, <3>1, <3>3, <4>2
    <3>4. QED
      BY <3>2, <3>3
  <2>3. QED
    BY <2>1, <2>2, KnownStays DEF Extends
<1>2. (synced # H!NotSynced)' =>
        \/ synced' = synced /\ synced.conv \in present' /\ LosesNone(synced.conv)
        \/ SyncedInv'
  <2>1. synced # H!NotSynced => synced.conv \in present
    BY DEF HistoryInv, ResyncInv, SyncedInv
  <2>2. QED
    BY <1>1, <2>1 DEF H!NotSynced
<1>3. \A c \in H!Convs : /\ unread'[c] = unread[c] /\ Late(c)' = Late(c)
                          /\ \A id \in handled' \ handled : id \notin Unseen(c)
  BY DEF Unseen, Late
<1>4. ASSUME NEW id \in handled', id \notin told, ~log[id].mine PROVE id \in H!ToSet(shown'[log[id].conv])
  <2>1. id \in handled /\ id \in DOMAIN log /\ id \in H!ToSet(shown[log[id].conv])
    BY <1>4 DEF HistoryInv, HistoryTypes, UnreadInv
  <2>2. log[id].conv \in H!Convs
    BY <2>1, LogIs DEF HistoryInv, HistoryTypes, Logged
  <2>3. QED
    BY <2>1, <2>2 DEF Extends
<1>5. present \cup replaced \subseteq present' \cup replaced' /\ replaced \subseteq replaced'
      /\ \A c \in present \ replaced' : LosesNone(c)
  BY <1>1
<1>6. QED
  BY <1>2, <1>3, <1>4, <1>5, StoreStays

LEMMA CallHolds == ASSUME HistoryInv, NEW call \in calls
                PROVE  /\ call \in Calls /\ call.conv \in H!Convs /\ call.reply \in Seq(Nat) /\ CallInv(call)
                       /\ shown[call.conv] \in Seq(Nat) /\ Ascends(shown[call.conv])
                       /\ H!ToSet(shown[call.conv]) \subseteq IdsOf(call.conv)
<1>1. call \in Calls /\ CallInv(call)
  BY DEF HistoryInv, HistoryTypes
<1>2. call.conv \in H!Convs /\ call.reply \in Seq(Nat)
  BY <1>1 DEF Calls
<1>3. QED
  BY <1>1, <1>2 DEF HistoryInv, HistoryTypes, ShownInv

LEMMA SyncAnsweredSafe == ASSUME HistoryInv, NEW call \in calls, call.done, H!Finish(call),
                                 H!SyncAnswered(call),
                                 UNCHANGED <<log, sending, link, listening, drops, wire>>
                          PROVE  HistoryInv' /\ Extends
<1> DEFINE c == call.conv
           ms == H!MergeMessages(shown[c], call.reply)
<1>1. /\ call.op = "sync" /\ H!Apply(call, ms) /\ calls' = calls \ {call}
      /\ synced' = IF link /\ call.id = drops /\ c \in present \ replaced
                   THEN [conv |-> c, from |-> First(call.reply), upto |-> Upto(call.reply)] ELSE synced
      /\ UNCHANGED <<replaced, handled, missed, told, belated, present, selected, unread, loadingOlder,
                     hasOlder>>
  BY DEF H!SyncAnswered, H!Finish, First, Upto
<1>2. /\ c \in H!Convs /\ call.reply \in Seq(Nat) /\ shown[c] \in Seq(Nat)
      /\ H!ToSet(call.reply) \subseteq IdsOf(c) /\ H!ToSet(shown[c]) \subseteq IdsOf(c)
  BY <1>1, CallHolds DEF CallInv, Fetches
<1>3. /\ ms \in Seq(Nat) /\ Ascends(ms) /\ H!ToSet(ms) = H!ToSet(shown[c]) \cup H!ToSet(call.reply)
  BY <1>2, Merged
<1> HIDE DEF ms
<1>4. /\ shown' \in [H!Convs -> Seq(Nat)] /\ ShownInv'
      /\ \A d \in H!Convs \ {c} : shown'[d] = shown[d]
      /\ shown'[c] = IF c \in present THEN ms ELSE shown[c]
  <2>1. H!ToSet(ms) \subseteq IdsOf(c)
    BY <1>2, <1>3
  <2>2. QED
    BY <1>1, <1>2, <1>3, <2>1, Applied
<1>5. First(call.reply) \in Nat /\ Upto(call.reply) \in Nat
  <2>1. First(call.reply) \in Nat
    BY <1>2, HeadTailProperties, EmptySeq, ElementOfSeq DEF First
  <2>2. Upto(call.reply) \in 0..Len(log) /\ Len(log) \in Nat
    BY <1>2, LastIsLogged, LogIs DEF HistoryInv, HistoryTypes
  <2>3. QED
    BY <2>1, <2>2
<1>6. HistoryTypes'
  BY <1>1, <1>2, <1>4, <1>5 DEF HistoryInv, HistoryTypes, Events
<1>7. Extends
  BY <1>3, <1>4 DEF Extends
<1>8. ASSUME synced' # synced PROVE SyncedInv'
  <2>1. /\ link /\ call.id = drops /\ c \in present \ replaced
        /\ synced'.conv = c /\ synced'.from = First(call.reply) /\ synced'.upto = Upto(call.reply)
    BY <1>1, <1>8
  <2>2. Covered(c, First(call.reply), Upto(call.reply), H!ToSet(call.reply))
    BY <1>1, <2>1 DEF HistoryInv, ResyncInv, SyncInv
  <2>3. ASSUME NEW id \in IdsOf(c), log[id].live, First(call.reply) <= id
        PROVE  Held(c, id)' \/ (Upto(call.reply) < id /\ Expected(id)')
    <3>1. id \in H!ToSet(call.reply) \/ Held(c, id) \/ (Upto(call.reply) < id /\ Expected(id))
      BY <2>2, <2>3 DEF Covered
    <3>2. CASE id \in H!ToSet(call.reply)
      BY <1>3, <1>4, <2>1, <3>2 DEF Held
    <3>3. CASE Held(c, id)
      <4>1. H!BeingDeleted(id) => H!BeingDeleted(id)'
        BY <1>1 DEF H!BeingDeleted
      <4>2. QED
        BY <1>2, <1>7, <3>3, <4>1 DEF Held, Extends
    <3>4. Expected(id)' = Expected(id)
      BY <1>1 DEF Expected, Created
    <3>5. QED
      BY <3>1, <3>2, <3>3, <3>4
  <2>4. Covered(c, First(call.reply), Upto(call.reply), {})'
    <3>1. IdsOf(c)' = IdsOf(c) /\ log' = log
      BY <1>1 DEF IdsOf
    <3>2. Upto(call.reply) \in 0..Len(log)
      BY <2>2 DEF Covered
    <3>3. QED
      BY <2>3, <3>1, <3>2 DEF Covered
  <2>5. QED
    BY <1>1, <2>1, <2>4 DEF SyncedInv
<1>9. QED
  BY <1>1, <1>4, <1>6, <1>7, <1>8, ExtendedSafe

LEMMA OlderAnsweredSafe == ASSUME HistoryInv, NEW call \in calls, call.done, H!Finish(call),
                                  H!OlderAnswered(call),
                                  UNCHANGED <<log, sending, link, listening, drops, wire>>
                           PROVE  HistoryInv' /\ Extends
<1> DEFINE c == call.conv
           ms == H!SortMessages(H!Reverse(call.reply) \o shown[c])
<1>1. /\ call.op = "older" /\ H!Apply(call, ms) /\ calls' = calls \ {call}
      /\ hasOlder' = [hasOlder EXCEPT ![c] = Len(call.reply) >= PageSize] /\ loadingOlder' = FALSE
      /\ UNCHANGED <<synced, replaced, handled, missed, told, belated, present, selected, unread>>
  BY DEF H!OlderAnswered, H!Finish, H!history
<1>2. /\ c \in H!Convs /\ call.reply \in Seq(Nat) /\ shown[c] \in Seq(Nat)
      /\ H!ToSet(call.reply) \subseteq IdsOf(c) /\ H!ToSet(shown[c]) \subseteq IdsOf(c)
  BY <1>1, CallHolds DEF CallInv, Fetches
<1>3. /\ ms \in Seq(Nat) /\ Ascends(ms) /\ H!ToSet(ms) = H!ToSet(call.reply) \cup H!ToSet(shown[c])
  <2>1. H!Reverse(call.reply) \in Seq(Nat) /\ H!ToSet(H!Reverse(call.reply)) = H!ToSet(call.reply)
    BY <1>2, SetOfReverse
  <2>2. QED
    BY <1>2, <2>1, Merged
<1> HIDE DEF ms
<1>4. /\ shown' \in [H!Convs -> Seq(Nat)] /\ ShownInv'
      /\ \A d \in H!Convs \ {c} : shown'[d] = shown[d]
      /\ shown'[c] = IF c \in present THEN ms ELSE shown[c]
  <2>1. H!ToSet(ms) \subseteq IdsOf(c)
    BY <1>2, <1>3
  <2>2. QED
    BY <1>1, <1>2, <1>3, <2>1, Applied
<1>5. HistoryTypes'
  <2>1. (Len(call.reply) >= PageSize) \in BOOLEAN
    OBVIOUS
  <2>2. hasOlder' \in [H!Convs -> BOOLEAN]
    BY <1>1, <2>1 DEF HistoryInv, HistoryTypes
  <2>3. QED
    BY <1>1, <1>2, <1>4, <2>2 DEF HistoryInv, HistoryTypes, Events
<1>6. Extends
  BY <1>3, <1>4 DEF Extends
<1>7. QED
  BY <1>1, <1>4, <1>5, <1>6, ExtendedSafe

LEMMA RefreshAnsweredSafe == ASSUME HistoryInv, NEW call \in calls, call.done, H!Finish(call),
                                    H!RefreshAnswered(call) \/ H!DeleteAnswered(call),
                                    UNCHANGED <<log, sending, link, listening, drops, wire>>
                             PROVE  HistoryInv'
<1>1. /\ calls' = calls \ {call} /\ (call.op = "refresh" \/ call.op = "delete")
      /\ present \subseteq present' /\ present' \subseteq present \cup H!Convs
      /\ UNCHANGED <<synced, replaced, handled, missed, told, belated, selected, shown, unread,
                     loadingOlder, hasOlder>>
  BY DEF H!RefreshAnswered, H!DeleteAnswered, H!Finish, H!history, H!Convs
<1>2. HistoryTypes'
  BY <1>1 DEF HistoryInv, HistoryTypes, Events
<1>3. ShownInv'
  BY <1>1 DEF HistoryInv, ShownInv, IdsOf
<1>4. call.op = "delete" => ~log[call.id].live
  BY CallHolds DEF CallInv
<1>5. QED
  BY <1>1, <1>2, <1>3, <1>4, ExtendedSafe DEF Extends

LEMMA FailedSafe == ASSUME HistoryInv, NEW call \in calls, H!Failed(call) PROVE HistoryInv' /\ Extends
<1> DEFINE c == call.conv
           ms == H!SortMessages(shown[c] \o <<call.id>>)
<1>1. /\ calls' = calls \ {call}
      /\ IF call.op = "delete" THEN H!Apply(call, ms) ELSE shown' = shown
      /\ loadingOlder' = IF call.op = "older" THEN FALSE ELSE loadingOlder
      /\ UNCHANGED <<log, sending, link, listening, drops, wire, synced, replaced, handled, missed, told,
                     belated, present, selected, unread, hasOlder>>
  BY DEF H!Failed, H!Finish, H!server, H!network, H!history
<1>2. /\ c \in H!Convs /\ shown[c] \in Seq(Nat) /\ H!ToSet(shown[c]) \subseteq IdsOf(c) /\ CallInv(call)
      /\ call.id \in Nat
  BY CallHolds DEF Calls
<1>3. /\ ms \in Seq(Nat) /\ Ascends(ms) /\ H!ToSet(ms) = H!ToSet(shown[c]) \cup {call.id}
  <2>1. <<call.id>> \in Seq(Nat) /\ H!ToSet(<<call.id>>) = {call.id}
    BY <1>2 DEF H!ToSet
  <2>2. QED
    BY <1>2, <2>1, Merged
<1> HIDE DEF ms
<1>4. CASE call.op = "delete"
  <2>1. H!ToSet(ms) \subseteq IdsOf(c)
    BY <1>2, <1>3, <1>4 DEF CallInv
  <2>2. /\ shown' \in [H!Convs -> Seq(Nat)] /\ ShownInv'
        /\ \A d \in H!Convs \ {c} : shown'[d] = shown[d]
        /\ shown'[c] = IF c \in present THEN ms ELSE shown[c]
    BY <1>1, <1>2, <1>3, <1>4, <2>1, Applied
  <2>3. HistoryTypes'
    BY <1>1, <1>4, <2>2 DEF HistoryInv, HistoryTypes, Events
  <2>4. Extends
    BY <1>3, <2>2 DEF Extends
  <2>5. c \in present => call.id \in H!ToSet(shown'[c])
    BY <1>3, <2>2
  <2>6. QED
    BY <1>1, <2>2, <2>3, <2>4, <2>5, ExtendedSafe
<1>5. CASE call.op # "delete"
  <2>1. HistoryTypes'
    BY <1>1, <1>5 DEF HistoryInv, HistoryTypes, Events
  <2>2. ShownInv'
    BY <1>1, <1>5 DEF HistoryInv, ShownInv, IdsOf
  <2>3. QED
    BY <1>1, <1>5, <2>1, <2>2, ExtendedSafe DEF Extends
<1>6. QED
  BY <1>4, <1>5

\* addIncomingMessage
LEMMA Incoming == ASSUME HistoryInv, NEW id \in DOMAIN log, H!AddIncoming(id), log' = log
                  PROVE  LET c == log[id].conv
                         IN  /\ c \in H!Convs /\ shown' \in [H!Convs -> Seq(Nat)] /\ ShownInv'
                             /\ \A d \in H!Convs : H!ToSet(shown[d]) \subseteq H!ToSet(shown'[d])
                             /\ c \in present => id \in H!ToSet(shown'[c])
                             /\ handled \subseteq handled' /\ handled' \subseteq handled \cup {id}
                             /\ unread' \in [H!Convs -> Nat] /\ \A d \in H!Convs \ {c} : unread'[d] = unread[d]
                             /\ id \in told => handled' = handled
                             /\ \/ unread'[c] = unread[c]
                                \/ /\ unread'[c] = unread[c] + 1 /\ handled' = handled
                                   /\ ~log[id].mine /\ ~H!Contains(shown[c], id) /\ id \notin H!ToSet(shown[c])
<1> DEFINE c == log[id].conv
           ms == H!MergeMessages(shown[c], <<id>>)
           isNew == ~H!Contains(shown[c], id)
<1>1. c \in H!Convs /\ id \in IdsOf(c) /\ id \in Nat
  BY LogIs DEF HistoryInv, HistoryTypes, Logged, IdsOf
<1>2. /\ shown \in [H!Convs -> Seq(Nat)] /\ unread \in [H!Convs -> Nat]
      /\ shown[c] \in Seq(Nat) /\ H!ToSet(shown[c]) \subseteq IdsOf(c)
  BY <1>1 DEF HistoryInv, HistoryTypes, ShownInv
<1>3. CASE c \in present
  <2>1. /\ shown' = [shown EXCEPT ![c] = ms]
        /\ unread' = [unread EXCEPT ![c] = IF ~isNew \/ log[id].mine \/ selected = c THEN unread[c] ELSE unread[c] + 1]
        /\ handled' = IF selected = c /\ id \notin told THEN handled \cup {id} ELSE handled
    BY <1>3 DEF H!AddIncoming
  <2>2. ms \in Seq(Nat) /\ Ascends(ms) /\ H!ToSet(ms) = H!ToSet(shown[c]) \cup {id}
    <3>1. <<id>> \in Seq(Nat) /\ H!ToSet(<<id>>) = {id}
      BY <1>1 DEF H!ToSet
    <3>2. QED
      BY <1>2, <3>1, Merged
  <2>3. isNew => id \notin H!ToSet(shown[c])
    <3>1. DOMAIN shown[c] = 1..Len(shown[c])
      BY <1>2, LenProperties
    <3>2. QED
      BY <3>1 DEF H!Contains, H!ToSet
  <2> HIDE DEF c, ms, isNew
  <2>4. /\ shown' \in [H!Convs -> Seq(Nat)] /\ shown'[c] = ms /\ \A d \in H!Convs \ {c} : shown'[d] = shown[d]
    BY <1>1, <1>2, <2>1, <2>2
  <2>5. ShownInv'
    BY <1>1, <1>2, <2>2, <2>4 DEF HistoryInv, ShownInv, IdsOf
  <2>6. /\ unread' \in [H!Convs -> Nat] /\ \A d \in H!Convs \ {c} : unread'[d] = unread[d]
        /\ unread'[c] = IF ~isNew \/ log[id].mine \/ selected = c THEN unread[c] ELSE unread[c] + 1
    BY <1>1, <1>2, <2>1
  <2>7. QED
    BY <1>1, <2>1, <2>2, <2>3, <2>4, <2>5, <2>6 DEF c, isNew
<1>4. CASE c \notin present
  <2>1. shown' = shown /\ unread' = unread /\ handled' = handled
    BY <1>4 DEF H!AddIncoming
  <2>2. ShownInv'
    BY <2>1 DEF HistoryInv, ShownInv, IdsOf
  <2>3. QED
    BY <1>1, <1>2, <1>4, <2>1, <2>2
<1>5. QED
  BY <1>3, <1>4

LEMMA SendAnsweredSafe == ASSUME HistoryInv, NEW call \in calls, call.done, H!Finish(call),
                                 H!SendAnswered(call),
                                 UNCHANGED <<log, sending, link, listening, drops, wire>>
                          PROVE  HistoryInv' /\ Extends
<1> DEFINE id == call.reply[1]
<1>1. /\ call.op = "send" /\ calls' = calls \ {call}
      /\ IF call.conv \in DMs THEN H!AddIncoming(id) ELSE UNCHANGED <<shown, unread, handled>>
      /\ UNCHANGED <<synced, replaced, missed, told, belated, present, selected, loadingOlder, hasOlder>>
  BY DEF H!SendAnswered, H!Finish
<1>2. id \in DOMAIN log /\ log[id].mine
  BY <1>1, CallHolds DEF CallInv, IdsOf
<1> HIDE DEF id
<1>3. /\ shown' \in [H!Convs -> Seq(Nat)] /\ ShownInv' /\ unread' \in [H!Convs -> Nat] /\ unread' = unread
      /\ \A d \in H!Convs : H!ToSet(shown[d]) \subseteq H!ToSet(shown'[d])
      /\ handled \subseteq handled' /\ handled' \subseteq handled \cup {id}
  <2>1. CASE call.conv \in DMs
    <3>1. H!AddIncoming(id)
      BY <1>1, <2>1
    <3>2. unread \in [H!Convs -> Nat]
      BY DEF HistoryInv, HistoryTypes
    <3>3. /\ shown' \in [H!Convs -> Seq(Nat)] /\ ShownInv' /\ unread' \in [H!Convs -> Nat]
          /\ \A d \in H!Convs : H!ToSet(shown[d]) \subseteq H!ToSet(shown'[d])
          /\ handled \subseteq handled' /\ handled' \subseteq handled \cup {id}
          /\ log[id].conv \in H!Convs /\ \A d \in H!Convs : unread'[d] = unread[d]
      BY <1>2, <3>1, Incoming
    <3>4. unread' = unread
      BY <3>2, <3>3
    <3>5. QED
      BY <3>3, <3>4
  <2>2. CASE call.conv \notin DMs
    <3>1. shown' = shown /\ unread' = unread /\ handled' = handled
      BY <1>1, <2>2
    <3>2. QED
      BY <3>1 DEF HistoryInv, HistoryTypes, ShownInv, IdsOf
  <2>3. QED
    BY <2>1, <2>2
<1>4. HistoryTypes'
  BY <1>1, <1>2, <1>3 DEF HistoryInv, HistoryTypes, Events
<1>5. QED
  BY <1>1, <1>2, <1>3, <1>4, ExtendedSafe DEF Extends

-----------------------------------------------------------------------------
(* What the server posts and deletes.                                       *)

\* Events told of a log that has grown.
LEMMA EventsGrow == ASSUME HistoryInv, LogGrows
                    PROVE  Events \subseteq Events' /\ wire \in Seq(Events')
<1>1. Events \subseteq Events'
  BY DEF Events, LogGrows
<1>2. wire \in [1..Len(wire) -> Events'] /\ Len(wire) \in Nat
  <2>1. wire \in Seq(Events)
    BY DEF HistoryInv, HistoryTypes
  <2>2. wire \in [1..Len(wire) -> Events] /\ Len(wire) \in Nat
    BY <2>1, LenProperties, SeqDef
  <2>3. QED
    BY <1>1, <2>2
<1>3. QED
  BY <1>1, <1>2, SeqDef

\* A step of the server or of the network alone.
LEMMA ServerOnly == ASSUME HistoryInv, HistoryTypes', WireInv', LogGrows,
                           UNCHANGED <<link, drops, present, shown, unread, synced, replaced, handled, told,
                                       belated>>,
                           \A id : Expected(id) => Expected(id)',
                           \A id \in DOMAIN log' \ DOMAIN log : Len(log) < id /\ Expected(id)',
                           \A call \in calls' : call \in calls \/ (CallInv(call)' /\ SyncInv(call)'),
                           \A id : H!BeingDeleted(id) => H!BeingDeleted(id)'
                    PROVE  HistoryInv'
<1>1. \A c : IdsOf(c) \subseteq IdsOf(c)' /\ IdsOf(c) \subseteq DOMAIN log
  BY DEF LogGrows, IdsOf
<1>2. ShownInv'
  BY <1>1 DEF HistoryInv, ShownInv
<1>3. \A call \in calls' : CallInv(call)'
  BY CallStays DEF HistoryInv
<1>4. ASSUME NEW c PROVE LosesNone(c)
  <2> SUFFICES ASSUME NEW id \in IdsOf(c)', log'[id].live, ~Held(c, id)'
               PROVE  IF id \in IdsOf(c) THEN log[id].live /\ ~Held(c, id) /\ (Expected(id) => Expected(id)')
                      ELSE Len(log) < id /\ Expected(id)'
    BY DEF LosesNone
  <2>1. CASE id \in DOMAIN log
    <3>1. id \in IdsOf(c) /\ log[id].live
      BY <2>1 DEF LogGrows, IdsOf
    <3>2. Held(c, id) => Held(c, id)'
      BY DEF Held
    <3>3. QED
      BY <3>1, <3>2
  <2>2. CASE id \notin DOMAIN log
    <3>1. Len(log) < id /\ Expected(id)' /\ id \notin IdsOf(c)
      BY <2>2 DEF IdsOf
    <3>2. QED
      BY <3>1
  <2>3. QED
    BY <2>1, <2>2
<1>5. ResyncInv'
  <2>1. (synced # H!NotSynced)' => synced' = synced /\ synced.conv \in present' /\ (link => LosesNone(synced.conv))
    BY <1>4 DEF HistoryInv, ResyncInv, SyncedInv, H!NotSynced
  <2>2. link => \A c \in present \ replaced' : LosesNone(c)
    BY <1>4
  <2>3. QED
    BY <2>1, <2>2, ResyncStays
<1>6. UnreadInv'
  <2>1. ASSUME NEW c PROVE Unseen(c) \subseteq Unseen(c)' /\ (Late(c) <=> Late(c)')
    <3>1. Late(c) => Late(c)'
      BY LateStays DEF HistoryInv
    <3>2. Late(c)' => Late(c)
      BY DEF Late, HistoryInv, HistoryTypes, LogGrows
    <3>3. QED
      BY <1>1, <3>1, <3>2 DEF Unseen, LogGrows, IdsOf
  <2>2. \A id \in handled' : id \notin told' /\ ~log'[id].mine => id \in H!ToSet(shown'[log'[id].conv])
    BY DEF HistoryInv, HistoryTypes, UnreadInv, LogGrows
  <2>3. log' \in Seq(Logged)
    BY DEF HistoryTypes
  <2>4. QED
    BY <2>1, <2>2, <2>3, UnreadStays
<1>7. QED
  BY <1>2, <1>3, <1>5, <1>6 DEF HistoryInv

LEMMA Posted == ASSUME HistoryInv, NEW c \in H!Convs, NEW mine \in BOOLEAN, H!Post(c, mine),
                       UNCHANGED <<wire, missed>>
                PROVE  LET n == Len(log) + 1
                       IN  /\ log' \in Seq(Logged) /\ Len(log') <= MaxMessages /\ LogGrows
                           /\ DOMAIN log' = DOMAIN log \cup {n} /\ n \in Nat
                           /\ n \in IdsOf(c)' /\ log'[n].mine = mine
                           /\ wire \in Seq(Events') /\ sending' \subseteq Events' /\ WireInv'
                           /\ \A id : Expected(id) => Expected(id)'
                           /\ \A id \in DOMAIN log' \ DOMAIN log : Len(log) < id /\ Expected(id)'
<1> DEFINE n == Len(log) + 1
           r == [conv |-> c, mine |-> mine, live |-> TRUE]
<1>0. PICK ev : ev = H!Event("message_created", n)
  OBVIOUS
<1>1. /\ log \in Seq(Logged) /\ DOMAIN log = 1..Len(log) /\ Len(log) \in Nat /\ Len(log) < MaxMessages
      /\ log' = Append(log, r) /\ sending' = sending \cup {ev}
  BY <1>0, LogIs DEF HistoryInv, HistoryTypes, H!Post
<1>2. r \in Logged /\ r.conv = c /\ r.mine = mine
  BY DEF Logged
<1> HIDE DEF r
<1>3. /\ log' \in Seq(Logged) /\ Len(log') = n /\ log'[n] = r /\ \A i \in 1..Len(log) : log'[i] = log[i]
  BY <1>1, <1>2, AppendProperties
<1>4. /\ DOMAIN log' = DOMAIN log \cup {n} /\ n \in Nat /\ n \notin DOMAIN log /\ n <= MaxMessages /\ Len(log) < n
  <2>1. DOMAIN log' = 1..n
    BY <1>3, LenProperties
  <2>2. \A k \in Nat : 1..(k + 1) = (1..k) \cup {k + 1} /\ k + 1 \notin 1..k /\ k + 1 \in Nat
    OBVIOUS
  <2>3. n <= MaxMessages /\ Len(log) < n
    BY <1>1, ClientConstants DEF H!HistoryAssumption
  <2>4. QED
    BY <1>1, <2>1, <2>2, <2>3
<1>5. LogGrows
  BY <1>1, <1>3, <1>4 DEF LogGrows
<1>6. ev.type = "message_created" /\ ev.id = n /\ ev \in Events'
  BY <1>0, <1>4 DEF H!Event, Events
<1>a. PICK m : m = n
  OBVIOUS
<1>7. Expected(m)'
  <2>1. ev = H!Event("message_created", m)
    BY <1>0, <1>a
  <2>2. QED
    BY <1>1, <2>1 DEF Expected
<1> HIDE DEF n
<1>8. wire \in Seq(Events') /\ sending' \subseteq Events'
  BY <1>1, <1>5, <1>6, EventsGrow DEF HistoryInv, HistoryTypes
<1>9. WireInv'
  <2>1. \A i \in DOMAIN wire : wire[i].id \in DOMAIN log
    BY WireIs DEF HistoryInv, HistoryTypes, Events
  <2>2. \A x \in sending : x.id \in DOMAIN log
    BY DEF HistoryInv, HistoryTypes, Events
  <2>3. QED
    BY <1>1, <1>5, <1>6, <2>1, <2>2 DEF HistoryInv, WireInv, LogGrows
<1>10. \A id : Expected(id) => Expected(id)'
  BY <1>1 DEF Expected, Created
<1>11. n \in IdsOf(c)'
  BY <1>2, <1>3, <1>4 DEF IdsOf
<1>12. \A id \in DOMAIN log' \ DOMAIN log : Len(log) < id /\ Expected(id)'
  <2>1. \A id \in DOMAIN log' \ DOMAIN log : id = m
    BY <1>4, <1>a
  <2>2. Expected(m)' /\ Len(log) < m
    BY <1>4, <1>7, <1>a
  <2>3. QED
    BY <2>1, <2>2
<1>13. QED
  BY <1>2, <1>3, <1>4, <1>5, <1>8, <1>9, <1>10, <1>11, <1>12 DEF n

LEMMA Erased == ASSUME HistoryInv, NEW id \in DOMAIN log, H!Erase(id), UNCHANGED <<wire, missed>>
                PROVE  /\ log' \in Seq(Logged) /\ Len(log') <= MaxMessages /\ LogGrows
                       /\ DOMAIN log' = DOMAIN log /\ ~log'[id].live
                       /\ wire \in Seq(Events') /\ sending' \subseteq Events' /\ WireInv'
                       /\ \A x : Expected(x) => Expected(x)'
<1>0. PICK ev : ev = H!Event("message_deleted", id)
  OBVIOUS
<1>1. /\ log \in Seq(Logged) /\ DOMAIN log = 1..Len(log) /\ Len(log) \in Nat /\ Len(log) <= MaxMessages
      /\ \A i \in DOMAIN log : log[i] \in Logged
      /\ log' = [log EXCEPT ![id].live = FALSE]
      /\ sending \subseteq sending' /\ sending' \subseteq sending \cup {ev}
  BY <1>0, LogIs DEF HistoryInv, HistoryTypes, H!Erase
<1>2. DOMAIN log' = DOMAIN log /\ \A i \in DOMAIN log : log'[i] = IF i = id THEN [log[id] EXCEPT !.live = FALSE] ELSE log[i]
  BY <1>1
<1>3. [log[id] EXCEPT !.live = FALSE] \in Logged /\ ~[log[id] EXCEPT !.live = FALSE].live
      /\ [log[id] EXCEPT !.live = FALSE].conv = log[id].conv /\ [log[id] EXCEPT !.live = FALSE].mine = log[id].mine
  BY <1>1 DEF Logged
<1>4. LogGrows /\ ~log'[id].live
  BY <1>2, <1>3 DEF LogGrows
<1>5. log' \in Seq(Logged) /\ Len(log') = Len(log)
  <2>1. log' = [i \in 1..Len(log) |-> log'[i]] /\ \A i \in 1..Len(log) : log'[i] \in Logged
    BY <1>1, <1>2, <1>3
  <2>2. log' \in [1..Len(log) -> Logged]
    BY <2>1
  <2>3. log' \in Seq(Logged)
    BY <1>1, <2>2, SeqDef
  <2>4. QED
    BY <1>1, <1>2, <2>3, LenProperties
<1>6. ev.type = "message_deleted" /\ ev.id = id /\ ev \in Events'
  BY <1>0, <1>2 DEF H!Event, Events
<1>7. wire \in Seq(Events') /\ sending' \subseteq Events'
  BY <1>1, <1>4, <1>6, EventsGrow DEF HistoryInv, HistoryTypes
<1>8. WireInv'
  <2>1. \A i \in DOMAIN wire : wire[i].id \in DOMAIN log
    BY WireIs DEF HistoryInv, HistoryTypes, Events
  <2>2. \A x \in sending : x.id \in DOMAIN log
    BY DEF HistoryInv, HistoryTypes, Events
  <2>3. QED
    BY <1>1, <1>4, <1>6, <2>1, <2>2 DEF HistoryInv, WireInv, LogGrows
<1>9. \A x : Expected(x) => Expected(x)'
  BY <1>1 DEF Expected, Created
<1>10. QED
  BY <1>1, <1>2, <1>4, <1>5, <1>7, <1>8, <1>9

LEMMA OthersPostSafe == ASSUME HistoryInv, NEW c \in H!Convs, H!OthersPost(c) PROVE HistoryInv'
<1>1. /\ H!Post(c, FALSE)
      /\ UNCHANGED <<link, listening, drops, wire, synced, replaced, handled, missed, told, belated, calls,
                     present, selected, shown, unread, loadingOlder, hasOlder>>
  BY DEF H!OthersPost, H!network, H!history
<1> DEFINE n == Len(log) + 1
<1>2. /\ log' \in Seq(Logged) /\ Len(log') <= MaxMessages /\ LogGrows
      /\ DOMAIN log' = DOMAIN log \cup {n}
      /\ wire \in Seq(Events') /\ sending' \subseteq Events' /\ WireInv' /\ \A id : Expected(id) => Expected(id)'
      /\ \A id \in DOMAIN log' \ DOMAIN log : Len(log) < id /\ Expected(id)'
  BY <1>1, Posted
<1> HIDE DEF n
<1>3. HistoryTypes'
  BY <1>1, <1>2 DEF HistoryInv, HistoryTypes
<1>4. \A id : H!BeingDeleted(id) => H!BeingDeleted(id)'
  BY <1>1 DEF H!BeingDeleted
<1>5. QED
  BY <1>1, <1>2, <1>3, <1>4, ServerOnly

LEMMA OthersDeleteSafe == ASSUME HistoryInv, NEW id, H!OthersDelete(id) PROVE HistoryInv'
<1>1. /\ id \in DOMAIN log /\ H!Erase(id)
      /\ UNCHANGED <<link, listening, drops, wire, synced, replaced, handled, missed, told, belated, calls,
                     present, selected, shown, unread, loadingOlder, hasOlder>>
  BY DEF H!OthersDelete, H!network, H!history
<1>2. /\ log' \in Seq(Logged) /\ Len(log') <= MaxMessages /\ LogGrows
      /\ DOMAIN log' = DOMAIN log
      /\ wire \in Seq(Events') /\ sending' \subseteq Events' /\ WireInv' /\ \A x : Expected(x) => Expected(x)'
  BY <1>1, Erased
<1>3. HistoryTypes'
  BY <1>1, <1>2 DEF HistoryInv, HistoryTypes
<1>4. \A x : H!BeingDeleted(x) => H!BeingDeleted(x)'
  BY <1>1 DEF H!BeingDeleted
<1>5. QED
  BY <1>1, <1>2, <1>3, <1>4, ServerOnly

LEMMA HistoryServeSafe == ASSUME HistoryInv, NEW call \in calls, H!Serve(call) PROVE HistoryInv' /\ shown' = shown
<1> DEFINE Served(reply) == [call EXCEPT !.done = TRUE, !.reply = reply]
           Answer(reply) == calls' = (calls \ {call}) \cup {Served(reply)}
           n == Len(log) + 1
<1>1. /\ ~call.done
      /\ UNCHANGED <<link, listening, drops, wire, synced, replaced, handled, missed, told, belated,
                     present, selected, shown, unread, loadingOlder, hasOlder>>
      /\ \/ call.op \in {"load", "sync"} /\ Answer(H!FirstPage(call.conv)) /\ UNCHANGED <<log, sending>>
         \/ call.op = "older" /\ Answer(H!Reverse(H!Listing(call.conv, call.id))) /\ UNCHANGED <<log, sending>>
         \/ call.op \in {"createDM", "refresh"} /\ Answer(<<>>) /\ UNCHANGED <<log, sending>>
         \/ call.op = "send" /\ H!Post(call.conv, TRUE) /\ Answer(<<n>>)
         \/ call.op = "delete" /\ H!Erase(call.id) /\ Answer(<<>>)
  BY DEF H!Serve, H!network, H!history
<1>2. call \in Calls /\ call.conv \in H!Convs /\ CallInv(call)
  BY CallHolds
<1>3. \A reply \in Seq(Nat) : /\ Served(reply) \in Calls /\ Served(reply).op = call.op /\ Served(reply).conv = call.conv
                              /\ Served(reply).id = call.id /\ Served(reply).done /\ Served(reply).reply = reply
  BY <1>2 DEF Calls
<1>4. <<>> \in Seq(Nat) /\ H!ToSet(<<>>) = {}
  BY DEF H!ToSet
<1>5. CASE call.op \in {"load", "sync"}
  <2>1. H!FirstPage(call.conv) \in Seq(Nat) /\ H!ToSet(H!FirstPage(call.conv)) \subseteq IdsOf(call.conv)
    BY <1>2, ListingIs DEF HistoryInv, H!FirstPage
  <2>2. calls' = (calls \ {call}) \cup {[call EXCEPT !.done = TRUE, !.reply = H!FirstPage(call.conv)]} /\ UNCHANGED <<log,
                                                                                                                      sending>>
    BY <1>1, <1>5
  <2>3. QED
    BY <1>1, <1>5, <2>1, <2>2, FetchServed DEF Operations, Fetches
<1>6. CASE call.op = "older"
  <2> DEFINE reply == H!Reverse(H!Listing(call.conv, call.id))
  <2>1. reply \in Seq(Nat) /\ H!ToSet(reply) \subseteq IdsOf(call.conv)
    BY <1>2, ListingIs, SetOfReverse DEF HistoryInv
  <2>2. calls' = (calls \ {call}) \cup {[call EXCEPT !.done = TRUE, !.reply = reply]} /\ UNCHANGED <<log,
                                                                                                     sending>>
    BY <1>1, <1>6
  <2> HIDE DEF reply
  <2>3. QED
    BY <1>1, <1>6, <2>1, <2>2, FetchServed DEF Operations, Fetches
<1>7. CASE call.op \in {"createDM", "refresh"}
  <2>1. calls' = (calls \ {call}) \cup {[call EXCEPT !.done = TRUE, !.reply = <<>>]} /\ UNCHANGED <<log,
                                                                                                    sending>>
    BY <1>1, <1>7
  <2>2. QED
    BY <1>1, <1>4, <1>7, <2>1, FetchServed DEF Operations, Fetches
<1>8. CASE call.op = "send"
  <2>1. H!Post(call.conv, TRUE) /\ Answer(<<n>>)
    BY <1>1, <1>8
  <2>2. /\ log' \in Seq(Logged) /\ Len(log') <= MaxMessages /\ LogGrows
        /\ DOMAIN log' = DOMAIN log \cup {n} /\ n \in IdsOf(call.conv)' /\ log'[n].mine /\ n \in Nat
        /\ wire \in Seq(Events') /\ sending' \subseteq Events' /\ WireInv' /\ \A id : Expected(id) => Expected(id)'
        /\ \A id \in DOMAIN log' \ DOMAIN log : Len(log) < id /\ Expected(id)'
    BY <1>1, <1>2, <2>1, Posted
  <2>3. PICK m : m = n
    OBVIOUS
  <2>4. m \in IdsOf(call.conv)' /\ log'[m].mine /\ <<m>> \in Seq(Nat) /\ Len(<<m>>) = 1 /\ <<m>>[1] = m
    BY <2>2, <2>3
  <2>5. PICK d : d = Served(<<m>>)
    OBVIOUS
  <2>6. d \in Calls /\ d.op = "send" /\ d.conv = call.conv /\ d.done /\ d.reply = <<m>>
    BY <1>3, <1>8, <2>4, <2>5
  <2>a. calls' = (calls \ {call}) \cup {d}
    BY <2>1, <2>3, <2>5
  <2>b. CallInv(d)' /\ SyncInv(d)'
    BY <2>4, <2>6 DEF CallInv, SyncInv, Fetches
  <2>7. HistoryTypes'
    BY <1>1, <2>2, <2>6, <2>a DEF HistoryInv, HistoryTypes
  <2>8. \A id : H!BeingDeleted(id) => H!BeingDeleted(id)'
    BY <1>8, <2>a DEF H!BeingDeleted
  <2>9. \A other \in calls' : other \in calls \/ (CallInv(other)' /\ SyncInv(other)')
    BY <2>a, <2>b
  <2>10. QED
    BY <1>1, <2>2, <2>7, <2>8, <2>9, ServerOnly
<1>9. CASE call.op = "delete"
  <2>1. H!Erase(call.id) /\ Answer(<<>>) /\ call.id \in IdsOf(call.conv) /\ log[call.id].mine
    BY <1>1, <1>2, <1>9 DEF CallInv
  <2>2. /\ log' \in Seq(Logged) /\ Len(log') <= MaxMessages /\ LogGrows
        /\ DOMAIN log' = DOMAIN log /\ ~log'[call.id].live
        /\ wire \in Seq(Events') /\ sending' \subseteq Events' /\ WireInv' /\ \A x : Expected(x) => Expected(x)'
    BY <1>1, <2>1, Erased DEF IdsOf
  <2>x. PICK d : d = Served(<<>>)
    OBVIOUS
  <2>3. d \in Calls /\ d.op = "delete" /\ d.conv = call.conv /\ d.id = call.id /\ d.done
    BY <1>3, <1>4, <1>9, <2>x
  <2>4. calls' = (calls \ {call}) \cup {d}
    BY <2>1, <2>x
  <2>5. CallInv(d)' /\ SyncInv(d)'
    <3>1. call.id \in IdsOf(call.conv)' /\ log'[call.id].mine
      BY <2>1, <2>2 DEF IdsOf, LogGrows
    <3>2. QED
      BY <2>2, <2>3, <3>1 DEF CallInv, SyncInv, Fetches
  <2>6. HistoryTypes'
    BY <1>1, <2>2, <2>3, <2>4 DEF HistoryInv, HistoryTypes
  <2>7. \A x : H!BeingDeleted(x) => H!BeingDeleted(x)'
    BY <1>9, <2>3, <2>4 DEF H!BeingDeleted
  <2>8. \A other \in calls' : other \in calls \/ (CallInv(other)' /\ SyncInv(other)')
    BY <2>4, <2>5
  <2>9. QED
    BY <1>1, <2>2, <2>6, <2>7, <2>8, ServerOnly
<1>10. QED
  BY <1>1, <1>5, <1>6, <1>7, <1>8, <1>9

-----------------------------------------------------------------------------
(* The WebSocket.                                                           *)

\* The next event taken off the wire.
LEMMA Taken == ASSUME HistoryInv, wire # <<>>, wire' = Tail(wire), UNCHANGED <<log, sending>>
               PROVE  /\ Head(wire) \in Events /\ wire' \in Seq(Events) /\ WireInv'
                      /\ \A id : Created(id) => Created(id)' \/ (id = Head(wire).id /\ Head(wire).type = "message_created")
                      /\ Head(wire).type = "message_deleted" => ~log[Head(wire).id].live
<1>1. wire \in Seq(Events)
  BY DEF HistoryInv, HistoryTypes
<1>2. PICK x : x = Head(wire)
  OBVIOUS
<1>3. /\ x = wire[1] /\ x \in Events /\ wire' \in Seq(Events)
      /\ DOMAIN wire = 1..Len(wire) /\ Len(wire) \in Nat \ {0}
      /\ DOMAIN wire' = 1..(Len(wire) - 1)
      /\ \A i \in 1..(Len(wire) - 1) : wire'[i] = wire[i + 1]
  <2>1. /\ Len(wire) \in Nat \ {0} /\ Len(Tail(wire)) = Len(wire) - 1 /\ Head(wire) = wire[1]
        /\ Tail(wire) \in Seq(Events) /\ wire[1] \in Events
    BY <1>1, HeadTailProperties, EmptySeq, LenProperties, ElementOfSeq
  <2>2. DOMAIN wire = 1..Len(wire) /\ DOMAIN Tail(wire) = 1..Len(Tail(wire))
    BY <1>1, <2>1, LenProperties
  <2>3. \A i \in 1..(Len(wire) - 1) : Tail(wire)[i] = wire[i + 1]
    BY <1>1, <2>1
  <2>4. QED
    BY <1>2, <2>1, <2>2, <2>3
<1>4. /\ \A i \in DOMAIN wire' : i + 1 \in DOMAIN wire /\ wire'[i] = wire[i + 1] /\ i \in Nat /\ 1 < i + 1
      /\ \A i, j \in DOMAIN wire' : i < j => i + 1 < j + 1
      /\ \A i \in DOMAIN wire : i = 1 \/ (i \in Nat /\ i - 1 \in DOMAIN wire' /\ wire'[i - 1] = wire[i])
      /\ 1 \in DOMAIN wire /\ wire[1] = x
  <2>1. \A k \in Nat \ {0} : \A i \in 1..(k - 1) : i + 1 \in 1..k /\ i \in Nat /\ 1 < i + 1
    OBVIOUS
  <2>2. \A k \in Nat \ {0} : 1 \in 1..k /\ \A i \in 1..k : i = 1 \/ (i \in Nat /\ i - 1 \in 1..(k - 1) /\ (i - 1) + 1 = i)
    OBVIOUS
  <2>3. \A i, j \in Nat : i < j => i + 1 < j + 1
    OBVIOUS
  <2>4. QED
    BY <1>3, <2>1, <2>2, <2>3
<1>5. WireInv'
  BY <1>4 DEF HistoryInv, WireInv
<1>6. \A id : Created(id) => Created(id)' \/ (id = x.id /\ x.type = "message_created")
  BY <1>4 DEF Created
<1>7. x.type = "message_deleted" => ~log[x.id].live
  BY <1>4 DEF HistoryInv, WireInv
<1>8. QED
  BY <1>2, <1>3, <1>5, <1>6, <1>7

\* What a history no longer shows is accounted for.
Accounted ==
  \A c \in H!Convs : \A id \in H!ToSet(shown[c]) \ H!ToSet(shown'[c]) :
    \/ H!BeingDeleted(id)'
    \/ ~log[id].live /\ wire # <<>> /\ Head(wire).id = id
    \/ \E call \in calls \ calls' : call.op \in {"load", "createDM"} /\ call.conv = c
    \/ c \notin present'

LEMMA ReceiveDeletedSafe == ASSUME HistoryInv, wire # <<>>, wire' = Tail(wire),
                                   Head(wire).type = "message_deleted",
                                   H!MessageDeleted(Head(wire).id)
                            PROVE  HistoryInv' /\ Accounted
<1>1. PICK id : id = Head(wire).id
  OBVIOUS
<1>2. PICK c : c = log[id].conv
  OBVIOUS
<1>3. /\ shown' = [shown EXCEPT ![c] = H!Without(shown[c], id)]
      /\ told' = told \cup {id}
      /\ UNCHANGED <<log, sending, link, listening, drops, synced, replaced, handled, missed, belated,
                     calls, present, selected, unread, loadingOlder, hasOlder>>
  BY <1>1, <1>2 DEF H!MessageDeleted, H!server, H!history
<1>4. /\ id \in DOMAIN log /\ wire' \in Seq(Events) /\ WireInv' /\ ~log[id].live
      /\ \A x : x # id /\ Created(x) => Created(x)'
  BY <1>1, <1>3, Taken DEF Events
<1>5. c \in H!Convs /\ shown \in [H!Convs -> Seq(Nat)] /\ id \in IdsOf(c)
  BY <1>2, <1>4, LogIs DEF HistoryInv, HistoryTypes, Logged, IdsOf
<1>6. /\ H!Without(shown[c], id) \in Seq(Nat) /\ Ascends(H!Without(shown[c], id))
      /\ H!ToSet(H!Without(shown[c], id)) = H!ToSet(shown[c]) \ {id}
  BY <1>5, WithoutOne DEF HistoryInv, ShownInv
<1>7. /\ shown' \in [H!Convs -> Seq(Nat)] /\ H!ToSet(shown'[c]) = H!ToSet(shown[c]) \ {id} /\ Ascends(shown'[c])
      /\ \A d \in H!Convs \ {c} : shown'[d] = shown[d]
  BY <1>3, <1>5, <1>6
<1>8. HistoryTypes'
  BY <1>3, <1>4, <1>7 DEF HistoryInv, HistoryTypes, Events
<1>9. ShownInv'
  BY <1>3, <1>7 DEF HistoryInv, ShownInv, IdsOf
<1>10. LogGrows
  BY <1>3 DEF LogGrows
<1>11. \A call \in calls' : CallInv(call)'
  BY <1>3, <1>10, CallStays DEF HistoryInv
<1>12. ASSUME NEW d \in H!Convs PROVE LosesNone(d)
  <2> SUFFICES ASSUME NEW x \in IdsOf(d), log[x].live
               PROVE  (Held(d, x) => Held(d, x)') /\ (Expected(x) => Expected(x)')
    BY <1>3 DEF LosesNone, IdsOf
  <2>1. x # id
    BY <1>4
  <2>2. x \in H!ToSet(shown[d]) => x \in H!ToSet(shown'[d])
    BY <1>7, <2>1
  <2>3. Expected(x) => Expected(x)'
    BY <1>3, <1>4, <2>1 DEF Expected
  <2>4. H!BeingDeleted(x) => H!BeingDeleted(x)'
    BY <1>3 DEF H!BeingDeleted
  <2>5. QED
    BY <2>2, <2>3, <2>4 DEF Held
<1>13. ResyncInv'
  <2>1. (synced # H!NotSynced)' => synced' = synced /\ synced.conv \in present' /\ LosesNone(synced.conv)
    BY <1>3, <1>12 DEF HistoryInv, HistoryTypes, ResyncInv, SyncedInv, H!NotSynced
  <2>2. /\ \A d \in present \ replaced' : LosesNone(d)
        /\ \A call \in calls' : call \in calls
    BY <1>3, <1>12 DEF HistoryInv, HistoryTypes
  <2>3. QED
    BY <1>3, <1>8, <1>10, <2>1, <2>2, ResyncStays
<1>14. UnreadInv'
  <2>1. \A d \in H!Convs : unread'[d] = unread[d] /\ Unseen(d) \subseteq Unseen(d)' /\ Late(d)' = Late(d)
    BY <1>3, <1>4 DEF Unseen, IdsOf, Late
  <2>2. ASSUME NEW x \in handled', x \notin told', ~log'[x].mine PROVE x \in H!ToSet(shown'[log'[x].conv])
    <3>1. x \in handled /\ x \notin told /\ x # id /\ ~log[x].mine /\ log' = log
      BY <1>3, <2>2
    <3>2. x \in H!ToSet(shown[log[x].conv])
      BY <3>1 DEF HistoryInv, UnreadInv
    <3>3. log[x].conv \in H!Convs
      BY <3>1, LogIs DEF HistoryInv, HistoryTypes, Logged
    <3>4. QED
      BY <1>7, <3>1, <3>2, <3>3
  <2>3. log' \in Seq(Logged)
    BY <1>8 DEF HistoryTypes
  <2>4. QED
    BY <2>1, <2>2, <2>3, UnreadStays
<1>15. Accounted
  BY <1>1, <1>4, <1>7 DEF Accounted
<1>16. QED
  BY <1>4, <1>8, <1>9, <1>11, <1>13, <1>14, <1>15 DEF HistoryInv

LEMMA ReceiveCreatedSafe == ASSUME HistoryInv, wire # <<>>, wire' = Tail(wire),
                                   Head(wire).type = "message_created",
                                   H!MessageCreated(Head(wire).id)
                            PROVE  HistoryInv' /\ Extends
<1>1. PICK id : id = Head(wire).id
  OBVIOUS
<1>2. PICK c : c = log[id].conv
  OBVIOUS
<1>3. PICK refresh : refresh = H!Call("refresh", c, 0)
  OBVIOUS
<1>4. /\ H!AddIncoming(id) /\ told' = told \cup {id}
      /\ belated' = IF id \in told /\ ~H!Contains(shown[c], id) THEN belated \cup {id} ELSE belated
      /\ (calls' = calls \cup {refresh} \/ calls' = calls)
      /\ UNCHANGED <<log, sending, link, listening, drops, synced, replaced, missed, present, selected,
                     loadingOlder, hasOlder>>
  BY <1>1, <1>2, <1>3 DEF H!MessageCreated, H!server
<1>5. /\ id \in DOMAIN log /\ wire' \in Seq(Events) /\ WireInv'
      /\ \A x : x # id /\ Created(x) => Created(x)'
  BY <1>1, <1>4, Taken DEF Events
<1>6. /\ c \in H!Convs /\ shown' \in [H!Convs -> Seq(Nat)] /\ ShownInv'
      /\ \A d \in H!Convs : H!ToSet(shown[d]) \subseteq H!ToSet(shown'[d])
      /\ c \in present => id \in H!ToSet(shown'[c])
      /\ handled \subseteq handled' /\ handled' \subseteq handled \cup {id}
      /\ unread' \in [H!Convs -> Nat] /\ \A d \in H!Convs \ {c} : unread'[d] = unread[d]
      /\ id \in told => handled' = handled
      /\ \/ unread'[c] = unread[c]
         \/ /\ unread'[c] = unread[c] + 1 /\ handled' = handled
            /\ ~log[id].mine /\ ~H!Contains(shown[c], id) /\ id \notin H!ToSet(shown[c])
  BY <1>2, <1>4, <1>5, Incoming
<1>7. refresh \in Calls /\ refresh.op = "refresh" /\ CallInv(refresh)' /\ SyncInv(refresh)'
  BY <1>3, <1>6, NewCall DEF Operations
<1>8. HistoryTypes'
  BY <1>4, <1>5, <1>6, <1>7 DEF HistoryInv, HistoryTypes, Events
<1>9. LogGrows
  BY <1>4 DEF LogGrows
<1>10. \A call \in calls' : CallInv(call)' /\ (call \in calls \/ SyncInv(call)')
  BY <1>4, <1>7, <1>9, CallStays DEF HistoryInv
<1>11. ASSUME NEW d \in present PROVE LosesNone(d)
  <2> SUFFICES ASSUME NEW x \in IdsOf(d), log[x].live
               PROVE  Held(d, x)' \/ (~Held(d, x) /\ (Expected(x) => Expected(x)'))
    BY <1>4 DEF LosesNone, IdsOf
  <2>1. x \in H!ToSet(shown[d]) => x \in H!ToSet(shown'[d])
    BY <1>6 DEF HistoryInv, HistoryTypes
  <2>2. CASE x = id
    BY <1>2, <1>6, <2>2 DEF Held, IdsOf
  <2>3. CASE x # id
    <3>1. Expected(x) => Expected(x)'
      BY <1>4, <1>5, <2>3 DEF Expected
    <3>2. H!BeingDeleted(x) => H!BeingDeleted(x)'
      BY <1>4 DEF H!BeingDeleted
    <3>3. QED
      BY <2>1, <3>1, <3>2 DEF Held
  <2>4. QED
    BY <2>2, <2>3
<1>12. ResyncInv'
  <2>1. (synced # H!NotSynced)' => synced' = synced /\ synced.conv \in present' /\ LosesNone(synced.conv)
    BY <1>4, <1>11 DEF HistoryInv, ResyncInv, SyncedInv, H!NotSynced
  <2>2. /\ \A d \in present \ replaced' : LosesNone(d)
        /\ \A call \in calls' : call \in calls \/ SyncInv(call)'
    BY <1>4, <1>10, <1>11
  <2>3. QED
    BY <1>4, <1>8, <1>9, <2>1, <2>2, ResyncStays
<1>13. UnreadInv'
  <2>1. ASSUME NEW d \in H!Convs PROVE Unseen(d) \subseteq Unseen(d)'
    BY <1>4, <1>5, <1>6 DEF Unseen, IdsOf
  <2>a. PICK oc : oc = c
    OBVIOUS
  <2>2. unread'[oc] # unread[oc] => Late(oc)' \/ (id \in Unseen(oc)' /\ id \notin Unseen(oc))
    <3> SUFFICES ASSUME unread'[c] # unread[c] PROVE Late(oc)' \/ (id \in Unseen(oc)' /\ id \notin Unseen(oc))
      BY <2>a
    <3>1. handled' = handled /\ ~log[id].mine /\ id \notin H!ToSet(shown[c]) /\ ~H!Contains(shown[c], id)
      BY <1>6
    <3>2. CASE id \in told
      <4>1. id \in belated' /\ log'[id].conv = oc
        BY <1>2, <1>4, <2>a, <3>1, <3>2
      <4>2. QED
        BY <4>1 DEF Late
    <3>3. CASE id \notin told
      <4>1. id \notin handled
        BY <1>2, <3>1, <3>3 DEF HistoryInv, UnreadInv
      <4>2. id \in IdsOf(oc)' /\ ~log'[id].mine /\ id \in told'
        BY <1>2, <1>4, <1>5, <2>a, <3>1 DEF IdsOf
      <4>3. QED
        BY <3>1, <3>3, <4>1, <4>2 DEF Unseen
    <3>4. QED
      BY <3>2, <3>3
  <2>3. \A d \in H!Convs :
          \/ Late(d)' \/ unread'[d] = 0
          \/ unread'[d] = unread[d] /\ Unseen(d) \subseteq Unseen(d)'
          \/ /\ unread'[d] = unread[d] + 1 /\ Unseen(d) \subseteq Unseen(d)'
             /\ \E x \in Unseen(d)' : x \notin Unseen(d)
    BY <1>6, <2>1, <2>2, <2>a
  <2>b. \A d \in H!Convs : Late(d) => Late(d)'
    BY <1>4, <1>9, LateStays DEF HistoryInv
  <2>4. ASSUME NEW x \in handled', x \notin told', ~log'[x].mine PROVE x \in H!ToSet(shown'[log'[x].conv])
    <3>1. x \in handled /\ x \notin told /\ ~log[x].mine /\ log' = log
      BY <1>4, <1>6, <2>4
    <3>2. x \in H!ToSet(shown[log[x].conv])
      BY <3>1 DEF HistoryInv, UnreadInv
    <3>3. log[x].conv \in H!Convs
      BY <3>1, LogIs DEF HistoryInv, HistoryTypes, Logged
    <3>4. QED
      BY <1>6, <3>1, <3>2, <3>3
  <2>5. log' \in Seq(Logged)
    BY <1>8 DEF HistoryTypes
  <2>6. QED
    BY <2>3, <2>4, <2>5, <2>b, UnreadStays
<1>14. QED
  BY <1>5, <1>6, <1>8, <1>10, <1>12, <1>13 DEF HistoryInv, Extends

-----------------------------------------------------------------------------
(* Every step.                                                              *)

LEMMA OpenSafe == ASSUME HistoryInv, H!Open PROVE HistoryInv'
<1>1. PICK c : c = selected
  OBVIOUS
<1>2. PICK sync : sync = H!Call("sync", c, drops)
  OBVIOUS
<1>3. /\ ~link /\ link' = TRUE /\ listening' = {} /\ missed' = {}
      /\ calls' = IF c \in present THEN calls \cup {sync} ELSE calls
      /\ UNCHANGED <<log, sending, drops, wire, synced, replaced, handled, told, belated, present, selected,
                     shown, unread, loadingOlder, hasOlder>>
  BY <1>1, <1>2 DEF H!Open, H!server, H!history
<1>4. drops \in Nat /\ drops \in 0..MaxDrops
  <2>1. drops \in 0..MaxDrops /\ MaxDrops \in Nat
    BY ClientConstants DEF HistoryInv, HistoryTypes, H!HistoryAssumption
  <2>2. QED
    BY <2>1
<1>5. c \in present => /\ sync \in Calls /\ sync.op = "sync" /\ sync.conv = c /\ sync.id = drops /\ ~sync.done
                       /\ SyncInv(sync)'
  BY <1>2, <1>4, NewCall DEF Operations, HistoryInv, HistoryTypes
<1>6. HistoryTypes'
  BY <1>3, <1>5 DEF HistoryInv, HistoryTypes, Events
<1>7. ShownInv' /\ WireInv'
  BY <1>3 DEF HistoryInv, ShownInv, IdsOf, WireInv
<1>8. LogGrows
  BY <1>3 DEF LogGrows
<1>9. \A call \in calls : CallInv(call)'
  BY <1>3, <1>8, CallStays DEF HistoryInv
<1>10. c \in present => CallInv(sync)'
  <2>1. drops <= drops
    BY <1>4
  <2>2. QED
    BY <1>3, <1>5, <2>1 DEF CallInv, Fetches
<1>11. ASSUME NEW call \in calls PROVE SyncInv(call)'
  <2>1. call.op = "sync" => call.id < drops /\ call.id \in Nat
    BY <1>3 DEF HistoryInv, HistoryTypes, CallInv, Calls
  <2>2. call.op = "sync" => call.id # drops'
    BY <1>3, <1>4, <2>1
  <2>3. QED
    BY <2>2 DEF SyncInv
<1>12. ResyncInv'
  <2>1. synced = H!NotSynced
    BY <1>3 DEF HistoryInv, ResyncInv, SyncedInv
  <2>2. (synced = H!NotSynced)'
    BY <1>3, <2>1 DEF H!NotSynced
  <2>3. QED
    BY <1>3, <1>5, <1>11, <2>2 DEF ResyncInv
<1>13. UnreadInv'
  <2>1. \A d \in H!Convs : unread'[d] = unread[d] /\ Unseen(d)' = Unseen(d) /\ Late(d)' = Late(d)
    BY <1>3 DEF Unseen, IdsOf, Late
  <2>2. \A id \in handled' : id \notin told' /\ ~log'[id].mine => id \in H!ToSet(shown'[log'[id].conv])
    BY <1>3 DEF HistoryInv, UnreadInv
  <2>3. log' \in Seq(Logged)
    BY <1>6 DEF HistoryTypes
  <2>4. QED
    BY <2>1, <2>2, <2>3, UnreadStays
<1>14. QED
  BY <1>3, <1>6, <1>7, <1>9, <1>10, <1>12, <1>13 DEF HistoryInv

LEMMA DropSafe == ASSUME HistoryInv, H!Drop PROVE HistoryInv'
<1>1. /\ link /\ drops < MaxDrops /\ link' = FALSE /\ drops' = drops + 1 /\ wire' = <<>> /\ listening' = {}
      /\ synced' = H!NotSynced /\ replaced' = {}
      /\ UNCHANGED <<log, sending, handled, missed, told, belated, calls, present, selected, shown, unread,
                     loadingOlder, hasOlder>>
  BY DEF H!Drop, H!server
<1>2. drops \in Nat /\ drops + 1 \in 0..MaxDrops
  <2>1. drops \in 0..MaxDrops /\ MaxDrops \in Nat
    BY ClientConstants DEF HistoryInv, HistoryTypes, H!HistoryAssumption
  <2>2. QED
    BY <1>1, <2>1
<1>3. HistoryTypes'
  <2>1. /\ synced' \in [conv: H!Convs \cup {none}, from: Nat, upto: Nat] /\ wire' \in Seq(Events)'
        /\ Events' = Events
    BY <1>1 DEF H!NotSynced, Events
  <2>2. QED
    BY <1>1, <1>2, <2>1 DEF HistoryInv, HistoryTypes
<1>4. ShownInv' /\ WireInv'
  BY <1>1 DEF HistoryInv, ShownInv, IdsOf, WireInv
<1>5. ASSUME NEW call \in calls PROVE CallInv(call)'
  <2>1. CallInv(call) /\ IdsOf(call.conv)' = IdsOf(call.conv) /\ call.id \in Nat
    BY <1>1 DEF HistoryInv, HistoryTypes, IdsOf, Calls
  <2>2. call.op = "sync" => call.id <= drops' /\ call.id < drops' /\ call.id # drops'
    <3>1. call.op = "sync" => call.id <= drops
      BY <2>1 DEF CallInv
    <3>2. QED
      BY <1>1, <1>2, <2>1, <3>1
  <2>3. QED
    BY <1>1, <2>1, <2>2 DEF CallInv
<1>6. ResyncInv'
  <2>1. (synced = H!NotSynced)'
    BY <1>1 DEF H!NotSynced
  <2>2. QED
    BY <1>1, <2>1 DEF ResyncInv, SyncInv
<1>7. UnreadInv'
  <2>1. \A d \in H!Convs : unread'[d] = unread[d] /\ Unseen(d)' = Unseen(d) /\ Late(d)' = Late(d)
    BY <1>1 DEF Unseen, IdsOf, Late
  <2>2. \A id \in handled' : id \notin told' /\ ~log'[id].mine => id \in H!ToSet(shown'[log'[id].conv])
    BY <1>1 DEF HistoryInv, UnreadInv
  <2>3. log' \in Seq(Logged)
    BY <1>3 DEF HistoryTypes
  <2>4. QED
    BY <2>1, <2>2, <2>3, UnreadStays
<1>8. QED
  BY <1>1, <1>3, <1>4, <1>5, <1>6, <1>7 DEF HistoryInv

\* What the network does to the events.
LEMMA NetworkSafe == ASSUME HistoryInv,
                            \/ \E ev \in sending, again \in BOOLEAN : H!Broadcast(ev, again)
                            \/ \E ev \in sending : H!Lose(ev)
                            \/ \E c \in H!Convs : H!Subscribe(c)
                     PROVE  HistoryInv' /\ shown' = shown
<1>0. UNCHANGED <<log, link, drops, present, selected, shown, unread, synced, replaced, handled, told, belated,
                  calls, loadingOlder, hasOlder>>
  BY DEF H!Broadcast, H!Lose, H!Subscribe, H!server, H!network, H!history
<1>1. LogGrows /\ Events' = Events /\ DOMAIN log' = DOMAIN log
  BY <1>0 DEF LogGrows, Events
<1>2. /\ wire \in Seq(Events) /\ sending \subseteq Events /\ listening \subseteq H!Convs /\ missed \subseteq DOMAIN log
      /\ DOMAIN wire = 1..Len(wire) /\ Len(wire) \in Nat
  BY WireIs DEF HistoryInv, HistoryTypes
<1>3. /\ wire' \in Seq(Events) /\ sending' \subseteq Events /\ listening' \subseteq H!Convs /\ missed' \subseteq DOMAIN log
      /\ WireInv' /\ \A id : Expected(id) => Expected(id)'
  <2>1. ASSUME NEW ev \in sending, NEW again \in BOOLEAN, H!Broadcast(ev, again)
        PROVE  /\ wire' \in Seq(Events) /\ sending' \subseteq Events /\ listening' \subseteq H!Convs
               /\ missed' \subseteq DOMAIN log /\ WireInv' /\ \A id : Expected(id) => Expected(id)'
    <3>1. wire' = Append(wire, ev) /\ sending \ {ev} \subseteq sending' /\ sending' \subseteq sending /\ UNCHANGED <<listening,
                                                                                                                     missed>>
      BY <2>1 DEF H!Broadcast, H!history
    <3>2. /\ wire' \in Seq(Events) /\ Len(wire') = Len(wire) + 1 /\ wire'[Len(wire) + 1] = ev
          /\ \A i \in 1..Len(wire) : wire'[i] = wire[i]
      BY <1>2, <2>1, <3>1, AppendProperties
    <3>3. DOMAIN wire' = 1..(Len(wire) + 1)
      BY <3>2, LenProperties
    <3>4. /\ \A i \in DOMAIN wire' : wire'[i] = ev \/ (i \in DOMAIN wire /\ wire'[i] = wire[i])
          /\ \A i \in DOMAIN wire : i \in DOMAIN wire' /\ wire'[i] = wire[i]
          /\ \E i \in DOMAIN wire' : wire'[i] = ev
      <4>1. \A k \in Nat : \A i : i \in 1..(k + 1) <=> i = k + 1 \/ i \in 1..k
        OBVIOUS
      <4>2. QED
        BY <1>2, <3>2, <3>3, <4>1
    <3>5. WireInv'
      <4>1. ASSUME NEW i \in DOMAIN wire', wire'[i].type = "message_deleted" PROVE ~log'[wire'[i].id].live
        BY <1>0, <3>4, <4>1 DEF HistoryInv, WireInv
      <4>2. \A x \in sending' : x.type = "message_deleted" => ~log'[x.id].live
        BY <1>0, <3>1 DEF HistoryInv, WireInv
      <4>3. QED
        BY <4>1, <4>2 DEF WireInv
    <3>6. ASSUME NEW id, Expected(id) PROVE Expected(id)'
      <4>1. Created(id) => Created(id)'
        BY <3>4 DEF Created
      <4>2. CASE ev = H!Event("message_created", id)
        <5>1. ev.id = id /\ ev.type = "message_created"
          BY <4>2 DEF H!Event
        <5>2. Created(id)'
          BY <3>4, <5>1 DEF Created
        <5>3. QED
          BY <5>2 DEF Expected
      <4>3. CASE ev # H!Event("message_created", id)
        BY <3>1, <3>6, <4>1, <4>3 DEF Expected
      <4>4. QED
        BY <4>2, <4>3
    <3>7. QED
      BY <1>2, <3>1, <3>2, <3>5, <3>6
  <2>2. ASSUME NEW ev \in sending, H!Lose(ev)
        PROVE  /\ wire' \in Seq(Events) /\ sending' \subseteq Events /\ listening' \subseteq H!Convs
               /\ missed' \subseteq DOMAIN log /\ WireInv' /\ \A id : Expected(id) => Expected(id)'
    <3>1. /\ sending' = sending \ {ev} /\ UNCHANGED <<wire, listening>>
          /\ missed' = IF ev.type = "message_created" THEN missed \cup {ev.id} ELSE missed
      BY <2>2 DEF H!Lose, H!network
    <3>2. ev.id \in DOMAIN log
      BY <1>2 DEF Events
    <3>3. WireInv'
      BY <1>0, <3>1 DEF HistoryInv, WireInv
    <3>4. ASSUME NEW id, Expected(id) PROVE Expected(id)'
      <4>1. Created(id)' = Created(id)
        BY <3>1 DEF Created
      <4>2. ev = H!Event("message_created", id) => id \in missed'
        BY <3>1 DEF H!Event
      <4>3. QED
        BY <3>1, <3>4, <4>1, <4>2 DEF Expected
    <3>5. QED
      BY <1>2, <3>1, <3>2, <3>3, <3>4
  <2>3. ASSUME NEW c \in H!Convs, H!Subscribe(c)
        PROVE  /\ wire' \in Seq(Events) /\ sending' \subseteq Events /\ listening' \subseteq H!Convs
               /\ missed' \subseteq DOMAIN log /\ WireInv' /\ \A id : Expected(id) => Expected(id)'
    <3>1. listening' = listening \cup {c} /\ UNCHANGED <<wire, sending, missed>>
      BY <2>3 DEF H!Subscribe, H!server, H!history
    <3>2. WireInv' /\ \A id : Expected(id)' = Expected(id)
      BY <1>0, <3>1 DEF HistoryInv, WireInv, Expected, Created
    <3>3. QED
      BY <1>2, <3>1, <3>2
  <2>4. QED
    BY <2>1, <2>2, <2>3
<1>4. HistoryTypes'
  BY <1>0, <1>1, <1>3 DEF HistoryInv, HistoryTypes
<1>5. \A id : H!BeingDeleted(id) => H!BeingDeleted(id)'
  BY <1>0 DEF H!BeingDeleted
<1>6. \A call \in calls' : call \in calls
  BY <1>0
<1>7. HistoryInv'
  BY <1>0, <1>1, <1>3, <1>4, <1>5, <1>6, ServerOnly
<1>8. QED
  BY <1>0, <1>7

LEMMA UserSafe == ASSUME HistoryInv, H!User PROVE HistoryInv' /\ Accounted
<1>1. ASSUME NEW c \in H!Convs \cup {none}, H!SelectConversation(c) PROVE HistoryInv' /\ Accounted
  BY <1>1, HistorySelectSafe DEF H!SelectConversation, Accounted
<1>2. CASE H!LoadOlderMessages
  BY <1>2, LoadOlderSafe DEF H!LoadOlderMessages, Accounted
<1>3. CASE selected \in present /\ H!MarkConversationRead(selected)
  <2>1. selected \in H!Convs
    BY <1>3 DEF HistoryInv, HistoryTypes
  <2>2. QED
    BY <1>3, <2>1, MarkReadSafe DEF H!MarkConversationRead, Accounted
<1>4. ASSUME NEW c \in H!Convs, H!RemoveConversation(c) PROVE HistoryInv' /\ Accounted
  <2>1. \A d \in H!Convs : d = c \/ shown'[d] = shown[d]
    BY <1>4 DEF H!RemoveConversation, HistoryInv, HistoryTypes
  <2>2. c \notin present'
    BY <1>4 DEF H!RemoveConversation
  <2>3. QED
    BY <1>4, <2>1, <2>2, HistoryRemoveSafe DEF Accounted
<1>5. ASSUME NEW c \in H!Convs, H!CreateDM(c) PROVE HistoryInv' /\ Accounted
  BY <1>5, CreateDMSafe DEF H!CreateDM, Accounted
<1>6. CASE H!SendMessage
  BY <1>6, SendMessageSafe DEF H!SendMessage, Accounted
<1>7. ASSUME NEW id, H!DeleteMessage(id) PROVE HistoryInv' /\ Accounted
  <2>1. PICK c : c = selected
    OBVIOUS
  <2>2. PICK call : call = H!Call("delete", c, id)
    OBVIOUS
  <2>3. /\ c \in present /\ shown' = [shown EXCEPT ![c] = H!Without(shown[c], id)] /\ calls' = calls \cup {call}
    BY <1>7, <2>1, <2>2 DEF H!DeleteMessage, H!Issue
  <2>4. call.op = "delete" /\ call.id = id
    BY <2>2 DEF H!Call
  <2>5. H!BeingDeleted(id)'
    BY <2>3, <2>4 DEF H!BeingDeleted
  <2>6. shown \in [H!Convs -> Seq(Nat)] /\ c \in H!Convs /\ Ascends(shown[c])
    BY <2>3 DEF HistoryInv, HistoryTypes, ShownInv
  <2>7. H!ToSet(H!Without(shown[c], id)) = H!ToSet(shown[c]) \ {id}
    BY <2>6, WithoutOne
  <2>8. \A d \in H!Convs : H!ToSet(shown[d]) \ H!ToSet(shown'[d]) \subseteq {id}
    BY <2>3, <2>6, <2>7
  <2>9. QED
    BY <1>7, <2>5, <2>8, MessageDeleteSafe DEF Accounted
<1>8. CASE H!HandleMessagesScroll
  BY <1>2, <1>3, <1>8 DEF H!HandleMessagesScroll
<1>9. QED
  BY <1>1, <1>4, <1>5, <1>6, <1>7, <1>8 DEF H!User

LEMMA HistoryAnsweredSafe == ASSUME HistoryInv, NEW call \in calls, H!Answered(call) PROVE HistoryInv' /\ Accounted
<1>1. call.done /\ H!Finish(call) /\ UNCHANGED <<log, sending, link, listening, drops, wire>>
  BY DEF H!Answered, H!server, H!network
<1>2. Extends => Accounted
  BY DEF Extends, Accounted
<1>3. call \in calls \ calls'
  BY <1>1 DEF H!Finish
<1>4. shown \in [H!Convs -> Seq(Nat)]
  BY DEF HistoryInv, HistoryTypes
<1>5. CASE H!LoadAnswered(call)
  <2>1. call.op = "load" /\ \A d \in H!Convs : d = call.conv \/ shown'[d] = shown[d]
    BY <1>4, <1>5 DEF H!LoadAnswered, H!Apply
  <2>2. QED
    BY <1>1, <1>3, <1>5, <2>1, LoadAnsweredSafe DEF Accounted
<1>6. CASE H!SyncAnswered(call)
  BY <1>1, <1>2, <1>6, SyncAnsweredSafe
<1>7. CASE H!OlderAnswered(call)
  BY <1>1, <1>2, <1>7, OlderAnsweredSafe
<1>8. CASE H!CreateDMAnswered(call)
  <2>1. call.op = "createDM" /\ \A d \in H!Convs : d = call.conv \/ shown'[d] = shown[d]
    BY <1>4, <1>8 DEF H!CreateDMAnswered
  <2>2. QED
    BY <1>1, <1>3, <1>8, <2>1, CreateDMAnsweredSafe DEF Accounted
<1>9. CASE H!RefreshAnswered(call) \/ H!DeleteAnswered(call)
  BY <1>1, <1>9, RefreshAnsweredSafe DEF H!RefreshAnswered, H!DeleteAnswered, Accounted
<1>10. CASE H!SendAnswered(call)
  BY <1>1, <1>2, <1>10, SendAnsweredSafe
<1>11. QED
  BY <1>5, <1>6, <1>7, <1>8, <1>9, <1>10 DEF H!Answered

LEMMA HistoryStays == ASSUME HistoryInv, UNCHANGED historyVars PROVE HistoryInv' /\ Accounted
<1>1. UNCHANGED <<log, sending, link, listening, drops, wire, calls, present, selected, shown, unread,
                  loadingOlder, hasOlder, synced, replaced, handled, missed, told, belated>>
  BY DEF historyVars
<1>2. HistoryTypes'
  BY <1>1 DEF HistoryInv, HistoryTypes, Events
<1>3. \A call \in calls' : call \in calls
  BY <1>1
<1>4. QED
  BY <1>1, <1>2, <1>3, CallsOnly DEF Accounted

LEMMA HistoryStep == ASSUME HistoryInv, [H!Next]_historyVars PROVE HistoryInv' /\ Accounted
<1>1. shown' = shown \/ Extends => Accounted
  BY DEF Extends, Accounted
<1>2. CASE H!User
  BY <1>2, UserSafe
<1>3. ASSUME NEW call \in calls, H!Serve(call) PROVE HistoryInv' /\ Accounted
  BY <1>1, <1>3, HistoryServeSafe
<1>4. ASSUME NEW call \in calls, H!Answered(call) PROVE HistoryInv' /\ Accounted
  BY <1>4, HistoryAnsweredSafe
<1>5. ASSUME NEW call \in calls, H!Failed(call) PROVE HistoryInv' /\ Accounted
  BY <1>1, <1>5, FailedSafe
<1>6. ASSUME NEW c \in H!Convs, H!OthersPost(c) PROVE HistoryInv' /\ Accounted
  BY <1>1, <1>6, OthersPostSafe DEF H!OthersPost
<1>7. ASSUME NEW id, H!OthersDelete(id) PROVE HistoryInv' /\ Accounted
  BY <1>1, <1>7, OthersDeleteSafe DEF H!OthersDelete
<1>8. CASE H!Receive
  <2>1. wire # <<>> /\ wire' = Tail(wire)
    BY <1>8 DEF H!Receive
  <2>2. CASE Head(wire).type = "message_created" /\ H!MessageCreated(Head(wire).id)
    BY <1>1, <2>1, <2>2, ReceiveCreatedSafe
  <2>3. CASE Head(wire).type = "message_deleted" /\ H!MessageDeleted(Head(wire).id)
    BY <2>1, <2>3, ReceiveDeletedSafe
  <2>4. QED
    BY <1>8, <2>2, <2>3 DEF H!Receive
<1>9. CASE H!Open
  BY <1>1, <1>9, OpenSafe DEF H!Open
<1>10. CASE H!Drop
  BY <1>1, <1>10, DropSafe DEF H!Drop
<1>11. CASE UNCHANGED historyVars
  BY <1>11, HistoryStays
<1>12. CASE \/ \E ev \in sending, again \in BOOLEAN : H!Broadcast(ev, again)
            \/ \E ev \in sending : H!Lose(ev)
            \/ \E c \in H!Convs : H!Subscribe(c)
  BY <1>1, <1>12, NetworkSafe
<1>13. QED
  BY <1>2, <1>3, <1>4, <1>5, <1>6, <1>7, <1>8, <1>9, <1>10, <1>11, <1>12 DEF H!Next
-----------------------------------------------------------------------------
(* Histories by themselves, free of MCClient's foci.                        *)

\* ChatHistory: whatever answers, events and rollbacks interleave, a history
\* is in order, what a resync did not fetch is announced to the connection or
\* was not broadcast to it, and an unread counter is at most the number of
\* messages that are unseen while no message was created anew.
THEOREM HistoriesAgree == H!Spec => [](H!TypeOK /\ H!HistoryInOrder /\ H!ResyncComplete /\ H!UnreadIsUnseen)
<1>1. [H!Next]_(H!vars) => [H!Next]_historyVars
  BY DEF H!vars, historyVars
<1>2. HistoryInv /\ [H!Next]_(H!vars) => HistoryInv'
  BY <1>1, HistoryStep
<1>3. QED
  BY <1>2, HistoryInit, HistorySafe, PTL DEF H!Spec

\* ChatHistory: a message disappears only when it is deleted, when its
\* conversation leaves the list, or when the history is replaced.
THEOREM HistoriesKeep == H!Spec => H!KeepsShown
<1>1. [H!Next]_(H!vars) => [H!Next]_historyVars
  BY DEF H!vars, historyVars
<1>2. HistoryInv /\ [H!Next]_(H!vars) => HistoryInv'
  BY <1>1, HistoryStep
<1>3. HistoryInv /\ [H!Next]_(H!vars) =>
        [\A c \in H!Convs : \A id \in H!ToSet(shown[c]) \ H!ToSet(shown'[c]) :
           \/ H!BeingDeleted(id)'
           \/ ~log[id].live /\ wire # <<>> /\ Head(wire).id = id
           \/ \E call \in calls \ calls' : call.op \in {"load", "createDM"} /\ call.conv = c
           \/ c \notin present']_(H!vars)
  BY <1>1, HistoryStep DEF Accounted
<1>4. QED
  BY <1>2, <1>3, HistoryInit, PTL DEF H!Spec, H!KeepsShown
=============================================================================
