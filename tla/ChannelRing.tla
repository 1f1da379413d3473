----------------------------- MODULE ChannelRing -----------------------------
(***************************************************************************)
(* The channel service: which node owns a channel (services/channel/       *)
(* internal/hashring/ring.go, internal/server/server.go).  JoinRing and    *)
(* LeaveRing change the addresses and the ring under the lock of the       *)
(* server; GetOwner asks the ring, under the ring's own lock, and then the *)
(* addresses.  A hash is a place of a small circle.                        *)
(***************************************************************************)
EXTENDS Naturals, FiniteSets, Sequences, SequencesExt

CONSTANTS
  Nodes,          \* numbers, which compare as the names do
  Calls,          \* GetOwner calls, which bound them
  Addresses,      \* places a node may say it is at
  Circle,         \* 2^64 in the code
  VirtualNodes,   \* points of a node on the circle
  MaxChanges      \* bound: joins and leaves

RingAssumption ==
  Nodes \subseteq Nat /\ Circle \in Nat \ {0} /\ VirtualNodes \in Nat \ {0} /\ MaxChanges \in Nat

VARIABLES
  hash,       \* the hashes of the points of each node
  nodes,      \* the nodes on the ring
  points,     \* its points, sorted
  addresses,  \* the address of each node, or ""
  writer,     \* the call that holds the lock of the server, half way
  calls,      \* GetOwner calls
  changes,    \* bound: joins and leaves
  left        \* history: nodes that left during a call

ring == <<nodes, points>>
vars == <<hash, ring, addresses, writer, calls, changes, left>>

Keys == 0..(Circle - 1)
Free == [op |-> "none", node |-> {}]
Fresh == [step |-> "fresh", key |-> 0, node |-> {}, answer |-> ""]

Init ==
  /\ hash \in [Nodes -> [1..VirtualNodes -> Keys]]
  /\ nodes = {} /\ points = <<>> /\ addresses = [n \in Nodes |-> ""] /\ writer = Free
  /\ calls = [c \in Calls |-> Fresh] /\ changes = 0 /\ left = [c \in Calls |-> {}]

Before(p, q) == p.hash < q.hash \/ (p.hash = q.hash /\ p.node < q.node)

\* sort.Slice is not stable, but points that compare equal are equal.
AddNode(n) ==
  /\ nodes' = nodes \cup {n}
  /\ points' = IF n \in nodes THEN points
               ELSE SortSeq(points \o [i \in 1..VirtualNodes |-> [hash |-> hash[n][i], node |-> n]], Before)

RemoveNode(n) ==
  /\ nodes' = nodes \ {n} /\ points' = SelectSeq(points, LAMBDA p: p.node # n)

\* sort.Search: the first point from the key on, or the first of all.
Owner(key) ==
  LET after == SelectSeq(points, LAMBDA p: p.hash >= key)
  IN  IF after # <<>> THEN after[1].node ELSE points[1].node

-----------------------------------------------------------------------------
(* JoinRing and LeaveRing, one at a time, in two steps each. *)

Lock(op, n) ==
  /\ writer = Free /\ changes < MaxChanges /\ changes' = changes + 1
  /\ writer' = [op |-> op, node |-> {n}]

JoinAddress(n) ==
  /\ Lock("join", n)
  /\ \E a \in Addresses: addresses' = [addresses EXCEPT ![n] = a]
  /\ UNCHANGED <<hash, ring, calls, left>>

JoinRing ==
  /\ writer.op = "join" /\ writer' = Free
  /\ \E n \in writer.node: AddNode(n)
  /\ UNCHANGED <<hash, addresses, calls, changes, left>>

LeaveRing(n) ==
  /\ Lock("leave", n) /\ RemoveNode(n)
  /\ left' = [c \in Calls |-> IF calls[c].step = "asked" THEN left[c] \cup {n} ELSE left[c]]
  /\ UNCHANGED <<hash, addresses, calls>>

LeaveAddress ==
  /\ writer.op = "leave" /\ writer' = Free
  /\ addresses' = [n \in Nodes |-> IF n \in writer.node THEN "" ELSE addresses[n]]
  /\ UNCHANGED <<hash, ring, calls, changes, left>>

-----------------------------------------------------------------------------
(* GetOwner *)

\* Under the read lock of the ring, whatever a writer of the server is at.
AskRing(c) ==
  /\ calls[c].step = "fresh"
  /\ \E key \in Keys:
       calls' = [calls EXCEPT ![c] =
         IF points = <<>> THEN [step |-> "done", key |-> key, node |-> {}, answer |-> "empty"]
         ELSE [step |-> "asked", key |-> key, node |-> {Owner(key)}, answer |-> ""]]
  /\ UNCHANGED <<hash, ring, addresses, writer, changes, left>>

\* Under the read lock of the server: no writer is half way.
AskAddress(c) ==
  /\ calls[c].step = "asked" /\ writer = Free
  /\ \E n \in calls[c].node:
       calls' = [calls EXCEPT ![c].step = "done",
                              ![c].answer = IF addresses[n] = "" THEN "unavailable" ELSE addresses[n]]
  /\ UNCHANGED <<hash, ring, addresses, writer, changes, left>>

Next ==
  \/ \E n \in Nodes: JoinAddress(n) \/ LeaveRing(n)
  \/ JoinRing \/ LeaveAddress
  \/ \E c \in Calls: AskRing(c) \/ AskAddress(c)

Spec == Init /\ [][Next]_vars

-----------------------------------------------------------------------------
(* Properties *)

TypeOK ==
  /\ nodes \subseteq Nodes /\ addresses \in [Nodes -> Addresses \cup {""}]
  /\ \A i \in DOMAIN points: points[i].hash \in Keys /\ points[i].node \in nodes

\* The node whose point is the next on the circle, by the nodes alone.
Distance(key, n, i) == (hash[n][i] + Circle - key) % Circle
Nearest(key) ==
  CHOOSE n \in nodes: \E i \in 1..VirtualNodes: \A m \in nodes, j \in 1..VirtualNodes:
    \/ Distance(key, n, i) < Distance(key, m, j)
    \/ Distance(key, n, i) = Distance(key, m, j) /\ n <= m

\* The owner of a channel follows from the nodes on the ring and from nothing
\* else: neither the order they came in, nor joins repeated, nor who left; so a
\* node that joins or leaves moves only its own channels (ring.go).
OwnerFollows == nodes # {} => \A key \in Keys: points # <<>> /\ Owner(key) = Nearest(key)

\* The nodes on the ring are those with an address, and GetOwner, which takes
\* two locks one after the other, finds its node without one only when the node
\* left in between.
AddressesFollow ==
  /\ writer = Free => nodes = {n \in Nodes: addresses[n] # ""}
  /\ \A c \in Calls: calls[c].answer = "unavailable" => calls[c].node \subseteq left[c]

RingAgrees == OwnerFollows /\ AddressesFollow
=============================================================================
