-------------------------- MODULE ChainProofs ------------------------------
(***************************************************************************)
(* Lemmas about the operators of Chain: the block tree, the tables, the    *)
(* safety records and the request queues.                                  *)
(***************************************************************************)
EXTENDS PreparedCommit, Chain, TLAPS

-----------------------------------------------------------------------------
(* The block tree.                                                         *)

\* A block is a sequence of headers; which headers there are does not matter.
IsBlock(b) == \E S : b \in Seq(S)

\* The ancestors of a block: one of every number up to its own.
LEMMA Ancestor ==
    ASSUME NEW b, IsBlock(b), NEW n \in 0..Number(b)
    PROVE  /\ IsBlock(AtNumber(b, n)) /\ Number(AtNumber(b, n)) = n
           /\ AtNumber(b, n) \in Chain(b)
           /\ \A i \in 1..n : AtNumber(b, n)[i] = b[i]
           /\ \A k \in 0..n : AtNumber(AtNumber(b, n), k) = AtNumber(b, k)
<1>1. PICK S : b \in Seq(S)
  BY DEF IsBlock
<1>2. AtNumber(b, n) \in Seq(S) /\ Len(AtNumber(b, n)) = n /\ \A i \in 1..n : AtNumber(b, n)[i] = b[i]
  BY <1>1 DEF AtNumber, Number
<1>3. \A k \in 0..n : AtNumber(AtNumber(b, n), k) = AtNumber(b, k)
  BY <1>1, <1>2 DEF AtNumber, Number
<1> QED
  BY <1>1, <1>2, <1>3 DEF IsBlock, Number, Chain

\* A block of b's chain is the ancestor of b at its own number.
LEMMA InChain ==
    ASSUME NEW b, IsBlock(b), NEW a \in Chain(b)
    PROVE  IsBlock(a) /\ Number(a) \in 0..Number(b) /\ a = AtNumber(b, Number(a))
  BY Ancestor DEF Chain

\* A block is its own ancestor, and its chain starts at the genesis.
LEMMA BlockFacts ==
    ASSUME NEW b, IsBlock(b)
    PROVE  /\ Number(b) \in Nat /\ AtNumber(b, Number(b)) = b /\ b \in Chain(b)
           /\ AtNumber(b, 0) = Genesis /\ Genesis \in Chain(b) /\ IsBlock(Genesis)
           /\ Number(b) = 0 => b = Genesis
<1>1. PICK S : b \in Seq(S)
  BY DEF IsBlock
<1>2. Number(b) \in Nat
  BY <1>1 DEF Number
<1>3. AtNumber(b, Number(b)) = b
  BY <1>1 DEF AtNumber, Number
<1>4. AtNumber(b, 0) = Genesis
  BY <1>1 DEF AtNumber, Genesis
<1> QED
  BY <1>2, <1>3, <1>4, Ancestor

\* The chain of an ancestor is the initial part of the chain.
LEMMA ChainOf ==
    ASSUME NEW b, IsBlock(b), NEW n \in 0..Number(b)
    PROVE  /\ Chain(AtNumber(b, n)) = {AtNumber(b, k) : k \in 0..n}
           /\ Chain(AtNumber(b, n)) \subseteq Chain(b)
<1>1. Number(b) \in Nat
  BY BlockFacts
<1>2. Number(AtNumber(b, n)) = n /\ \A k \in 0..n : AtNumber(AtNumber(b, n), k) = AtNumber(b, k)
  BY Ancestor
<1>3. Chain(AtNumber(b, n)) = {AtNumber(b, k) : k \in 0..n}
  BY <1>2 DEF Chain
<1>4. 0..n \subseteq 0..Number(b)
  BY <1>1
<1> QED
  BY <1>3, <1>4 DEF Chain

\* A block on top of a parent.
ChildOf(b, parent, header) == b = Append(parent, header)

\* A block built on a parent adds one block to the parent's chain and changes none of it.
LEMMA Child ==
    ASSUME NEW parent, IsBlock(parent), NEW header, NEW b, ChildOf(b, parent, header)
    PROVE  /\ IsBlock(b) /\ Number(b) = Number(parent) + 1 /\ b # Genesis
           /\ Parent(b) = parent /\ LastHeader(b) = header
           /\ \A n \in 0..Number(parent) : AtNumber(b, n) = AtNumber(parent, n)
           /\ \A i \in 1..Number(parent) : b[i] = parent[i]
           /\ Chain(b) = Chain(parent) \cup {b} /\ b \notin Chain(parent)
<1>1. PICK S : parent \in Seq(S)
  BY DEF IsBlock
<1>2. parent \in Seq(S \cup {header}) /\ header \in S \cup {header}
  BY <1>1
<1>3. b \in Seq(S \cup {header}) /\ Len(b) = Len(parent) + 1 /\ b[Len(b)] = header
  BY <1>2 DEF ChildOf
<1>4. \A i \in 1..Len(parent) : b[i] = parent[i]
  BY <1>2 DEF ChildOf
<1>5. \A n \in 0..Len(parent) : AtNumber(b, n) = AtNumber(parent, n)
  BY <1>2, <1>3, <1>4 DEF AtNumber
<1>6. Parent(b) = parent
  <2>1. Parent(b) = AtNumber(b, Len(parent))
    BY <1>1, <1>3 DEF Parent, AtNumber
  <2> QED
    BY <2>1, <1>1, <1>5, BlockFacts DEF Number
<1>7. Chain(b) = Chain(parent) \cup {b}
  <2>1. Number(b) = Number(parent) + 1 /\ Number(parent) \in Nat
    BY <1>1, <1>3 DEF Number
  <2>2. AtNumber(b, Number(b)) = b
    BY <1>3, BlockFacts DEF IsBlock
  <2>3. 0..Number(b) = 0..Number(parent) \cup {Number(b)}
    BY <2>1
  <2> QED
    BY <1>5, <2>2, <2>3 DEF Chain, Number
<1>8. b \notin Chain(parent)
  <2>1. Number(parent) \in Nat /\ Number(b) = Number(parent) + 1
    BY <1>1, <1>3 DEF Number
  <2> QED
    BY <2>1, InChain
<1> QED
  BY <1>1, <1>3, <1>4, <1>5, <1>6, <1>7, <1>8 DEF IsBlock, Number, Genesis, LastHeader

\* Every block but the genesis has its parent in its chain.
LEMMA ParentIs ==
    ASSUME NEW b, IsBlock(b), b # Genesis
    PROVE  Parent(b) \in Chain(b) /\ Number(Parent(b)) = Number(b) - 1
<1>1. Number(b) \in Nat \ {0}
  BY BlockFacts
<1>2. Parent(b) = AtNumber(b, Number(b) - 1) /\ Number(b) - 1 \in 0..Number(b)
  BY <1>1 DEF Parent, AtNumber, Number
<1> QED
  BY <1>2, Ancestor

\* The slots of a chain increase, and genesis has slot 0.
SlotsAscend(b) ==
    \A i \in 1..Number(b) :
        b[i].slot \in Nat \ {0} /\ \A j \in 1..(i - 1) : b[j].slot < b[i].slot

\* Some of its blocks have a highest one among them.
HasHighest(b) ==
    \A T \in SUBSET Chain(b) : T # {} => \E a \in T : \A c \in T : Number(c) <= Number(a)

GoodBlock(b) == IsBlock(b) /\ SlotsAscend(b) /\ HasHighest(b)

\* The slot of an ancestor is the one its header gives.
LEMMA SlotOfAncestor ==
    ASSUME NEW b, GoodBlock(b), NEW n \in 0..Number(b)
    PROVE  SlotOf(AtNumber(b, n)) = IF n = 0 THEN 0 ELSE b[n].slot
<1>1. IsBlock(b) /\ Number(AtNumber(b, n)) = n /\ n \in Nat /\ \A i \in 1..n : AtNumber(b, n)[i] = b[i]
  BY Ancestor, BlockFacts DEF GoodBlock
<1>2. CASE n = 0
  BY <1>1, <1>2, BlockFacts DEF SlotOf
<1>3. CASE n # 0
  <2>1. AtNumber(b, n) # Genesis
    BY <1>1, <1>3 DEF Number, Genesis
  <2>2. LastHeader(AtNumber(b, n)) = b[n]
    BY <1>1, <1>3 DEF LastHeader, Number
  <2> QED
    BY <2>1, <2>2, <1>3 DEF SlotOf
<1> QED
  BY <1>2, <1>3

\* The ancestors of a good block are good: slots ascend on every part of the chain.
LEMMA AncestorGood ==
    ASSUME NEW b, GoodBlock(b), NEW a \in Chain(b)
    PROVE  GoodBlock(a)
<1> DEFINE n == Number(a)
<1>1. IsBlock(b) /\ IsBlock(a) /\ n \in 0..Number(b) /\ a = AtNumber(b, n) /\ Number(b) \in Nat
  BY InChain, BlockFacts DEF GoodBlock
<1>2. \A i \in 1..n : a[i] = b[i] /\ i \in 1..Number(b)
  BY <1>1, Ancestor
<1>3. \A i \in 1..n : \A j \in 1..(i - 1) : a[j] = b[j]
  BY <1>1, <1>2
<1>4. SlotsAscend(a)
  BY <1>1, <1>2, <1>3 DEF GoodBlock, SlotsAscend
<1>5. Chain(a) \subseteq Chain(b)
  BY <1>1, ChainOf
<1>6. HasHighest(a)
  BY <1>5 DEF GoodBlock, HasHighest
<1> QED
  BY <1>1, <1>4, <1>6 DEF GoodBlock

\* A good block has a slot.
LEMMA SlotOfGood ==
    ASSUME NEW b, GoodBlock(b)
    PROVE  SlotOf(b) \in Nat
<1>1. Number(b) \in Nat /\ AtNumber(b, Number(b)) = b
  BY BlockFacts DEF GoodBlock
<1>2. SlotOf(b) = IF Number(b) = 0 THEN 0 ELSE b[Number(b)].slot
  BY <1>1, SlotOfAncestor
<1>3. Number(b) # 0 => b[Number(b)].slot \in Nat
  BY <1>1 DEF GoodBlock, SlotsAscend
<1> QED
  BY <1>2, <1>3

\* On one chain the block of the higher number has the higher slot.
LEMMA SlotsIncrease ==
    ASSUME NEW b, GoodBlock(b), NEW a \in Chain(b), NEW c \in Chain(b), Number(a) < Number(c)
    PROVE  SlotOf(a) \in Nat /\ SlotOf(c) \in Nat /\ SlotOf(a) < SlotOf(c)
<1>1. /\ Number(b) \in Nat /\ Number(a) \in 0..Number(b) /\ Number(c) \in 0..Number(b)
      /\ a = AtNumber(b, Number(a)) /\ c = AtNumber(b, Number(c))
  BY InChain, BlockFacts DEF GoodBlock
<1>2. SlotOf(a) = IF Number(a) = 0 THEN 0 ELSE b[Number(a)].slot
  BY <1>1, SlotOfAncestor
<1>3. SlotOf(c) = b[Number(c)].slot
  BY <1>1, SlotOfAncestor
<1>4. b[Number(c)].slot \in Nat \ {0} /\ \A j \in 1..(Number(c) - 1) : b[j].slot < b[Number(c)].slot
  BY <1>1 DEF GoodBlock, SlotsAscend
<1>5. Number(a) # 0 => b[Number(a)].slot \in Nat
  BY <1>1 DEF GoodBlock, SlotsAscend
<1> QED
  BY <1>1, <1>2, <1>3, <1>4, <1>5

\* Of two blocks of a chain, the one of the lower number is an ancestor.
LEMMA Comparable ==
    ASSUME NEW b, IsBlock(b), NEW a \in Chain(b), NEW c \in Chain(b), Number(a) <= Number(c)
    PROVE  a \in Chain(c)
<1>1. /\ Number(b) \in Nat /\ Number(a) \in 0..Number(b) /\ Number(c) \in 0..Number(b)
      /\ a = AtNumber(b, Number(a)) /\ c = AtNumber(b, Number(c))
  BY InChain, BlockFacts
<1>2. Chain(c) = {AtNumber(b, k) : k \in 0..Number(c)}
  BY <1>1, ChainOf
<1>3. Number(a) \in 0..Number(c)
  BY <1>1
<1> QED
  BY <1>1, <1>2, <1>3

\* A block built in a slot after its parent's is good, and has that slot.
LEMMA ChildGood ==
    ASSUME NEW parent, GoodBlock(parent), NEW header, header.slot \in Nat, SlotOf(parent) < header.slot,
           NEW b, ChildOf(b, parent, header)
    PROVE  GoodBlock(b) /\ SlotOf(b) = header.slot
<1>1. /\ IsBlock(b) /\ Number(b) = Number(parent) + 1 /\ b # Genesis /\ LastHeader(b) = header
      /\ \A i \in 1..Number(parent) : b[i] = parent[i]
      /\ Number(parent) \in Nat /\ IsBlock(parent)
  <2>1. IsBlock(parent)
    BY DEF GoodBlock
  <2>2. Number(parent) \in Nat
    BY <2>1, BlockFacts
  <2> QED
    BY <2>1, <2>2, Child
<1>2. b[Number(b)] = header
  BY <1>1 DEF LastHeader, Number
<1>3. SlotOf(parent) \in Nat /\ \A i \in 1..Number(parent) : parent[i].slot <= SlotOf(parent)
  <2>1. SlotOf(parent) = IF Number(parent) = 0 THEN 0 ELSE parent[Number(parent)].slot
    BY <1>1, SlotOfAncestor, BlockFacts
  <2>2. CASE Number(parent) = 0
    BY <2>1, <2>2
  <2>3. CASE Number(parent) # 0
    <3>1. Number(parent) \in 1..Number(parent)
      BY <1>1, <2>3
    <3>2. parent[Number(parent)].slot \in Nat
      BY <3>1 DEF GoodBlock, SlotsAscend
    <3>3. \A i \in 1..(Number(parent) - 1) : parent[i].slot < parent[Number(parent)].slot
      BY <3>1 DEF GoodBlock, SlotsAscend
    <3>4. \A i \in 1..(Number(parent) - 1) : parent[i].slot \in Nat
      BY <1>1 DEF GoodBlock, SlotsAscend
    <3> QED
      BY <2>1, <2>3, <3>2, <3>3, <3>4, <1>1
  <2> QED
    BY <2>2, <2>3
<1>4. \A i \in 1..Number(parent) : b[i].slot \in Nat \ {0} /\ b[i].slot < header.slot
  BY <1>1, <1>3 DEF GoodBlock, SlotsAscend
<1>5. \A i \in 1..Number(parent) : \A j \in 1..(i - 1) : b[j].slot < b[i].slot
  <2>1. \A i \in 1..Number(parent) : \A j \in 1..(i - 1) : b[j] = parent[j] /\ b[i] = parent[i]
    BY <1>1
  <2> QED
    BY <2>1 DEF GoodBlock, SlotsAscend
<1>6. SlotsAscend(b)
  <2> SUFFICES ASSUME NEW i \in 1..Number(b)
               PROVE  b[i].slot \in Nat \ {0} /\ \A j \in 1..(i - 1) : b[j].slot < b[i].slot
    BY DEF SlotsAscend
  <2>1. CASE i \in 1..Number(parent)
    BY <2>1, <1>4, <1>5
  <2>2. CASE i = Number(b)
    <3>1. i - 1 = Number(parent) /\ b[i] = header
      BY <2>2, <1>1, <1>2
    <3>2. header.slot # 0
      BY <1>3
    <3> QED
      BY <3>1, <3>2, <1>4
  <2> QED
    BY <2>1, <2>2, <1>1
<1>7. HasHighest(b)
  <2>1. Chain(b) = Chain(parent) \cup {b} /\ b \in Chain(b)
    BY <1>1, Child
  <2>2. \A c \in Chain(b) : Number(c) <= Number(b)
    BY <1>1, InChain, BlockFacts
  <2>3. HasHighest(parent)
    BY DEF GoodBlock
  <2> QED
    BY Zenon, <2>1, <2>2, <2>3 DEF HasHighest
<1> QED
  BY <1>1, <1>6, <1>7 DEF GoodBlock, SlotOf

-----------------------------------------------------------------------------
(* The common ancestor and the events of a switch.                         *)

\* Two blocks have a highest block on both chains.
Meet(a, b) == \E c \in Chain(a) \cap Chain(b) : \A d \in Chain(a) \cap Chain(b) : Number(d) <= Number(c)

\* Two good blocks have a highest common ancestor, the one commonAncestor finds.
LEMMA GoodMeet ==
    ASSUME NEW a, GoodBlock(a), NEW b, GoodBlock(b)
    PROVE  Meet(a, b)
<1>1. Genesis \in Chain(a) \cap Chain(b) /\ Chain(a) \cap Chain(b) \in SUBSET Chain(a)
  BY BlockFacts DEF GoodBlock
<1> QED
  BY Zenon, <1>1 DEF GoodBlock, HasHighest, Meet

\* divergentPaths: the common ancestor is the highest block of the one chain
\* that is on the other.
LEMMA CommonAncestorIs ==
    ASSUME NEW a, IsBlock(a), NEW b, IsBlock(b), Meet(a, b)
    PROVE  /\ Number(CommonAncestor(a, b)) \in 0..Number(a)
           /\ CommonAncestor(a, b) = AtNumber(a, Number(CommonAncestor(a, b)))
           /\ \A n \in 0..Number(a) :
                 AtNumber(a, n) \in Chain(b) <=> n <= Number(CommonAncestor(a, b))
<1> DEFINE S == Chain(a) \cap Chain(b)
           Highest(c) == \A d \in S : Number(d) <= Number(c)
<1>1. PICK c \in S : Highest(c)
  BY DEF Meet
<1>2. /\ Number(c) \in 0..Number(a) /\ c = AtNumber(a, Number(c))
      /\ Number(c) \in 0..Number(b) /\ c = AtNumber(b, Number(c))
      /\ \A d \in S : Number(d) \in 0..Number(a) /\ d = AtNumber(a, Number(d))
  BY InChain
<1>3. Chain(c) \subseteq Chain(b) /\ Chain(c) = {AtNumber(a, k) : k \in 0..Number(c)}
  BY <1>2, ChainOf
<1>4. Number(a) \in Nat /\ \A n \in 0..Number(a) : Number(AtNumber(a, n)) = n /\ AtNumber(a, n) \in Chain(a)
  BY BlockFacts, Ancestor
<1>5. \A n \in 0..Number(a) : AtNumber(a, n) \in Chain(b) <=> n <= Number(c)
  BY <1>1, <1>2, <1>3, <1>4
<1>6. ASSUME NEW d \in S, Highest(d)
      PROVE  d = c
  <2>1. Number(d) = Number(c)
    BY <1>1, <1>2, <1>4, <1>6
  <2> QED
    BY <1>2, <2>1
<1>7. CommonAncestor(a, b) = c
  <2>1. CommonAncestor(a, b) = CHOOSE d \in S : Highest(d)
    BY DEF CommonAncestor
  <2> HIDE DEF S, Highest
  <2> QED
    BY <1>1, <1>6, <2>1
<1> QED
  BY <1>2, <1>5, <1>7

\* switchCanonical announces a walk from the old head to the target.
LEMMA SwitchFollowed ==
    ASSUME NEW old, IsBlock(old), NEW target, IsBlock(target), Meet(old, target)
    PROVE  Follow({old}, SwitchEvents(old, target)) = {target}
<1> DEFINE n == Number(CommonAncestor(old, target))
           r == Number(old) - n
           L == r + Number(target) - n
           E == SwitchEvents(old, target)
           at == [i \in 0..L |->
                    IF i <= r THEN AtNumber(old, Number(old) - i) ELSE AtNumber(target, n + i - r)]
<1>1. /\ n \in 0..Number(old) /\ n \in 0..Number(target) /\ AtNumber(old, n) = AtNumber(target, n)
      /\ \E S : E \in Seq(S)
      /\ Len(E) = L /\ \A i \in 1..L : E[i] = <<at[i - 1], at[i]>>
  <2> DEFINE s == Number(target) - n
             C == Chain(old) \cup Chain(target)
             D == C \X C
             R == [i \in 1..r |-> Removed(AtNumber(old, Number(old) - i + 1))]
             A == [i \in 1..s |-> Added(AtNumber(target, n + i))]
  <2>1. n \in 0..Number(old) /\ AtNumber(old, n) \in Chain(target) /\ Number(AtNumber(old, n)) = n
    BY CommonAncestorIs, Ancestor, BlockFacts
  <2>2. n \in 0..Number(target) /\ AtNumber(old, n) = AtNumber(target, n)
    BY <2>1, InChain
  <2>3. Number(old) \in Nat /\ Number(target) \in Nat /\ n \in Nat /\ r \in Nat /\ s \in Nat
    BY <2>1, <2>2, BlockFacts
  <2>4. ASSUME NEW b, IsBlock(b), NEW k \in 1..Number(b)
        PROVE  /\ Parent(AtNumber(b, k)) = AtNumber(b, k - 1)
               /\ AtNumber(b, k) \in Chain(b) /\ AtNumber(b, k - 1) \in Chain(b)
    <3>1. Number(b) \in Nat
      BY <2>4, BlockFacts
    <3>2. k \in 0..Number(b) /\ k - 1 \in 0..Number(b) /\ k - 1 \in 0..k
      BY <3>1
    <3>3. /\ Number(AtNumber(b, k)) = k /\ AtNumber(AtNumber(b, k), k - 1) = AtNumber(b, k - 1)
          /\ AtNumber(b, k) \in Chain(b) /\ AtNumber(b, k - 1) \in Chain(b)
      BY <2>4, <3>2, Ancestor
    <3>4. Parent(AtNumber(b, k)) = AtNumber(AtNumber(b, k), k - 1)
      BY <3>3 DEF Parent, AtNumber, Number
    <3> QED
      BY <3>3, <3>4
  <2>5. \A i \in 1..r : R[i] = <<AtNumber(old, Number(old) - i + 1), AtNumber(old, Number(old) - i)>> /\ R[i] \in D
    <3> SUFFICES ASSUME NEW i \in 1..r
                 PROVE  R[i] = <<AtNumber(old, Number(old) - i + 1), AtNumber(old, Number(old) - i)>> /\ R[i] \in D
      OBVIOUS
    <3> DEFINE k == Number(old) - i + 1
               x == AtNumber(old, k)
    <3>1. k \in 1..Number(old) /\ k - 1 = Number(old) - i
      BY <2>3
    <3>2. Parent(x) = AtNumber(old, Number(old) - i) /\ x \in Chain(old) /\ AtNumber(old, Number(old) - i) \in Chain(old)
      <4> HIDE DEF k
      <4>1. Parent(x) = AtNumber(old, k - 1) /\ x \in Chain(old) /\ AtNumber(old, k - 1) \in Chain(old)
        BY <3>1, <2>4
      <4> QED
        BY <4>1, <3>1
    <3>3. R[i] = <<x, Parent(x)>>
      BY DEF Removed
    <3> QED
      BY <3>2, <3>3
  <2>6. \A i \in 1..s : A[i] = <<AtNumber(target, n + i - 1), AtNumber(target, n + i)>> /\ A[i] \in D
    <3> SUFFICES ASSUME NEW i \in 1..s
                 PROVE  A[i] = <<AtNumber(target, n + i - 1), AtNumber(target, n + i)>> /\ A[i] \in D
      OBVIOUS
    <3> DEFINE k == n + i
               x == AtNumber(target, k)
    <3>1. k \in 1..Number(target) /\ k - 1 = n + i - 1
      BY <2>3
    <3>2. Parent(x) = AtNumber(target, k - 1) /\ x \in Chain(target) /\ AtNumber(target, k - 1) \in Chain(target)
      <4> HIDE DEF k
      <4> QED
        BY <3>1, <2>4
    <3>3. A[i] = <<Parent(x), x>>
      BY DEF Added
    <3>4. <<Parent(x), x>> = <<AtNumber(target, n + i - 1), AtNumber(target, n + i)>> /\ <<Parent(x), x>> \in D
      BY <3>1, <3>2
    <3> HIDE DEF A, D, C, n, s, k
    <3> QED
      BY <3>3, <3>4
  <2>7. R \in Seq(D) /\ A \in Seq(D) /\ Len(R) = r /\ Len(A) = s
    <3>1. R \in [1..r -> D] /\ A \in [1..s -> D]
      BY <2>5, <2>6
    <3> HIDE DEF R, A, D, C, n, r, s
    <3> QED
      BY <3>1, <2>3
  <2>8. SwitchEvents(old, target) = R \o A
    BY DEF SwitchEvents
  <2>9. R \o A \in Seq(D) /\ Len(R \o A) = r + s /\ \A i \in 1..(r + s) : (R \o A)[i] = IF i <= r THEN R[i] ELSE A[i - r]
    <3> HIDE DEF R, A, D, C, n, r, s
    <3> QED
      BY SMTT(30), <2>3, <2>7
  <2>10. ASSUME NEW i \in 1..(r + s)
         PROVE  (R \o A)[i] = <<at[i - 1], at[i]>>
    <3>1. i \in 0..(r + s) /\ i - 1 \in 0..(r + s)
      BY <2>3
    <3>2. CASE i <= r
      <4>1. i \in 1..r /\ i - 1 <= r /\ Number(old) - (i - 1) = Number(old) - i + 1
        BY <2>3, <3>2
      <4>2. R[i] = <<AtNumber(old, Number(old) - i + 1), AtNumber(old, Number(old) - i)>>
        BY <4>1, <2>5
      <4>3. at[i] = AtNumber(old, Number(old) - i) /\ at[i - 1] = AtNumber(old, Number(old) - i + 1)
        BY Zenon, <3>1, <3>2, <4>1
      <4> HIDE DEF R, A, D, C, n, r, s, at
      <4> QED
        BY <3>2, <4>2, <4>3, <2>9
    <3>3. CASE ~(i <= r)
      <4>1. i - r \in 1..s /\ n + (i - r) = n + i - r /\ n + (i - r) - 1 = n + (i - 1) - r
        BY <2>3, <3>3
      <4>2. A[i - r] = <<AtNumber(target, n + (i - r) - 1), AtNumber(target, n + (i - r))>>
        BY <4>1, <2>6
      <4>3. at[i] = AtNumber(target, n + i - r)
        BY <3>1, <3>3
      <4>4. at[i - 1] = AtNumber(target, n + (i - 1) - r)
        <5>1. CASE i - 1 <= r
          <6>1. i - 1 = r /\ Number(old) - (i - 1) = n /\ n + (i - 1) - r = n
            BY <2>3, <3>3, <5>1
          <6> QED
            BY <6>1, <3>1, <2>2
        <5>2. CASE ~(i - 1 <= r)
          BY <5>2, <3>1
        <5> QED
          BY <5>1, <5>2
      <4> HIDE DEF R, A, D, C, n, r, s, at
      <4> QED
        BY Zenon, <3>3, <4>1, <4>2, <4>3, <4>4, <2>9
    <3> QED
      BY Zenon, <3>2, <3>3
  <2>11. r + s = L
    BY Zenon, <2>3
  <2> QED
    BY Zenon, <2>1, <2>2, <2>8, <2>9, <2>10, <2>11
<1>2. Number(old) \in Nat /\ Number(target) \in Nat /\ n \in Nat /\ r \in Nat /\ L \in Nat /\ n <= Number(target)
  BY <1>1, BlockFacts
<1>3. at[0] = old
  BY <1>2, BlockFacts
<1>4. at[L] = target
  <2>1. CASE L <= r
    <3>1. Number(target) = n /\ Number(old) - L = n
      <4>1. L = Number(old) - n + Number(target) - n
        OBVIOUS
      <4>2. Number(target) <= n
        BY <1>2, <2>1, <4>1
      <4>3. Number(target) = n
        BY <1>2, <4>2
      <4> HIDE DEF n
      <4> QED
        BY <1>2, <4>1, <4>3
    <3> QED
      BY <3>1, <1>1, <1>2, <2>1, BlockFacts
  <2>2. CASE ~(L <= r)
    <3>1. n + L - r = Number(target)
      BY <1>2
    <3> QED
      BY <3>1, <1>2, <2>2, BlockFacts
  <2> QED
    BY Zenon, <2>1, <2>2
<1> HIDE DEF at, L, r, n
<1>5. CASE L = 0
  <2>1. E = <<>>
    <3> HIDE DEF E
    <3> QED
      BY <1>1, <1>5
  <2> QED
    BY <2>1, <1>3, <1>4, <1>5 DEF Follow
<1>6. CASE L # 0
  <2>1. E # <<>>
    BY <1>1, <1>2, <1>6
  <2>2. 1 \in 1..L /\ L \in 1..L /\ \A i \in 2..L : i \in 1..L /\ i - 1 \in 1..L
    BY <1>2, <1>6
  <2>3. E[1][1] = old /\ E[L][2] = target
    BY <1>1, <1>3, <1>4, <2>2
  <2>4. \A i \in 2..L : E[i][1] = E[i - 1][2]
    BY <1>1, <2>2
  <2> QED
    BY <2>1, <2>3, <2>4, <1>1 DEF Follow
<1> QED
  BY <1>5, <1>6

\* A follower at the parent that applies one added event is at the child.
LEMMA ChildFollowed ==
    ASSUME NEW b, NEW parent, Parent(b) = parent
    PROVE  Follow({parent}, <<Added(b)>>) = {b}
  BY DEF Follow, Added

-----------------------------------------------------------------------------
(* Synthetic finality.                                                     *)

\* The entries of the slot index that blockAtOrBeforeSlot considers, and its
\* answer: the block of the last of them.
Found(m, h, slot) == {s \in 0..slot : s \in DOMAIN m.canon /\ m.canon[s] \in Chain(h)}

AtSlot(b, m, h, slot) ==
    \/ Found(m, h, slot) = {} /\ b = Genesis
    \/ \E s \in Found(m, h, slot) : b = m.canon[s] /\ \A r \in Found(m, h, slot) : r <= s

\* An index whose entries are at the slots of their blocks.
Indexed(m) == \A s \in DOMAIN m.canon : SlotOf(m.canon[s]) = s

\* blockAtOrBeforeSlot finds a last entry whenever there is one.
LEMMA AtOrBeforeSlot ==
    ASSUME NEW m, Indexed(m), NEW h, GoodBlock(h), NEW slot \in Nat
    PROVE  AtSlot(BlockAtOrBeforeSlot(m, h, slot), m, h, slot)
<1> DEFINE found == Found(m, h, slot)
           T == {m.canon[s] : s \in found}
<1>1. BlockAtOrBeforeSlot(m, h, slot) =
        IF found = {} THEN Genesis ELSE m.canon[CHOOSE s \in found : \A r \in found : r <= s]
  BY DEF BlockAtOrBeforeSlot, Found
<1>2. \A s \in found : /\ s \in Nat /\ s \in DOMAIN m.canon /\ m.canon[s] \in Chain(h)
                       /\ SlotOf(m.canon[s]) = s /\ m.canon[s] \in T
  BY DEF Found, Indexed
<1> HIDE DEF found
<1>3. CASE found = {}
  BY <1>1, <1>3 DEF AtSlot, found
<1>4. CASE found # {}
  <2>1. T \in SUBSET Chain(h) /\ T # {}
    BY <1>2, <1>4
  <2>2. PICK a \in T : \A c \in T : Number(c) <= Number(a)
    BY <2>1, Zenon DEF GoodBlock, HasHighest
  <2>3. PICK s \in found : a = m.canon[s]
    BY <2>2
  <2> HIDE DEF T
  <2>4. ASSUME NEW r \in found
        PROVE  r <= s
    <3> DEFINE c == m.canon[r]
    <3>1. r \in Nat /\ s \in Nat /\ a \in Chain(h) /\ c \in Chain(h) /\ SlotOf(c) = r /\ SlotOf(a) = s
      BY <1>2, <2>3
    <3>2. Number(c) <= Number(a)
      BY <1>2, <2>2
    <3> HIDE DEF c
    <3>3. /\ Number(a) \in Nat /\ a = AtNumber(h, Number(a))
          /\ Number(c) \in Nat /\ c = AtNumber(h, Number(c))
      BY <3>1, InChain DEF GoodBlock
    <3>4. CASE Number(c) = Number(a)
      BY <3>1, <3>3, <3>4
    <3>5. CASE Number(c) < Number(a)
      <4>1. SlotOf(c) < SlotOf(a)
        BY <3>1, <3>5, SlotsIncrease
      <4> QED
        BY <3>1, <4>1
    <3> QED
      BY <3>2, <3>3, <3>4, <3>5
  <2> DEFINE x == CHOOSE y \in found : \A r \in found : r <= y
  <2>5. x \in found /\ \A r \in found : r <= x
    BY <2>3, <2>4, Zenon
  <2> QED
    BY <1>1, <1>4, <2>5, Zenon DEF AtSlot, found
<1> QED
  BY <1>3, <1>4

\* The block is canonical.
LEMMA AtSlotCanonical ==
    ASSUME NEW m, NEW h, IsBlock(h), NEW slot, NEW b, AtSlot(b, m, h, slot)
    PROVE  b \in Chain(h) /\ IsBlock(b)
<1>1. b \in Chain(h)
  BY BlockFacts, Zenon DEF AtSlot, Found
<1> QED
  BY <1>1, InChain

\* Of an older slot the block is the same or an ancestor.
LEMMA AtSlotOrdered ==
    ASSUME NEW m, Indexed(m), NEW h, GoodBlock(h), NEW s \in Nat, NEW t \in Nat, s <= t,
           NEW a, AtSlot(a, m, h, s), NEW b, AtSlot(b, m, h, t)
    PROVE  a \in Chain(b)
<1>1. a \in Chain(h) /\ b \in Chain(h) /\ IsBlock(h) /\ IsBlock(b)
  BY AtSlotCanonical, Zenon DEF GoodBlock
<1>2. CASE a = Genesis
  BY <1>1, <1>2, BlockFacts
<1>3. CASE a # Genesis
  <2>1. PICK x \in Found(m, h, s) : a = m.canon[x]
    BY <1>3, Zenon DEF AtSlot
  <2>2. x \in Found(m, h, t) /\ SlotOf(a) = x /\ x \in Nat
    BY <2>1 DEF Found, Indexed
  <2>3. PICK y \in Found(m, h, t) : b = m.canon[y] /\ \A r \in Found(m, h, t) : r <= y
    BY <2>2, Zenon DEF AtSlot
  <2>4. SlotOf(b) = y /\ y \in Nat /\ x <= y
    BY <2>2, <2>3 DEF Found, Indexed
  <2>5. Number(a) \in Nat /\ Number(b) \in Nat
    BY <1>1, InChain
  <2>6. Number(b) < Number(a) => SlotOf(b) < SlotOf(a)
    BY <1>1, SlotsIncrease
  <2>7. Number(a) <= Number(b)
    BY <2>2, <2>4, <2>5, <2>6
  <2> QED
    BY <1>1, <2>7, Comparable
<1> QED
  BY <1>2, <1>3

\* What blockAtOrBeforeSlot answers depends on the entries it considers.
LEMMA SameFound ==
    ASSUME NEW m, Indexed(m), NEW h, GoodBlock(h), NEW slot \in Nat, NEW n, NEW g,
           Found(n, g, slot) = Found(m, h, slot), \A s \in Found(m, h, slot) : n.canon[s] = m.canon[s]
    PROVE  BlockAtOrBeforeSlot(n, g, slot) = BlockAtOrBeforeSlot(m, h, slot)
<1> DEFINE found == Found(m, h, slot)
           x == CHOOSE s \in found : \A r \in found : r <= s
<1>1. /\ BlockAtOrBeforeSlot(m, h, slot) = IF found = {} THEN Genesis ELSE m.canon[x]
      /\ BlockAtOrBeforeSlot(n, g, slot) = IF found = {} THEN Genesis ELSE n.canon[x]
  <2> DEFINE other == Found(n, g, slot)
             y == CHOOSE s \in other : \A r \in other : r <= s
  <2>1. BlockAtOrBeforeSlot(m, h, slot) = IF found = {} THEN Genesis ELSE m.canon[x]
    BY DEF BlockAtOrBeforeSlot, Found
  <2>2. BlockAtOrBeforeSlot(n, g, slot) = IF other = {} THEN Genesis ELSE n.canon[y]
    BY DEF BlockAtOrBeforeSlot, Found
  <2>3. other = found
    OBVIOUS
  <2> HIDE DEF other, found
  <2>4. y = x
    BY <2>3
  <2> HIDE DEF x, y
  <2> QED
    BY <2>1, <2>2, <2>3, <2>4
<1>2. AtSlot(BlockAtOrBeforeSlot(m, h, slot), m, h, slot)
  BY AtOrBeforeSlot
<1>3. found # {} => x \in found
  <2>1. found # {} => \E s \in found : \A r \in found : r <= s
    BY <1>2, Zenon DEF AtSlot
  <2> QED
    BY <2>1, Zenon
<1>4. found # {} => n.canon[x] = m.canon[x]
  BY <1>3
<1> HIDE DEF found, x
<1> QED
  BY <1>1, <1>4

\* It reads nothing but the index.
LEMMA SameIndex ==
    ASSUME NEW m, NEW n, n.canon = m.canon, NEW h, NEW slot
    PROVE  BlockAtOrBeforeSlot(n, h, slot) = BlockAtOrBeforeSlot(m, h, slot)
<1> DEFINE Answer(canon) ==
             LET found == {s \in 0..slot : s \in DOMAIN canon /\ canon[s] \in Chain(h)}
             IN IF found = {} THEN Genesis ELSE canon[CHOOSE s \in found : \A r \in found : r <= s]
<1>1. BlockAtOrBeforeSlot(n, h, slot) = Answer(n.canon) /\ BlockAtOrBeforeSlot(m, h, slot) = Answer(m.canon)
  BY DEF BlockAtOrBeforeSlot
<1> HIDE DEF Answer
<1> QED
  BY <1>1

\* Finality lags the slot, also while it is paused.
LEMMA FinalityLags ==
    ASSUME NEW m, m.timeline.frozen \in Nat, NEW slot \in Nat
    PROVE  LET at == SubtractSlots(FinalitySlot(m, slot), 2 * SlotsPerEpoch)
           IN at \in Nat /\ (slot > 0 => at < slot)
<1> DEFINE x == FinalitySlot(m, slot)
<1>1. x \in Nat /\ x <= slot
  BY DEF FinalitySlot
<1> HIDE DEF x
<1>2. 2 * SlotsPerEpoch \in Nat \ {0}
  BY SlotsPerEpochPositive
<1> QED
  BY <1>1, <1>2 DEF SubtractSlots, x

\* The finalized block is canonical.
LEMMA FinalizedCanonical ==
    ASSUME NEW m, Indexed(m), m.timeline.slot \in Nat, m.timeline.frozen \in Nat, NEW h, GoodBlock(h)
    PROVE  Finalized(m, h).block \in Chain(h)
<1> DEFINE at == SubtractSlots(FinalitySlot(m, m.timeline.slot), 2 * SlotsPerEpoch)
<1>1. at \in Nat
  BY FinalityLags
<1>2. Finalized(m, h).block = BlockAtOrBeforeSlot(m, h, at)
  BY DEF Finalized, FinalizedAt
<1> HIDE DEF at
<1>3. IsBlock(h)
  BY DEF GoodBlock
<1> QED
  BY <1>1, <1>2, <1>3, AtOrBeforeSlot, AtSlotCanonical

\* A switch that forks off at or above a canonical block keeps it on every
\* block on the way to the target.
LEMMA ForkKeeps ==
    ASSUME NEW h, GoodBlock(h), NEW target, GoodBlock(target), NEW a \in Chain(h),
           Number(CommonAncestor(h, target)) >= Number(a)
    PROVE  a \in Chain(target) /\ \A b \in PathFrom(target, h) : a \in Chain(b)
<1> DEFINE c == CommonAncestor(h, target)
<1>1. IsBlock(h) /\ IsBlock(target) /\ Meet(h, target) /\ Meet(target, h)
  BY GoodMeet DEF GoodBlock
<1>2. /\ Number(a) \in 0..Number(h) /\ a = AtNumber(h, Number(a)) /\ Number(h) \in Nat
      /\ \A n \in 0..Number(h) : AtNumber(h, n) \in Chain(target) <=> n <= Number(c)
      /\ Number(c) \in 0..Number(h) /\ c = AtNumber(h, Number(c))
  BY <1>1, CommonAncestorIs, InChain, BlockFacts
<1>3. a \in Chain(target)
  BY <1>2
<1>4. ASSUME NEW b \in PathFrom(target, h)
      PROVE  a \in Chain(b)
  <2>1. b \in Chain(target) /\ b \notin Chain(h)
    BY DEF PathFrom
  <2>2. Number(b) \in Nat /\ Number(a) \in Nat
    BY <1>1, <1>2, <2>1, InChain
  <2>3. CASE Number(a) <= Number(b)
    BY <1>1, <1>3, <2>1, <2>3, Comparable
  <2>4. CASE Number(b) < Number(a)
    <3>1. b \in Chain(a)
      BY <1>1, <1>3, <2>1, <2>2, <2>4, Comparable
    <3>2. Chain(a) \subseteq Chain(h)
      BY <1>1, <1>2, ChainOf
    <3> QED
      BY <2>1, <3>1, <3>2
  <2> QED
    BY <2>2, <2>3, <2>4
<1> QED
  BY <1>3, <1>4

-----------------------------------------------------------------------------
(* Batches and tables.                                                     *)

\* Every auxiliary key is a table with a row.
Pairs(kv) == \A k \in DOMAIN kv : k = <<k[1], k[2]>>

\* What a table, and a table with a row put, hold.
IsTable(f, kv, table) ==
    /\ f = [r \in DOMAIN f |-> f[r]]
    /\ \A r : r \in DOMAIN f <=> <<table, r>> \in DOMAIN kv
    /\ \A r : <<table, r>> \in DOMAIN kv => f[r] = kv[<<table, r>>]

IsPut(g, f, row, value) ==
    /\ g = [r \in DOMAIN g |-> g[r]]
    /\ DOMAIN g = DOMAIN f \cup {row}
    /\ g[row] = value
    /\ \A r \in DOMAIN f : r # row => g[r] = f[r]

\* Rows <<table, row, value>> with one value per key, and the puts of them.
AreRows(rows) ==
    /\ \A x \in rows : x = <<x[1], x[2], x[3]>>
    /\ \A x, y \in rows : x[1] = y[1] /\ x[2] = y[2] => x[3] = y[3]

ArePuts(puts, rows) ==
    /\ Pairs(puts)
    /\ \A t, r : <<t, r>> \in DOMAIN puts <=> \E v : <<t, r, v>> \in rows
    /\ \A t, r, v : <<t, r, v>> \in rows => puts[<<t, r>>] = v

\* The batch a set of rows makes holds exactly those rows.
LEMMA PutsAre ==
    ASSUME NEW rows, AreRows(rows)
    PROVE  ArePuts(Puts(rows), rows)
<1> DEFINE keys == {<<x[1], x[2]>> : x \in rows}
           puts == Puts(rows)
<1>1. puts = [k \in keys |-> (CHOOSE x \in rows : <<x[1], x[2]>> = k)[3]]
  BY DEF Puts
<1>2. \A x \in rows : x = <<x[1], x[2], x[3]>>
  BY DEF AreRows
<1>3. \A x, y \in rows : x[1] = y[1] /\ x[2] = y[2] => x[3] = y[3]
  BY DEF AreRows
<1> HIDE DEF puts
<1>4. \A k \in keys : k = <<k[1], k[2]>>
  OBVIOUS
<1>5. ASSUME NEW t, NEW r, <<t, r>> \in keys
      PROVE  \E v : <<t, r, v>> \in rows
  <2>1. PICK x \in rows : <<x[1], x[2]>> = <<t, r>>
    BY <1>5
  <2>2. x = <<t, r, x[3]>>
    BY <2>1, <1>2
  <2> QED
    BY Zenon, <2>1, <2>2
<1>6. ASSUME NEW t, NEW r, NEW v, <<t, r, v>> \in rows
      PROVE  <<t, r>> \in keys /\ puts[<<t, r>>] = v
  <2> DEFINE z == <<t, r, v>>
  <2>1. z \in rows /\ z[1] = t /\ z[2] = r /\ z[3] = v
    BY <1>6
  <2> HIDE DEF z
  <2>2. <<t, r>> \in keys
    BY <2>1
  <2> DEFINE y == CHOOSE x \in rows : <<x[1], x[2]>> = <<t, r>>
  <2>3. y \in rows /\ <<y[1], y[2]>> = <<t, r>>
    BY <2>1
  <2>4. puts[<<t, r>>] = y[3]
    BY <1>1, <2>2
  <2> HIDE DEF y
  <2>5. y[1] = t /\ y[2] = r
    BY <2>3
  <2>6. y[3] = z[3]
    BY <2>1, <2>3, <2>5, <1>3
  <2> QED
    BY <2>1, <2>2, <2>4, <2>6
<1>7. DOMAIN puts = keys
  BY <1>1
<1> HIDE DEF keys
<1>8. Pairs(puts)
  BY <1>4, <1>7 DEF Pairs
<1>9. \A t, r : <<t, r>> \in DOMAIN puts <=> \E v : <<t, r, v>> \in rows
  BY Zenon, <1>5, <1>6, <1>7
<1>10. \A t, r, v : <<t, r, v>> \in rows => puts[<<t, r>>] = v
  BY <1>6
<1>11. ArePuts(puts, rows)
  BY Zenon, <1>8, <1>9, <1>10 DEF ArePuts
<1> QED
  BY <1>11 DEF puts

\* The database kw is kv after a batch that puts the rows, then deletes.
Written(kw, kv, rows, deletes) ==
    /\ Pairs(kw)
    /\ \A t, r : <<t, r>> \in DOMAIN kw <=>
                    /\ <<t, r>> \in DOMAIN kv \/ \E v : <<t, r, v>> \in rows
                    /\ <<t, r>> \notin deletes
    /\ \A t, r, v : <<t, r, v>> \in rows /\ <<t, r>> \notin deletes => kw[<<t, r>>] = v
    /\ \A t, r : <<t, r>> \in DOMAIN kw /\ ~(\E v : <<t, r, v>> \in rows) => kw[<<t, r>>] = kv[<<t, r>>]

\* A committed batch writes its rows, deletes its deletions and keeps the rest.
LEMMA BatchWritten ==
    ASSUME NEW kv, Pairs(kv), NEW rows, AreRows(rows), NEW deletes
    PROVE  Written(Batch(kv, Puts(rows), deletes), kv, rows, deletes)
<1> DEFINE puts == Puts(rows)
           kw == Batch(kv, puts, deletes)
<1>1. ArePuts(puts, rows)
  BY PutsAre
<1>2. kw = [k \in (DOMAIN kv \cup DOMAIN puts) \ deletes |-> IF k \in DOMAIN puts THEN puts[k] ELSE kv[k]]
  BY DEF Batch
<1> HIDE DEF puts, kw
<1>3. DOMAIN kw = (DOMAIN kv \cup DOMAIN puts) \ deletes
  BY <1>2
<1>4. \A t, r : <<t, r>> \in DOMAIN puts <=> \E v : <<t, r, v>> \in rows
  BY Zenon, <1>1 DEF ArePuts
<1>5. Pairs(kw)
  <2>1. DOMAIN kw \subseteq DOMAIN kv \cup DOMAIN puts
    BY <1>3
  <2> QED
    BY <2>1, <1>1, Zenon DEF Pairs, ArePuts
<1>6. \A t, r : <<t, r>> \in DOMAIN kw <=>
                   /\ <<t, r>> \in DOMAIN kv \/ \E v : <<t, r, v>> \in rows
                   /\ <<t, r>> \notin deletes
  BY Zenon, <1>3, <1>4
<1>7. ASSUME NEW t, NEW r, NEW v, <<t, r, v>> \in rows, <<t, r>> \notin deletes
      PROVE  kw[<<t, r>>] = v
  <2>1. <<t, r>> \in DOMAIN puts /\ puts[<<t, r>>] = v
    BY <1>7, <1>1 DEF ArePuts
  <2> QED
    BY <2>1, <1>2, <1>7
<1>8. ASSUME NEW t, NEW r, <<t, r>> \in DOMAIN kw, ~(\E v : <<t, r, v>> \in rows)
      PROVE  kw[<<t, r>>] = kv[<<t, r>>]
  BY <1>2, <1>3, <1>4, <1>8
<1>9. Written(kw, kv, rows, deletes)
  BY Zenon, <1>5, <1>6, <1>7, <1>8 DEF Written
<1> QED
  BY <1>9 DEF kw, puts

\* loadState reads back a table exactly as the store holds it.
LEMMA TableIs ==
    ASSUME NEW kv, Pairs(kv), NEW table
    PROVE  IsTable(LoadTable(kv, table), kv, table)
<1> DEFINE rows == {k[2] : k \in {x \in DOMAIN kv : x[1] = table}}
<1>1. \A r : r \in rows <=> <<table, r>> \in DOMAIN kv
  <2>1. ASSUME NEW r, r \in rows
        PROVE  <<table, r>> \in DOMAIN kv
    BY <2>1 DEF Pairs
  <2>2. ASSUME NEW r, <<table, r>> \in DOMAIN kv
        PROVE  r \in rows
    <3>1. <<table, r>>[1] = table /\ <<table, r>>[2] = r
      OBVIOUS
    <3> QED
      BY <2>2, <3>1
  <2> QED
    BY <2>1, <2>2
<1>2. LoadTable(kv, table) = [r \in rows |-> kv[<<table, r>>]]
  BY DEF LoadTable
<1> HIDE DEF rows
<1> QED
  BY <1>1, <1>2 DEF IsTable

\* Assigning one entry of a map changes that entry alone.
LEMMA PutIs ==
    ASSUME NEW f, NEW row, NEW value
    PROVE  IsPut(Put(f, row, value), f, row, value)
  BY DEF Put, IsPut

\* Two tables of the same database are the same table.
LEMMA TableUnique ==
    ASSUME NEW kv, NEW table, NEW f, NEW g, IsTable(f, kv, table), IsTable(g, kv, table)
    PROVE  f = g
<1>1. DOMAIN f = DOMAIN g /\ \A r \in DOMAIN f : f[r] = g[r]
  BY Zenon DEF IsTable
<1>2. f = [r \in DOMAIN f |-> f[r]] /\ g = [r \in DOMAIN g |-> g[r]]
  BY DEF IsTable
<1> QED
  BY <1>1, <1>2

\* A table of which a batch touches no row, or puts one.
LEMMA TableKept ==
    ASSUME NEW kv, NEW rows, NEW deletes, NEW kw, Written(kw, kv, rows, deletes),
           NEW table, NEW f, IsTable(f, kv, table),
           \A r, v : <<table, r, v>> \notin rows,
           \A r : <<table, r>> \notin deletes
    PROVE  IsTable(f, kw, table)
<1>1. \A r : <<table, r>> \in DOMAIN kw <=> <<table, r>> \in DOMAIN kv
  BY Zenon DEF Written
<1>2. \A r : <<table, r>> \in DOMAIN kw => kw[<<table, r>>] = kv[<<table, r>>]
  BY Zenon DEF Written
<1> QED
  BY <1>1, <1>2 DEF IsTable

\* A map and its stored table stay equal when both get the same single row.
LEMMA TablePut ==
    ASSUME NEW kv, NEW rows, NEW deletes, NEW kw, Written(kw, kv, rows, deletes),
           NEW table, NEW f, IsTable(f, kv, table), NEW row, NEW g, NEW value, IsPut(g, f, row, value),
           <<table, row, value>> \in rows,
           \A r, v : <<table, r, v>> \in rows => r = row,
           \A r : <<table, r>> \notin deletes
    PROVE  IsTable(g, kw, table)
<1>1. g = [r \in DOMAIN g |-> g[r]]
  BY DEF IsPut
<1>2. \A r : r \in DOMAIN g <=> r \in DOMAIN f \/ r = row
  BY DEF IsPut
<1>3. \A r : <<table, r>> \in DOMAIN kw <=> <<table, r>> \in DOMAIN kv \/ r = row
  BY Zenon DEF Written
<1>4. \A r : r \in DOMAIN g <=> <<table, r>> \in DOMAIN kw
  BY <1>2, <1>3 DEF IsTable
<1>5. ASSUME NEW r, <<table, r>> \in DOMAIN kw
      PROVE  g[r] = kw[<<table, r>>]
  <2>1. CASE r = row
    <3>1. g[row] = value
      BY DEF IsPut
    <3>2. kw[<<table, row>>] = value
      BY DEF Written
    <3> QED
      BY <2>1, <3>1, <3>2
  <2>2. CASE r # row
    <3>1. r \in DOMAIN f /\ g[r] = f[r]
      BY <2>2, <1>2, <1>4, <1>5 DEF IsPut
    <3>2. f[r] = kv[<<table, r>>]
      BY <3>1 DEF IsTable
    <3>3. kw[<<table, r>>] = kv[<<table, r>>]
      BY Zenon, <2>2, <1>5 DEF Written
    <3> QED
      BY <3>1, <3>2, <3>3
  <2> QED
    BY <2>1, <2>2
<1> QED
  BY <1>1, <1>4, <1>5 DEF IsTable

\* One key that a batch does not touch.
LEMMA KeyKept ==
    ASSUME NEW kv, NEW rows, NEW deletes, NEW kw, Written(kw, kv, rows, deletes), NEW t, NEW r,
           \A v : <<t, r, v>> \notin rows, <<t, r>> \notin deletes
    PROVE  /\ <<t, r>> \in DOMAIN kw <=> <<t, r>> \in DOMAIN kv
           /\ <<t, r>> \in DOMAIN kw => kw[<<t, r>>] = kv[<<t, r>>]
           /\ \A default : Lookup(kw, <<t, r>>, default) = Lookup(kv, <<t, r>>, default)
<1>1. <<t, r>> \in DOMAIN kw <=> <<t, r>> \in DOMAIN kv
  BY Zenon DEF Written
<1>2. <<t, r>> \in DOMAIN kw => kw[<<t, r>>] = kv[<<t, r>>]
  BY Zenon DEF Written
<1> QED
  BY <1>1, <1>2 DEF Lookup

\* A row of the batch is what the store answers for its key afterwards.
LEMMA KeyPut ==
    ASSUME NEW kv, NEW rows, NEW deletes, NEW kw, Written(kw, kv, rows, deletes), NEW t, NEW r, NEW v,
           <<t, r, v>> \in rows, <<t, r>> \notin deletes
    PROVE  <<t, r>> \in DOMAIN kw /\ kw[<<t, r>>] = v /\ \A default : Lookup(kw, <<t, r>>, default) = v
<1>1. <<t, r>> \in DOMAIN kw /\ kw[<<t, r>>] = v
  BY Zenon DEF Written
<1> QED
  BY <1>1 DEF Lookup

-----------------------------------------------------------------------------
(* Safety metadata.                                                        *)

\* The metadata of a block says whether it or an ancestor is unsafe, and which
\* is the lowest unsafe one.
UnsafeIn(b) == {a \in Chain(b) : Unsafe(a)}
Exact(safety, b) ==
    /\ safety.tainted = (UnsafeIn(b) # {})
    /\ safety.first = {a \in UnsafeIn(b) : \A c \in UnsafeIn(b) : Number(a) <= Number(c)}
    /\ safety.first # {} <=> safety.tainted

\* blockSafetyForChild keeps it exact, whatever the parent.
LEMMA ExactChild ==
    ASSUME NEW parent, IsBlock(parent), NEW header, NEW b, ChildOf(b, parent, header),
           NEW before, Exact(before, parent), NEW reasons, reasons # {} <=> Unsafe(b)
    PROVE  /\ Exact(SafetyForChild(before, b, reasons), b)
           /\ reasons # {} => SafetyForChild(before, b, reasons).first # {}
<1> DEFINE safety == SafetyForChild(before, b, reasons)
<1>1. Chain(b) = Chain(parent) \cup {b} /\ b \notin Chain(parent) /\ IsBlock(b)
      /\ Number(b) = Number(parent) + 1
  BY Child
<1>2. \A a \in Chain(parent) : Number(a) \in Nat /\ Number(a) < Number(b)
  <2>1. Number(parent) \in Nat
    BY BlockFacts
  <2>2. \A a \in Chain(parent) : Number(a) \in 0..Number(parent)
    BY InChain
  <2> QED
    BY <1>1, <2>1, <2>2
<1>3. before.first # {} <=> before.tainted
  BY DEF Exact
<1>4. before.tainted = (UnsafeIn(parent) # {})
  BY DEF Exact
<1>5. UnsafeIn(b) = IF Unsafe(b) THEN UnsafeIn(parent) \cup {b} ELSE UnsafeIn(parent)
  BY <1>1 DEF UnsafeIn
<1>6. safety = IF UnsafeIn(b) = {} THEN Clean
               ELSE [tainted |-> TRUE,
                     first   |-> IF before.first = {} THEN {b} ELSE before.first,
                     reasons |-> before.reasons \cup reasons]
  BY Zenon, <1>4, <1>5 DEF SafetyForChild
<1>7. ASSUME UnsafeIn(b) = {}
      PROVE  Exact(safety, b)
  <2>1. safety = Clean
    BY <1>6, <1>7
  <2>2. Clean.tainted = FALSE /\ Clean.first = {}
    BY DEF Clean
  <2> QED
    BY Zenon, <1>7, <2>1, <2>2 DEF Exact
<1>8. ASSUME UnsafeIn(b) # {} /\ UnsafeIn(parent) = {}
      PROVE  Exact(safety, b)
  <2>1. UnsafeIn(b) = {b} /\ before.first = {}
    BY Zenon, <1>8, <1>3, <1>4, <1>5
  <2>2. safety.tainted = TRUE /\ safety.first = {b}
    BY <1>6, <1>8, <2>1
  <2>3. Number(b) <= Number(b)
    BY <1>1, BlockFacts
  <2> QED
    BY Zenon, <2>1, <2>2, <2>3 DEF Exact
<1>9. ASSUME UnsafeIn(parent) # {}
      PROVE  Exact(safety, b)
  <2>1. UnsafeIn(parent) \subseteq Chain(parent) /\ UnsafeIn(b) # {} /\ before.first # {}
    BY Zenon, <1>9, <1>3, <1>4, <1>5 DEF UnsafeIn
  <2>2. safety.tainted = TRUE /\ safety.first = before.first
    BY <1>6, <2>1
  <2>3. before.first = {a \in UnsafeIn(parent) : \A c \in UnsafeIn(parent) : Number(a) <= Number(c)}
    BY DEF Exact
  <2>4. ASSUME NEW a \in before.first
        PROVE  a \in UnsafeIn(b) /\ \A c \in UnsafeIn(b) : Number(a) <= Number(c)
    <3>1. a \in UnsafeIn(parent) /\ Number(a) <= Number(b)
      <4>1. a \in UnsafeIn(parent) /\ Number(a) \in Nat /\ Number(a) < Number(b)
        BY Zenon, <2>1, <2>3, <1>2
      <4>2. Number(b) \in Nat
        BY Zenon, <1>1, BlockFacts
      <4> QED
        BY <4>1, <4>2
    <3> QED
      BY <3>1, <2>3, <1>5
  <2>5. ASSUME NEW a \in UnsafeIn(b), \A c \in UnsafeIn(b) : Number(a) <= Number(c)
        PROVE  a \in before.first
    <3>1. UnsafeIn(parent) \subseteq UnsafeIn(b)
      BY <1>5
    <3>2. PICK c \in UnsafeIn(parent) : TRUE
      BY Zenon, <1>9
    <3>3. Number(c) \in Nat /\ Number(c) < Number(b) /\ Number(a) <= Number(c)
      BY <3>1, <3>2, <2>1, <2>5, <1>2
    <3>4. a # b
      <4>1. Number(b) \in Nat
        BY <1>1, BlockFacts
      <4> QED
        BY <3>3, <4>1
    <3>5. a \in UnsafeIn(parent)
      BY Zenon, <3>4, <1>5
    <3> QED
      BY <3>1, <3>5, <2>3, <2>5
  <2>6. safety.first = {a \in UnsafeIn(b) : \A c \in UnsafeIn(b) : Number(a) <= Number(c)}
    BY <2>2, <2>4, <2>5
  <2> QED
    BY Zenon, <2>1, <2>2, <2>6 DEF Exact
<1>10. Exact(safety, b)
  BY <1>7, <1>8, <1>9
<1>11. ASSUME reasons # {}
       PROVE  safety.first # {}
  BY Zenon, <1>10, <1>11, <1>1, <1>5 DEF Exact
<1> QED
  BY <1>10, <1>11

-----------------------------------------------------------------------------
(* The FIFOs of execution requests.                                        *)

IsFIFO(s) == \E S : s \in Seq(S)
IsQueue(q) ==
    /\ q = [next |-> q.next, items |-> q.items]
    /\ q.items = [t \in RequestTypes |-> q.items[t]]
    /\ \A t \in RequestTypes : IsFIFO(q.items[t])

\* A part of a FIFO, and a FIFO with one more item, are FIFOs.
LEMMA FIFOIs ==
    ASSUME NEW s, IsFIFO(s)
    PROVE  /\ Len(s) \in Nat /\ SubSeq(s, 1, Len(s)) = s
           /\ \A n \in 0..Len(s) : IsFIFO(SubSeq(s, 1, n)) /\ IsFIFO(SubSeq(s, n + 1, Len(s)))
           /\ \A x : IsFIFO(Append(s, x))
<1>1. PICK S : s \in Seq(S)
  BY DEF IsFIFO
<1>2. Len(s) \in Nat /\ SubSeq(s, 1, Len(s)) = s
  BY <1>1
<1>3. \A n \in 0..Len(s) : SubSeq(s, 1, n) \in Seq(S) /\ SubSeq(s, n + 1, Len(s)) \in Seq(S)
  BY <1>1, <1>2
<1>4. ASSUME NEW x
      PROVE  Append(s, x) \in Seq(S \cup {x})
  <2>1. s \in Seq(S \cup {x})
    BY <1>1
  <2> QED
    BY <2>1
<1>5. \A x : IsFIFO(Append(s, x))
  BY Zenon, <1>4 DEF IsFIFO
<1> QED
  BY <1>2, <1>3, <1>5 DEF IsFIFO

\* A block consumes of each request type no more than is queued.
LEMMA ConsumedIs ==
    ASSUME NEW q, IsQueue(q), NEW slot \in Nat
    PROVE  /\ \A t \in RequestTypes : Consumed(q, slot)[t] \in 0..Len(q.items[t])
           /\ Consumed(q, slot) = [t \in RequestTypes |-> Consumed(q, slot)[t]]
<1>1. ASSUME NEW t \in RequestTypes
      PROVE  Consumed(q, slot)[t] \in 0..Len(q.items[t])
  <2> DEFINE room == Capacity[t] - NativeRequests(slot)[t]
  <2>1. Len(q.items[t]) \in Nat
    BY FIFOIs DEF IsQueue
  <2>2. room \in Nat
    <3>1. NativeRequests(slot)[t] \in {0, 1}
      BY DEF NativeRequests
    <3>2. Capacity[t] \in Nat \ {0}
      BY CapacityPositive
    <3> QED
      BY <3>1, <3>2
  <2>3. Consumed(q, slot)[t] = IF slot < PragueSlot THEN 0
                               ELSE IF room < Len(q.items[t]) THEN room ELSE Len(q.items[t])
    BY DEF Consumed
  <2> HIDE DEF room
  <2> QED
    BY <2>1, <2>2, <2>3
<1> QED
  BY <1>1 DEF Consumed

\* What a block leaves is a queue, and all of it when the block consumes nothing.
LEMMA RemainingIs ==
    ASSUME NEW q, IsQueue(q), NEW slot \in Nat
    PROVE  /\ IsQueue(Remaining(q, slot)) /\ Remaining(q, slot).next = q.next
           /\ Consumed(q, slot) = NoRequests => Remaining(q, slot) = q
           /\ \A t \in RequestTypes : IsFIFO(Controls(q, slot)[t])
<1> DEFINE n == Consumed(q, slot)
           items == [t \in RequestTypes |-> SubSeq(q.items[t], n[t] + 1, Len(q.items[t]))]
<1>1. \A t \in RequestTypes : n[t] \in 0..Len(q.items[t])
  BY ConsumedIs
<1>2. Remaining(q, slot) = [next |-> q.next, items |-> items]
  <2>1. Remaining(q, slot) = [q EXCEPT !.items = items]
    BY DEF Remaining
  <2> HIDE DEF items
  <2>2. q = [next |-> q.next, items |-> q.items]
    BY DEF IsQueue
  <2> QED
    BY <2>1, <2>2
<1> HIDE DEF n
<1>3. \A t \in RequestTypes : IsFIFO(items[t]) /\ IsFIFO(SubSeq(q.items[t], 1, n[t]))
  BY <1>1, FIFOIs DEF IsQueue
<1>4. ASSUME n = NoRequests
      PROVE  items = q.items
  <2>1. \A t \in RequestTypes : n[t] = 0
    BY <1>4 DEF NoRequests
  <2>2. \A t \in RequestTypes : items[t] = q.items[t]
    BY <2>1, FIFOIs DEF IsQueue
  <2> QED
    BY <2>2 DEF IsQueue
<1>5. items = [t \in RequestTypes |-> items[t]]
  BY Zenon
<1> HIDE DEF items
<1>6. IsQueue(Remaining(q, slot)) /\ Remaining(q, slot).next = q.next
  BY <1>2, <1>3, <1>5 DEF IsQueue
<1>7. n = NoRequests => Remaining(q, slot) = q
  BY <1>2, <1>4 DEF IsQueue
<1>8. \A t \in RequestTypes : Controls(q, slot)[t] = SubSeq(q.items[t], 1, n[t])
  BY Zenon DEF Controls, n
<1> QED
  BY Zenon, <1>3, <1>6, <1>7, <1>8 DEF n

\* addExecutionRequest leaves a queue a queue.
LEMMA EnqueueIs ==
    ASSUME NEW q, IsQueue(q), NEW u \in RequestTypes
    PROVE  IsQueue(Enqueue(q, u))
<1> DEFINE items == [q.items EXCEPT ![u] = Append(@, q.next)]
<1>1. Enqueue(q, u) = [next |-> q.next + 1, items |-> items]
  BY DEF Enqueue
<1>2. items = [t \in RequestTypes |-> IF t = u THEN Append(q.items[u], q.next) ELSE q.items[t]]
  BY Zenon DEF IsQueue
<1> HIDE DEF items
<1>3. \A t \in RequestTypes : IsFIFO(items[t])
  BY <1>2, FIFOIs DEF IsQueue
<1>4. items = [t \in RequestTypes |-> items[t]]
  BY <1>2
<1> QED
  BY <1>1, <1>3, <1>4 DEF IsQueue

\* The empty queue is a queue that no block can consume from.
LEMMA EmptyQueueIs ==
    /\ IsQueue(EmptyQueue)
    /\ \A slot \in Nat : Consumed(EmptyQueue, slot) = NoRequests
<1>1. \A t \in RequestTypes : EmptyQueue.items[t] = <<>>
  BY DEF EmptyQueue
<1>2. <<>> \in Seq({})
  OBVIOUS
<1>3. IsQueue(EmptyQueue)
  <2>1. \A t \in RequestTypes : IsFIFO(EmptyQueue.items[t])
    BY Zenon, <1>1, <1>2 DEF IsFIFO
  <2> QED
    BY <2>1 DEF IsQueue, EmptyQueue
<1>4. ASSUME NEW slot \in Nat
      PROVE  Consumed(EmptyQueue, slot) = NoRequests
  <2>1. \A t \in RequestTypes : Consumed(EmptyQueue, slot)[t] \in 0..Len(EmptyQueue.items[t])
    BY <1>3, ConsumedIs
  <2>2. \A t \in RequestTypes : Consumed(EmptyQueue, slot)[t] = 0
    BY <1>1, <2>1
  <2>3. Consumed(EmptyQueue, slot) = [t \in RequestTypes |-> Consumed(EmptyQueue, slot)[t]]
    BY <1>3, ConsumedIs
  <2> HIDE <1>1
  <2> QED
    BY <2>2, <2>3 DEF NoRequests
<1> QED
  BY <1>3, <1>4

-----------------------------------------------------------------------------
(* The requests of a type in the order of their IDs, of which the chain of *)
(* every block consumes the first ones: block b those after low[b][t] up   *)
(* to high[b][t].                                                          *)

Count(b, t) == IF b = Genesis THEN 0 ELSE LastHeader(b).controls[t]
Takes(low, high, b, t, i) == low[b][t] < i /\ i <= high[b][t]

Accounts(low, high, S) ==
    /\ \A b \in S : \A t \in RequestTypes :
          /\ low[b][t] \in Nat /\ Count(b, t) \in Nat
          /\ low[b][t] = IF b = Genesis THEN 0 ELSE high[Parent(b)][t]
          /\ high[b][t] = low[b][t] + Count(b, t)
    /\ \A b \in S : \A a \in Chain(b) : a # b => \A t \in RequestTypes : high[a][t] <= low[b][t]
    /\ \A b \in S : \A t \in RequestTypes : \A i \in 1..high[b][t] :
          \E c \in Chain(b) : Takes(low, high, c, t, i)

Agree(f, g, S) == \A x \in S : f[x] = g[x]

\* A set of blocks with all their ancestors.
Closed(S) == \A b \in S : IsBlock(b) /\ Chain(b) \subseteq S

\* A child consumes what follows its parent's chain; a block that is built a
\* second time consumes what it did the first time.
LEMMA AccountsChild ==
    ASSUME NEW S, Closed(S), NEW low, NEW high, Accounts(low, high, S),
           NEW parent \in S, NEW header, NEW b, ChildOf(b, parent, header),
           \A t \in RequestTypes : header.controls[t] \in Nat
    PROVE  \E low2, high2 :
              Accounts(low2, high2, S \cup {b}) /\ Agree(low2, low, S) /\ Agree(high2, high, S)
<1>1. /\ IsBlock(parent) /\ parent \in Chain(parent) /\ Chain(parent) \subseteq S
      /\ b # Genesis /\ Parent(b) = parent /\ LastHeader(b) = header
      /\ Chain(b) = Chain(parent) \cup {b} /\ b \notin Chain(parent)
  BY Child, BlockFacts DEF Closed
<1>2. \A t \in RequestTypes : Count(b, t) = header.controls[t] /\ Count(b, t) \in Nat
  BY <1>1 DEF Count
<1>3. CASE b \in S
  <2>1. S \cup {b} = S /\ Agree(low, low, S) /\ Agree(high, high, S)
    BY <1>3 DEF Agree
  <2> QED
    BY Zenon, <2>1
<1>4. CASE b \notin S
  <2> DEFINE low2 == [c \in S \cup {b} |-> IF c = b THEN [t \in RequestTypes |-> high[parent][t]] ELSE low[c]]
             high2 == [c \in S \cup {b} |->
                         IF c = b THEN [t \in RequestTypes |-> high[parent][t] + Count(b, t)] ELSE high[c]]
  <2>1. \A c \in S : low2[c] = low[c] /\ high2[c] = high[c]
    BY Zenon, <1>4
  <2>2. \A t \in RequestTypes : low2[b][t] = high[parent][t] /\ high2[b][t] = high[parent][t] + Count(b, t)
    BY Zenon
  <2> HIDE DEF low2, high2
  <2>3. ASSUME NEW c \in S
        PROVE  /\ \A a \in Chain(c) : a \in S /\ low2[a] = low[a] /\ high2[a] = high[a]
               /\ c # Genesis => Parent(c) \in S
    <3>1. IsBlock(c) /\ Chain(c) \subseteq S
      BY Zenon DEF Closed
    <3>2. c # Genesis => Parent(c) \in Chain(c)
      BY Zenon, <3>1, ParentIs
    <3> QED
      BY Zenon, <2>1, <3>1, <3>2
  <2>4. \A t \in RequestTypes : high[parent][t] \in Nat /\ low[parent][t] <= high[parent][t]
    BY DEF Accounts
  <2>5. ASSUME NEW c \in S \cup {b}, NEW t \in RequestTypes
        PROVE  /\ low2[c][t] \in Nat /\ Count(c, t) \in Nat
               /\ low2[c][t] = IF c = Genesis THEN 0 ELSE high2[Parent(c)][t]
               /\ high2[c][t] = low2[c][t] + Count(c, t)
    <3>1. CASE c \in S
      BY SMTT(30), <3>1, <2>1, <2>3 DEF Accounts
    <3>2. CASE c = b
      BY Zenon, <3>2, <1>1, <1>2, <2>1, <2>2, <2>4
    <3> QED
      BY Zenon, <3>1, <3>2
  <2>6. ASSUME NEW c \in S \cup {b}, NEW a \in Chain(c), a # c, NEW t \in RequestTypes
        PROVE  high2[a][t] <= low2[c][t]
    <3>1. CASE c \in S
      BY Zenon, <3>1, <2>1, <2>3, <2>6 DEF Accounts
    <3>2. CASE c = b
      <4>1. a \in Chain(parent) /\ a \in S /\ high2[a] = high[a] /\ low2[c][t] = high[parent][t]
        BY Zenon, <3>2, <1>1, <2>1, <2>2, <2>6
      <4>2. CASE a = parent
        BY <4>1, <4>2, <2>4
      <4>3. CASE a # parent
        <5>1. high[a][t] <= low[parent][t] /\ high[a][t] \in Nat /\ low[parent][t] \in Nat
          BY SMTT(30), <4>1, <4>3 DEF Accounts
        <5> QED
          BY <5>1, <4>1, <2>4
      <4> QED
        BY Zenon, <4>2, <4>3
    <3> QED
      BY Zenon, <3>1, <3>2
  <2>7. ASSUME NEW c \in S \cup {b}, NEW t \in RequestTypes, NEW i \in 1..high2[c][t]
        PROVE  \E d \in Chain(c) : Takes(low2, high2, d, t, i)
    <3>1. \A e \in S : i \in 1..high[e][t] => \E d \in Chain(e) : Takes(low2, high2, d, t, i)
      BY Zenon, <2>3 DEF Accounts, Takes
    <3>2. CASE c \in S
      BY Zenon, <3>1, <3>2, <2>1, <2>7
    <3>3. CASE c = b
      <4>1. CASE i <= high[parent][t]
        BY SMTT(30), <4>1, <3>1, <3>3, <1>1, <2>4
      <4>2. CASE ~(i <= high[parent][t])
        <5>1. Takes(low2, high2, b, t, i)
          BY <4>2, <3>3, <2>2, <2>4, <1>2 DEF Takes
        <5> QED
          BY Zenon, <5>1, <3>3, <1>1
      <4> QED
        BY Zenon, <4>1, <4>2
    <3> QED
      BY Zenon, <3>2, <3>3
  <2>8. Accounts(low2, high2, S \cup {b})
    BY Zenon, <2>5, <2>6, <2>7 DEF Accounts
  <2>9. Agree(low2, low, S) /\ Agree(high2, high, S)
    BY Zenon, <2>1 DEF Agree
  <2> QED
    BY Zenon, <2>8, <2>9
<1> QED
  BY ZenonT(30), <1>3, <1>4

\* A request taken on a chain is taken by one block of it, and is not pending.
Single(low, high, S, t, i) ==
    /\ \A b \in S : \A c \in Chain(b) : Takes(low, high, c, t, i) => i <= high[b][t]
    /\ \A b \in S : \A c, d \in Chain(b) : Takes(low, high, c, t, i) /\ Takes(low, high, d, t, i) => c = d
    /\ \A b \in S : i <= high[b][t] => \E c \in Chain(b) : Takes(low, high, c, t, i)
    /\ \A b \in S : high[b][t] < i <=> ~(i <= high[b][t])

\* On one chain an accepted request is taken by at most one block.
LEMMA TakesOnce ==
    ASSUME NEW S, Closed(S), NEW low, NEW high, Accounts(low, high, S), NEW t \in RequestTypes, NEW i \in Nat \ {0}
    PROVE  Single(low, high, S, t, i)
<1>1. \A b \in S : /\ IsBlock(b) /\ b \in Chain(b) /\ Chain(b) \subseteq S
                   /\ low[b][t] \in Nat /\ high[b][t] \in Nat /\ low[b][t] <= high[b][t]
  BY BlockFacts DEF Closed, Accounts
<1>2. ASSUME NEW b \in S, NEW c \in Chain(b), Takes(low, high, c, t, i)
      PROVE  i <= high[b][t]
  <2>1. CASE c = b
    BY Zenon, <2>1, <1>2 DEF Takes
  <2>2. CASE c # b
    <3>1. high[c][t] <= low[b][t] /\ c \in S
      BY <2>2, <1>1 DEF Accounts
    <3> QED
      BY <3>1, <1>1, <1>2 DEF Takes
  <2> QED
    BY <2>1, <2>2
<1>3. ASSUME NEW b \in S, NEW c \in Chain(b), NEW d \in Chain(b), Takes(low, high, c, t, i), Takes(low, high, d, t, i)
      PROVE  c = d
  <2>1. ASSUME NEW x \in Chain(b), NEW y \in Chain(b), Takes(low, high, x, t, i), Takes(low, high, y, t, i),
               Number(x) <= Number(y), x # y
        PROVE  FALSE
    <3>1. x \in Chain(y) /\ x \in S /\ y \in S
      BY Zenon, <2>1, <1>1, Comparable
    <3>2. high[x][t] <= low[y][t]
      BY Zenon, <2>1, <3>1 DEF Accounts
    <3> QED
      BY SMTT(30), <2>1, <3>1, <3>2, <1>1 DEF Takes
  <2>2. Number(c) \in Nat /\ Number(d) \in Nat
    BY Zenon, <1>1, InChain, BlockFacts
  <2> QED
    BY <1>3, <2>1, <2>2
<1>4. ASSUME NEW b \in S, i <= high[b][t]
      PROVE  \E c \in Chain(b) : Takes(low, high, c, t, i)
  BY <1>1, <1>4 DEF Accounts
<1>5. \A b \in S : high[b][t] < i <=> ~(i <= high[b][t])
  BY SMTT(30), <1>1
<1> QED
  BY Zenon, <1>2, <1>3, <1>4, <1>5 DEF Single

\* The requests after those of the target's chain: what is pending at the old
\* head, with what the removed path returns and without what the added takes.
Available(low, high, old, target, t, i) ==
    high[old][t] < i \/ \E c \in PathFrom(old, target) : Takes(low, high, c, t, i)
AddedBy(low, high, old, target, t, i) == \E c \in PathFrom(target, old) : Takes(low, high, c, t, i)

\* A request is untaken at the switch target exactly when it is available
\* (queued, or on the removed part) and not on the added part: the set
\* arithmetic of reconcileRequestsForSwitch, for one request.
LEMMA SwitchAccounts ==
    ASSUME NEW S, Closed(S), NEW low, NEW high, Accounts(low, high, S),
           NEW old \in S, NEW target \in S, NEW t \in RequestTypes, NEW i \in Nat \ {0}
    PROVE  /\ AddedBy(low, high, old, target, t, i) => Available(low, high, old, target, t, i)
           /\ high[target][t] < i <=>
                 Available(low, high, old, target, t, i) /\ ~AddedBy(low, high, old, target, t, i)
<1>1. Single(low, high, S, t, i)
  BY Zenon, TakesOnce
<1>2. ASSUME NEW b \in S, NEW c \in Chain(b), Takes(low, high, c, t, i)
      PROVE  i <= high[b][t]
  BY ZenonT(30), <1>1, <1>2 DEF Single
<1>3. ASSUME NEW b \in S, NEW c \in Chain(b), NEW d \in Chain(b), Takes(low, high, c, t, i), Takes(low, high, d, t, i)
      PROVE  c = d
  BY Zenon, <1>1, <1>3 DEF Single
<1>4. ASSUME NEW b \in S, i <= high[b][t]
      PROVE  \E c \in Chain(b) : Takes(low, high, c, t, i)
  BY Zenon, <1>1, <1>4 DEF Single
<1>5. \A b \in S : high[b][t] < i <=> ~(i <= high[b][t])
  BY Zenon, <1>1 DEF Single
<1> DEFINE available == \/ high[old][t] < i
                        \/ \E c \in PathFrom(old, target) : Takes(low, high, c, t, i)
           added == \E c \in PathFrom(target, old) : Takes(low, high, c, t, i)
<1>6. ASSUME added
      PROVE  available /\ ~(high[target][t] < i)
  <2>1. PICK c \in Chain(target) : c \notin Chain(old) /\ Takes(low, high, c, t, i)
    BY Zenon, <1>6 DEF PathFrom
  <2>2. ~(high[target][t] < i)
    BY <2>1, <1>2, <1>5
  <2>3. ASSUME NEW d \in Chain(old), Takes(low, high, d, t, i)
        PROVE  d \in PathFrom(old, target)
    BY Zenon, <2>1, <2>3, <1>3 DEF PathFrom
  <2> QED
    BY Zenon, <2>2, <2>3, <1>4, <1>5
<1>7. ASSUME high[target][t] < i
      PROVE  available
  <2>1. ASSUME NEW d \in Chain(old), Takes(low, high, d, t, i)
        PROVE  d \in PathFrom(old, target)
    BY <1>7, <2>1, <1>2, <1>5 DEF PathFrom
  <2> QED
    BY Zenon, <2>1, <1>4, <1>5
<1>8. ASSUME available, ~added
      PROVE  high[target][t] < i
  <2>1. SUFFICES ASSUME NEW c \in Chain(target), Takes(low, high, c, t, i) PROVE FALSE
    BY Zenon, <1>4, <1>5
  <2>2. c \in Chain(old)
    BY Zenon, <1>8, <2>1 DEF PathFrom
  <2>3. i <= high[old][t]
    BY Zenon, <2>1, <2>2, <1>2
  <2>4. PICK d \in Chain(old) : d \notin Chain(target) /\ Takes(low, high, d, t, i)
    BY <1>8, <2>3, <1>5 DEF PathFrom
  <2> QED
    BY Zenon, <2>1, <2>2, <2>4, <1>3
<1> QED
  BY <1>6, <1>7, <1>8 DEF Available, AddedBy

\* The IDs up to n have one increasing order.
OneOrder(n) ==
    \A S \in SUBSET (1..n) : \A r, s \in Seq(S) : InOrder(r, S) /\ InOrder(s, S) => r = s

\* The last of a set in order is its highest ID.
LEMMA InOrderLast ==
    ASSUME NEW n \in Nat, NEW S \in SUBSET (1..(n + 1)), n + 1 \in S, NEW s \in Seq(S), InOrder(s, S)
    PROVE  /\ Len(s) \in Nat \ {0} /\ s[Len(s)] = n + 1
           /\ SubSeq(s, 1, Len(s) - 1) \in Seq(S \ {n + 1})
           /\ InOrder(SubSeq(s, 1, Len(s) - 1), S \ {n + 1})
           /\ s = Append(SubSeq(s, 1, Len(s) - 1), n + 1)
<1> DEFINE L == Len(s)
           front == SubSeq(s, 1, L - 1)
           T == S \ {n + 1}
<1>1. /\ L \in Nat /\ DOMAIN s = 1..L /\ \A i \in 1..L : s[i] \in S /\ s[i] \in 1..(n + 1)
      /\ \A i, j \in 1..L : i < j => s[i] < s[j]
      /\ \A x \in S : \E i \in 1..L : s[i] = x
  <2>1. L \in Nat /\ DOMAIN s = 1..L /\ \A i \in 1..L : s[i] \in S
    OBVIOUS
  <2>2. (\A i, j \in DOMAIN s : i < j => s[i] < s[j]) /\ \A x \in S : \E i \in DOMAIN s : s[i] = x
    BY Zenon DEF InOrder, Range
  <2> HIDE DEF L
  <2> QED
    BY Zenon, <2>1, <2>2
<1>2. PICK p \in 1..L : s[p] = n + 1
  BY <1>1
<1>3. p = L
  <2>1. ASSUME p # L PROVE FALSE
    <3> HIDE DEF L
    <3>1. L \in Nat /\ p \in 1..L
      BY <1>1
    <3>2. L \in 1..L /\ p < L
      BY <2>1, <3>1
    <3>3. s[L] \in 1..(n + 1) /\ s[p] < s[L]
      BY <3>2, <1>1
    <3> QED
      BY <3>3, <1>2
  <2> QED
    BY <2>1
<1>4. L \in Nat \ {0} /\ s[L] = n + 1
  BY <1>1, <1>2, <1>3
<1>5. \A i \in 1..(L - 1) : i \in 1..L /\ s[i] \in T
  BY <1>1, <1>4
<1>6. front \in Seq(T) /\ Len(front) = L - 1 /\ \A i \in 1..(L - 1) : front[i] = s[i]
  <2>1. front \in Seq(S) /\ Len(front) = L - 1 /\ \A i \in 1..(L - 1) : front[i] = s[i]
    <3>1. s \in Seq(S) /\ L = Len(s)
      OBVIOUS
    <3> HIDE DEF L
    <3> QED
      BY <3>1, <1>4
  <2>2. front \in [1..(L - 1) -> T]
    <3>1. DOMAIN front = 1..(L - 1) /\ front = [i \in 1..(L - 1) |-> front[i]]
      BY <2>1
    <3> HIDE DEF front, T, L
    <3> QED
      BY Zenon, <3>1, <2>1, <1>5
  <2> HIDE DEF front, T, L
  <2> QED
    BY <2>1, <2>2, <1>4
<1>7. InOrder(front, T)
  <2>1. DOMAIN front = 1..(L - 1)
    BY <1>6, <1>4
  <2>2. \A x \in T : \E i \in 1..(L - 1) : s[i] = x
    <3> TAKE x \in T
    <3>1. PICK i \in 1..L : s[i] = x
      BY <1>1
    <3>2. i # L
      BY <3>1, <1>4
    <3> QED
      BY <3>1, <3>2, <1>4
  <2> HIDE DEF front, T, L
  <2>3. \A x \in T : \E i \in DOMAIN front : front[i] = x
    BY Zenon, <2>1, <2>2, <1>6
  <2>4. \A i \in DOMAIN front : front[i] \in T
    BY <2>1, <1>5, <1>6
  <2>5. Range(front) = T
    BY <2>3, <2>4 DEF Range
  <2>6. \A i, j \in DOMAIN front : i < j => front[i] < front[j]
    BY <2>1, <1>1, <1>5, <1>6
  <2> QED
    BY <2>5, <2>6 DEF InOrder
<1>8. s = Append(front, n + 1)
  <2> DEFINE a == Append(front, n + 1)
  <2>1. front \in Seq(S)
    BY <1>6
  <2>2. a \in Seq(S) /\ Len(a) = L /\ a[L] = n + 1 /\ \A i \in 1..(L - 1) : a[i] = s[i]
    <3> HIDE DEF front, T, L
    <3> QED
      BY <2>1, <1>4, <1>6
  <2>3. \A i \in 1..L : a[i] = s[i]
    BY <2>2, <1>4
  <2>4. s \in Seq(S) /\ Len(s) = L
    OBVIOUS
  <2> HIDE DEF a, L
  <2>5. a = s
    BY <2>2, <2>3, <2>4, <1>4
  <2> QED
    BY Zenon, <2>5 DEF a
<1> QED
  BY <1>4, <1>6, <1>7, <1>8

\* If no set of IDs up to n has two ascending orders, none up to n + 1 has.
LEMMA OneOrderGrows ==
    ASSUME NEW n \in Nat, OneOrder(n)
    PROVE  OneOrder(n + 1)
<1> SUFFICES ASSUME NEW S \in SUBSET (1..(n + 1)), NEW r \in Seq(S), NEW s \in Seq(S), InOrder(r, S), InOrder(s, S)
             PROVE  r = s
  BY DEF OneOrder
<1>1. CASE n + 1 \notin S
  <2>1. S \in SUBSET (1..n)
    BY <1>1
  <2> QED
    BY <2>1 DEF OneOrder
<1>2. CASE n + 1 \in S
  <2>1. S \ {n + 1} \in SUBSET (1..n)
    OBVIOUS
  <2>2. SubSeq(r, 1, Len(r) - 1) = SubSeq(s, 1, Len(s) - 1)
    BY Zenon, <1>2, <2>1, InOrderLast DEF OneOrder
  <2> QED
    BY Zenon, <1>2, <2>2, InOrderLast
<1> QED
  BY <1>1, <1>2

\* The empty set has no two ascending orders.
LEMMA OneOrderNone == OneOrder(0)
<1> SUFFICES ASSUME NEW S \in SUBSET (1..0), NEW r \in Seq(S), NEW s \in Seq(S)
             PROVE  r = s
  BY DEF OneOrder
<1>1. S = {}
  OBVIOUS
<1> QED
  BY <1>1

\* A part of a sequence, and what is in it.
IsSlice(r, S, s, l, h) ==
    /\ r \in Seq(S) /\ Len(r) = h - l
    /\ \A i \in 1..(h - l) : r[i] = s[l + i]
    /\ \A x : x \in Range(r) <=> \E i \in 1..Len(s) : l < i /\ i <= h /\ s[i] = x

\* The items of SubSeq(s, l + 1, h) are those at positions l + 1 to h.
LEMMA Slice ==
    ASSUME NEW S, NEW s \in Seq(S), NEW l \in Nat, NEW h \in Nat, l <= h, h <= Len(s)
    PROVE  IsSlice(SubSeq(s, l + 1, h), S, s, l, h)
<1> DEFINE r == SubSeq(s, l + 1, h)
<1>1. r \in Seq(S) /\ Len(r) = h - l /\ \A i \in 1..(h - l) : r[i] = s[l + i]
  OBVIOUS
<1>2. DOMAIN r = 1..(h - l) /\ Len(s) \in Nat
  BY <1>1
<1> HIDE DEF r
<1>3. ASSUME NEW x, x \in Range(r)
      PROVE  \E i \in 1..Len(s) : l < i /\ i <= h /\ s[i] = x
  <2>1. PICK j \in 1..(h - l) : r[j] = x
    BY <1>2, <1>3 DEF Range
  <2>2. l + j \in 1..Len(s) /\ l < l + j /\ l + j <= h /\ s[l + j] = x
    BY <2>1, <1>1, <1>2
  <2> QED
    BY Zenon, <2>2
<1>4. ASSUME NEW i \in 1..Len(s), l < i, i <= h
      PROVE  s[i] \in Range(r)
  <2>1. i - l \in 1..(h - l) /\ l + (i - l) = i
    BY <1>2, <1>4
  <2>2. r[i - l] = s[i]
    BY <2>1, <1>1
  <2> QED
    BY <2>1, <2>2, <1>2 DEF Range
<1>5. \A x : x \in Range(r) <=> \E i \in 1..Len(s) : l < i /\ i <= h /\ s[i] = x
  BY <1>3, <1>4
<1> QED
  BY Zenon, <1>1, <1>5 DEF IsSlice, r

\* The parts of a sequence below and above h when x is appended to it.
IsGrown(r, s, x, l, h) ==
    /\ SubSeq(r, l + 1, h) = SubSeq(s, l + 1, h)
    /\ SubSeq(r, h + 1, Len(s) + 1) = Append(SubSeq(s, h + 1, Len(s)), x)

\* Appending to a sequence extends its last part and keeps the others.
LEMMA SliceAppend ==
    ASSUME NEW S, NEW s \in Seq(S), NEW x \in S, NEW l \in Nat, NEW h \in Nat, l <= h, h <= Len(s)
    PROVE  IsGrown(Append(s, x), s, x, l, h)
<1> DEFINE n == Len(s)
           r == Append(s, x)
           a == SubSeq(s, l + 1, h)
           b == SubSeq(r, l + 1, h)
           c == SubSeq(s, h + 1, n)
           d == SubSeq(r, h + 1, n + 1)
           e == Append(c, x)
<1>1. n \in Nat /\ r \in Seq(S) /\ Len(r) = n + 1 /\ r[n + 1] = x /\ \A i \in 1..n : r[i] = s[i]
  OBVIOUS
<1>2. s \in Seq(S) /\ h <= n /\ n = Len(s) /\ n <= n /\ n + 1 <= Len(r) /\ h <= Len(r) /\ h <= n + 1 /\ n + 1 \in Nat
  BY <1>1
<1> HIDE DEF n, r
<1>3. IsSlice(a, S, s, l, h) /\ IsSlice(b, S, r, l, h) /\ IsSlice(c, S, s, h, n) /\ IsSlice(d, S, r, h, n + 1)
  BY Zenon, <1>1, <1>2, Slice
<1> HIDE DEF a, b, c, d
<1>4. a = b
  <2>1. \A i \in 1..(h - l) : l + i \in 1..n
    BY <1>1, <1>2
  <2>2. \A i \in 1..(h - l) : a[i] = b[i]
    BY <2>1, <1>1, <1>3 DEF IsSlice
  <2> QED
    BY <2>2, <1>3 DEF IsSlice
<1>5. c \in Seq(S) /\ Len(c) = n - h /\ \A i \in 1..(n - h) : c[i] = s[h + i]
  BY <1>3 DEF IsSlice
<1>6. e \in Seq(S) /\ Len(e) = (n - h) + 1 /\ e[(n - h) + 1] = x /\ \A i \in 1..(n - h) : e[i] = c[i]
  BY <1>1, <1>2, <1>5
<1>7. d \in Seq(S) /\ Len(d) = (n + 1) - h /\ \A i \in 1..((n + 1) - h) : d[i] = r[h + i]
  BY <1>3 DEF IsSlice
<1> HIDE DEF e
<1>8. d = e
  <2>1. (n - h) + 1 = (n + 1) - h /\ h + ((n + 1) - h) = n + 1 /\ (n + 1) - h \in Nat \ {0}
    BY <1>1, <1>2
  <2>2. ASSUME NEW i \in 1..(n - h)
        PROVE  d[i] = e[i]
    <3>1. h + i \in 1..n /\ i \in 1..((n + 1) - h)
      BY <1>1, <1>2
    <3> QED
      BY Zenon, <3>1, <1>1, <1>5, <1>6, <1>7
  <2>3. d[(n + 1) - h] = x
    BY <2>1, <1>1, <1>7
  <2>4. \A i \in 1..((n + 1) - h) : i \in 1..(n - h) \/ i = (n + 1) - h
    BY <1>1, <1>2
  <2>5. \A i \in 1..((n + 1) - h) : d[i] = e[i]
    BY Zenon, <2>1, <2>2, <2>3, <2>4, <1>6
  <2>6. Len(d) = Len(e) /\ \A i \in 1..Len(d) : d[i] = e[i]
    BY Zenon, <2>1, <2>5, <1>6, <1>7
  <2>7. d \in Seq(S) /\ e \in Seq(S)
    BY <1>6, <1>7
  <2> QED
    BY <2>6, <2>7
<1> QED
  BY Zenon, <1>4, <1>8 DEF a, b, c, d, e, n, r, IsGrown

\* The first k of what follows the first l, and the others.
IsSplit(r, s, l, k) ==
    /\ Len(r) = Len(s) - l
    /\ SubSeq(r, 1, k) = SubSeq(s, l + 1, l + k)
    /\ SubSeq(r, k + 1, Len(r)) = SubSeq(s, (l + k) + 1, Len(s))

\* Cutting the remaining part of a sequence once more gives two parts of it.
LEMMA SliceOfSlice ==
    ASSUME NEW S, NEW s \in Seq(S), NEW l \in Nat, l <= Len(s), NEW k \in 0..(Len(s) - l)
    PROVE  IsSplit(SubSeq(s, l + 1, Len(s)), s, l, k)
<1> DEFINE r == SubSeq(s, l + 1, Len(s))
           a == SubSeq(r, 1, k)
           b == SubSeq(s, l + 1, l + k)
           c == SubSeq(r, k + 1, Len(r))
           d == SubSeq(s, (l + k) + 1, Len(s))
           n == Len(s)
<1>1. n \in Nat /\ k \in Nat /\ l + k \in Nat /\ l + k <= n /\ k <= n - l
  OBVIOUS
<1>2. r \in Seq(S) /\ Len(r) = n - l /\ \A i \in 1..(n - l) : r[i] = s[l + i]
  BY <1>1
<1>3. b \in Seq(S) /\ Len(b) = k /\ \A i \in 1..k : b[i] = s[l + i]
  BY <1>1
<1>4. d \in Seq(S) /\ Len(d) = n - (l + k) /\ \A i \in 1..(n - (l + k)) : d[i] = s[(l + k) + i]
  BY <1>1
<1> HIDE DEF r, n, b, d
<1>5. a \in Seq(S) /\ Len(a) = k /\ \A i \in 1..k : a[i] = r[i]
  BY <1>1, <1>2
<1>6. c \in Seq(S) /\ Len(c) = (n - l) - k /\ \A i \in 1..((n - l) - k) : c[i] = r[k + i]
  BY <1>1, <1>2
<1> HIDE DEF a, c
<1>7. a = b
  <2>1. ASSUME NEW i \in 1..k
        PROVE  a[i] = b[i]
    <3>1. i \in 1..(n - l)
      BY <1>1
    <3>2. a[i] = r[i] /\ r[i] = s[l + i] /\ b[i] = s[l + i]
      BY Zenon, <3>1, <1>2, <1>3, <1>5
    <3> QED
      BY Zenon, <3>2
  <2> QED
    BY <2>1, <1>1, <1>3, <1>5
<1>8. c = d
  <2>1. (n - l) - k = n - (l + k)
    BY <1>1
  <2>2. ASSUME NEW i \in 1..(n - (l + k))
        PROVE  c[i] = d[i]
    <3>1. k + i \in 1..(n - l) /\ l + (k + i) = (l + k) + i
      BY <1>1
    <3> QED
      BY Zenon, <3>1, <2>1, <1>2, <1>4, <1>6
  <2>3. Len(c) = Len(d) /\ Len(d) \in Nat /\ c \in Seq(S) /\ d \in Seq(S)
    BY <2>1, <1>1, <1>4, <1>6
  <2>4. \A i \in 1..Len(d) : c[i] = d[i]
    BY Zenon, <2>2, <1>4
  <2> QED
    BY <2>3, <2>4
<1> QED
  BY Zenon, <1>2, <1>7, <1>8 DEF IsSplit, n, a, b, c, d, r

\* IDs up to n in increasing order.
Rising(s, n) ==
    /\ s \in Seq(1..n) /\ Len(s) <= n
    /\ \A i, j \in 1..Len(s) : i < j => s[i] < s[j]

\* An ascending sequence of IDs lists each of its IDs once, in order.
LEMMA RisingIs ==
    ASSUME NEW n \in Nat, NEW s, Rising(s, n)
    PROVE  /\ s \in Seq(1..n) /\ Len(s) \in Nat /\ Len(s) <= n /\ DOMAIN s = 1..Len(s)
           /\ \A i \in 1..Len(s) : s[i] \in 1..n
           /\ \A i, j \in 1..Len(s) : s[i] = s[j] => i = j
           /\ Range(s) \subseteq 1..n /\ InOrder(s, Range(s))
           /\ \A x : x \in Range(s) <=> \E i \in 1..Len(s) : s[i] = x
<1>1. s \in Seq(1..n) /\ Len(s) <= n /\ \A i, j \in 1..Len(s) : i < j => s[i] < s[j]
  BY DEF Rising
<1>2. Len(s) \in Nat /\ DOMAIN s = 1..Len(s) /\ \A i \in 1..Len(s) : s[i] \in 1..n
  BY <1>1
<1>3. \A i, j \in 1..Len(s) : s[i] = s[j] => i = j
  <2> SUFFICES ASSUME NEW i \in 1..Len(s), NEW j \in 1..Len(s), s[i] = s[j], i # j PROVE FALSE
    OBVIOUS
  <2>1. (i < j \/ j < i) /\ s[i] \in 1..n
    BY <1>2
  <2> QED
    BY <2>1, <1>1
<1>4. \A x : x \in Range(s) <=> \E i \in 1..Len(s) : s[i] = x
  BY <1>2 DEF Range
<1>5. Range(s) \subseteq 1..n
  BY <1>2, <1>4
<1>6. InOrder(s, Range(s))
  BY <1>1, <1>2 DEF InOrder
<1> QED
  BY <1>1, <1>2, <1>3, <1>4, <1>5, <1>6

\* Appending an ID greater than every other keeps a sequence ascending.
LEMMA RisingAppend ==
    ASSUME NEW n \in Nat, NEW s, Rising(s, n)
    PROVE  /\ Rising(s, n + 1) /\ Rising(Append(s, n + 1), n + 1)
           /\ Range(Append(s, n + 1)) = Range(s) \cup {n + 1}
           /\ Len(Append(s, n + 1)) = Len(s) + 1
<1> DEFINE r == Append(s, n + 1)
           L == Len(s)
<1>1. s \in Seq(1..n) /\ L \in Nat /\ L <= n /\ (\A i \in 1..L : s[i] \in 1..n)
      /\ (\A x : x \in Range(s) <=> \E i \in 1..L : s[i] = x)
  BY RisingIs
<1>2. \A i, j \in 1..L : i < j => s[i] < s[j]
  BY DEF Rising
<1>3. s \in Seq(1..(n + 1)) /\ n + 1 \in 1..(n + 1) /\ L <= n + 1 /\ L + 1 <= n + 1
  BY <1>1
<1>4. r \in Seq(1..(n + 1)) /\ Len(r) = L + 1 /\ r[L + 1] = n + 1 /\ (\A i \in 1..L : r[i] = s[i])
      /\ DOMAIN r = 1..(L + 1)
  BY <1>3
<1>5. Rising(s, n + 1)
  BY <1>2, <1>3 DEF Rising
<1> HIDE DEF r, L
<1>6. \A i \in 1..(L + 1) : i \in 1..L \/ i = L + 1
  BY <1>1
<1>7. L + 1 \in 1..(L + 1) /\ \A i \in 1..L : i \in 1..(L + 1)
  BY <1>1
<1>8. ASSUME NEW i \in 1..(L + 1), NEW j \in 1..(L + 1), i < j
      PROVE  r[i] < r[j]
  <2>1. i \in 1..L
    BY <1>1, <1>8
  <2>2. CASE j \in 1..L
    BY <2>1, <2>2, <1>2, <1>4, <1>8 DEF L
  <2>3. CASE j = L + 1
    <3>1. r[i] \in 1..n /\ r[j] = n + 1
      BY Zenon, <2>1, <2>3, <1>1, <1>4
    <3> QED
      BY <3>1
  <2> QED
    BY <2>2, <2>3, <1>6
<1>9. Rising(r, n + 1)
  BY <1>3, <1>4, <1>8 DEF Rising
<1>10. Range(r) = Range(s) \cup {n + 1}
  <2>1. \A x : x \in Range(r) <=> \E i \in 1..(L + 1) : r[i] = x
    BY <1>4 DEF Range
  <2>2. \A x : x \in Range(r) <=> x \in Range(s) \/ x = n + 1
    BY Zenon, <2>1, <1>1, <1>4, <1>6, <1>7
  <2> QED
    BY <2>2
<1> QED
  BY Zenon, <1>4, <1>5, <1>9, <1>10 DEF r, L

\* A part of them is in order, and holds the IDs of its positions.
IsPart(r, s, n, l, h) ==
    /\ Rising(r, n) /\ Range(r) \subseteq Range(s)
    /\ \A i \in 1..Len(s) : s[i] \in Range(r) <=> l < i /\ i <= h

\* A part of an ascending sequence is ascending, and holds the IDs of its positions.
LEMMA RisingPart ==
    ASSUME NEW n \in Nat, NEW s, Rising(s, n), NEW l \in Nat, NEW h \in Nat, l <= h, h <= Len(s)
    PROVE  IsPart(SubSeq(s, l + 1, h), s, n, l, h)
<1> DEFINE r == SubSeq(s, l + 1, h)
           L == Len(s)
<1>1. /\ s \in Seq(1..n) /\ L \in Nat /\ L <= n
      /\ (\A i, j \in 1..L : s[i] = s[j] => i = j) /\ (\A x : x \in Range(s) <=> \E i \in 1..L : s[i] = x)
  BY Zenon, RisingIs
<1>2. h <= L /\ \A i, j \in 1..L : i < j => s[i] < s[j]
  BY DEF Rising
<1>3. IsSlice(r, 1..n, s, l, h)
  BY Zenon, <1>1, Slice
<1> HIDE DEF r
<1>4. /\ r \in Seq(1..n) /\ Len(r) = h - l /\ (\A i \in 1..(h - l) : r[i] = s[l + i])
      /\ \A x : x \in Range(r) <=> \E i \in 1..L : l < i /\ i <= h /\ s[i] = x
  BY Zenon, <1>3 DEF IsSlice, L
<1> HIDE DEF L
<1>5. h - l <= n /\ \A i \in 1..(h - l) : l + i \in 1..L
  BY <1>1, <1>2
<1>6. \A i, j \in 1..(h - l) : i < j => l + i < l + j
  OBVIOUS
<1>7. \A i, j \in 1..(h - l) : i < j => r[i] < r[j]
  BY Zenon, <1>2, <1>4, <1>5, <1>6
<1>8. Rising(r, n)
  BY Zenon, <1>4, <1>5, <1>7 DEF Rising
<1>9. Range(r) \subseteq Range(s)
  BY <1>1, <1>4
<1>10. ASSUME NEW i \in 1..L
       PROVE  s[i] \in Range(r) <=> l < i /\ i <= h
  <2>1. ASSUME s[i] \in Range(r)
        PROVE  l < i /\ i <= h
    <3>1. PICK j \in 1..L : l < j /\ j <= h /\ s[j] = s[i]
      BY Zenon, <2>1, <1>4
    <3>2. j = i
      BY Zenon, <3>1, <1>1
    <3> QED
      BY Zenon, <3>1, <3>2
  <2>2. ASSUME l < i, i <= h
        PROVE  s[i] \in Range(r)
    BY Zenon, <2>2, <1>4
  <2> QED
    BY <2>1, <2>2
<1> QED
  BY Zenon, <1>8, <1>9, <1>10 DEF IsPart, r, L

\* Sorting the IDs of an ascending sequence gives that sequence back.
LEMMA SortedIs ==
    ASSUME NEW n \in Nat, OneOrder(n), NEW s, Rising(s, n)
    PROVE  Sorted(Range(s), n) = s
<1> DEFINE ids == Range(s)
           all == UNION {[1..k -> ids] : k \in 0..n}
           r == CHOOSE x \in all : InOrder(x, ids)
<1>1. /\ s \in Seq(1..n) /\ Len(s) \in Nat /\ Len(s) <= n /\ DOMAIN s = 1..Len(s)
      /\ ids \subseteq 1..n /\ InOrder(s, ids) /\ \A x : x \in ids <=> \E i \in 1..Len(s) : s[i] = x
  BY Zenon, RisingIs
<1>2. s \in [1..Len(s) -> ids] /\ Len(s) \in 0..n
  <2> HIDE DEF ids
  <2>1. s = [i \in 1..Len(s) |-> s[i]]
    BY <1>1
  <2> QED
    BY <2>1, <1>1
<1> HIDE DEF ids
<1>3. s \in all /\ s \in Seq(ids)
  BY <1>2
<1>4. r \in all /\ InOrder(r, ids)
  BY Zenon, <1>1, <1>3
<1> HIDE DEF r
<1>5. PICK k \in 0..n : r \in [1..k -> ids]
  BY <1>4
<1>6. r \in Seq(ids)
  BY <1>5
<1>7. r = s
  BY Zenon, <1>1, <1>3, <1>4, <1>6 DEF OneOrder
<1> QED
  BY Zenon, <1>7 DEF Sorted, ids, r

\* The requests issued so far, by type and in order.
Issued(order, next) ==
    /\ next \in Nat \ {0} /\ OneOrder(next - 1)
    /\ \A t \in RequestTypes : Rising(order[t], next - 1)
    /\ \A t, u \in RequestTypes : t # u => Range(order[t]) \cap Range(order[u]) = {}
    /\ \A id \in 1..(next - 1) : \E t \in RequestTypes : id \in Range(order[t])

\* The records of the blocks say what each consumed, and the FIFOs hold what
\* the chain of the head has left.
Booked(order, low, high, S, next, kv) ==
    /\ Issued(order, next) /\ Accounts(low, high, S)
    /\ \A b \in S :
          /\ <<"record", b>> \in DOMAIN kv
          /\ \A t \in RequestTypes :
                /\ high[b][t] <= Len(order[t])
                /\ kv[<<"record", b>>].controls[t] = SubSeq(order[t], low[b][t] + 1, high[b][t])

Queued(order, high, q, h) ==
    \A t \in RequestTypes : q.items[t] = SubSeq(order[t], high[h][t] + 1, Len(order[t]))

Ledger(S, q, kv, h) ==
    \E order, low, high : Booked(order, low, high, S, q.next, kv) /\ Queued(order, high, q, h)

SameRecords(kw, kv, S) ==
    \A b \in S : <<"record", b>> \in DOMAIN kv =>
        <<"record", b>> \in DOMAIN kw /\ kw[<<"record", b>>] = kv[<<"record", b>>]

\* The ledger depends on the store only through the records of its blocks.
LEMMA LedgerKept ==
    ASSUME NEW S, NEW q, NEW kv, NEW h, Ledger(S, q, kv, h), NEW kw, SameRecords(kw, kv, S)
    PROVE  Ledger(S, q, kw, h)
<1>1. PICK order, low, high : Booked(order, low, high, S, q.next, kv) /\ Queued(order, high, q, h)
  BY ZenonT(30) DEF Ledger
<1>2. Booked(order, low, high, S, q.next, kw)
  BY ZenonT(30), <1>1 DEF Booked, SameRecords
<1> QED
  BY Zenon, <1>1, <1>2 DEF Ledger

\* What the books say of a block and a type.
Entry(order, low, high, next, kv, b, t) ==
    /\ low[b][t] \in Nat /\ high[b][t] \in Nat /\ low[b][t] <= high[b][t] /\ high[b][t] <= Len(order[t])
    /\ order[t] \in Seq(1..(next - 1)) /\ Len(order[t]) \in Nat /\ next \in Nat \ {0}
    /\ kv[<<"record", b>>].controls[t] = SubSeq(order[t], low[b][t] + 1, high[b][t])

\* What the ledger says of one block and one request type.
LEMMA BookedIs ==
    ASSUME NEW order, NEW low, NEW high, NEW S, NEW next, NEW kv, Booked(order, low, high, S, next, kv),
           NEW b \in S, NEW t \in RequestTypes
    PROVE  Entry(order, low, high, next, kv, b, t)
<1>1. low[b][t] \in Nat /\ high[b][t] = low[b][t] + Count(b, t) /\ Count(b, t) \in Nat
  BY Zenon DEF Booked, Accounts
<1>2. order[t] \in Seq(1..(next - 1)) /\ next \in Nat \ {0}
  BY Zenon DEF Booked, Issued, Rising
<1>3. high[b][t] <= Len(order[t]) /\ kv[<<"record", b>>].controls[t] = SubSeq(order[t], low[b][t] + 1, high[b][t])
  BY Zenon DEF Booked
<1>4. high[b][t] \in Nat /\ low[b][t] <= high[b][t]
  BY <1>1
<1>5. Len(order[t]) \in Nat
  BY <1>2
<1> QED
  BY Zenon, <1>1, <1>2, <1>3, <1>4, <1>5 DEF Entry

\* A child whose record holds the requests after its parent's chain.
Takings(order, high, parent, header, kw, b) ==
    /\ <<"record", b>> \in DOMAIN kw
    /\ \A t \in RequestTypes :
          /\ header.controls[t] \in Nat /\ high[parent][t] + header.controls[t] <= Len(order[t])
          /\ kw[<<"record", b>>].controls[t] =
                SubSeq(order[t], high[parent][t] + 1, high[parent][t] + header.controls[t])

Taken(high2, high, parent, header, b) ==
    \A t \in RequestTypes : high2[b][t] = high[parent][t] + header.controls[t]

\* A stored block that takes the next requests in the order joins the ledger.
LEMMA BookChild ==
    ASSUME NEW S, Closed(S), NEW order, NEW low, NEW high, NEW next, NEW kv, Booked(order, low, high, S, next, kv),
           NEW parent \in S, NEW header, NEW b, ChildOf(b, parent, header),
           NEW kw, SameRecords(kw, kv, S \ {b}), Takings(order, high, parent, header, kw, b)
    PROVE  \E low2, high2 :
              /\ Booked(order, low2, high2, S \cup {b}, next, kw)
              /\ Agree(high2, high, S) /\ Taken(high2, high, parent, header, b)
<1>1. PICK low2, high2 : Accounts(low2, high2, S \cup {b}) /\ Agree(low2, low, S) /\ Agree(high2, high, S)
  <2>1. Accounts(low, high, S) /\ \A t \in RequestTypes : header.controls[t] \in Nat
    BY Zenon DEF Booked, Takings
  <2> QED
    BY ZenonT(30), <2>1, AccountsChild
<1>2. IsBlock(parent)
  BY SMTT(30) DEF Closed
<1>3. \A t \in RequestTypes : low2[b][t] = high[parent][t] /\ high2[b][t] = high[parent][t] + header.controls[t]
  <2>1. b # Genesis /\ Parent(b) = parent /\ LastHeader(b) = header
    BY SMTT(30), <1>2, Child
  <2>2. b \in S \cup {b} /\ high2[parent] = high[parent]
    BY ZenonT(30), <1>1 DEF Agree
  <2>3. \A t \in RequestTypes : Count(b, t) = header.controls[t]
    BY ZenonT(30), <2>1 DEF Count
  <2>4. \A t \in RequestTypes :
           /\ low2[b][t] = high2[Parent(b)][t]
           /\ high2[b][t] = low2[b][t] + Count(b, t)
    BY ZenonT(30), <1>1, <2>1, <2>2 DEF Accounts
  <2> QED
    BY Zenon, <2>1, <2>2, <2>3, <2>4
<1>4. ASSUME NEW c \in S \cup {b}
      PROVE  /\ <<"record", c>> \in DOMAIN kw
             /\ \A t \in RequestTypes :
                   /\ high2[c][t] <= Len(order[t])
                   /\ kw[<<"record", c>>].controls[t] = SubSeq(order[t], low2[c][t] + 1, high2[c][t])
  <2>1. CASE c = b
    BY ZenonT(30), <2>1, <1>3 DEF Takings
  <2>2. CASE c # b
    <3>1. c \in S \ {b} /\ low2[c] = low[c] /\ high2[c] = high[c]
      BY Zenon, <2>2, <1>1 DEF Agree
    <3>2. /\ <<"record", c>> \in DOMAIN kv
          /\ \A t \in RequestTypes :
                /\ high[c][t] <= Len(order[t])
                /\ kv[<<"record", c>>].controls[t] = SubSeq(order[t], low[c][t] + 1, high[c][t])
      BY Zenon, <3>1 DEF Booked
    <3>3. <<"record", c>> \in DOMAIN kw /\ kw[<<"record", c>>] = kv[<<"record", c>>]
      BY Zenon, <3>1, <3>2 DEF SameRecords
    <3> QED
      BY ZenonT(30), <3>1, <3>2, <3>3
  <2> QED
    BY ZenonT(30), <2>1, <2>2
<1>5. Booked(order, low2, high2, S \cup {b}, next, kw)
  BY ZenonT(30), <1>1, <1>4 DEF Booked
<1>6. Taken(high2, high, parent, header, b)
  BY ZenonT(30), <1>3 DEF Taken
<1> QED
  BY Zenon, <1>1, <1>5, <1>6

\* mineExecutionBlock and applyControl take the front of the FIFOs.
LEMMA LedgerHead ==
    ASSUME NEW S, Closed(S), NEW q, IsQueue(q), NEW kv, NEW h \in S, Ledger(S, q, kv, h), NEW slot \in Nat,
           NEW header, header.controls = Consumed(q, slot), NEW b, ChildOf(b, h, header),
           NEW kw, SameRecords(kw, kv, S \ {b}),
           <<"record", b>> \in DOMAIN kw, kw[<<"record", b>>].controls = Controls(q, slot)
    PROVE  Ledger(S \cup {b}, Remaining(q, slot), kw, b)
<1>1. PICK order, low, high : Booked(order, low, high, S, q.next, kv) /\ Queued(order, high, q, h)
  BY ZenonT(30) DEF Ledger
<1> DEFINE k == Consumed(q, slot)
           r == Remaining(q, slot)
<1>2. ASSUME NEW t \in RequestTypes
      PROVE  /\ k[t] \in Nat /\ high[h][t] + k[t] <= Len(order[t])
             /\ Controls(q, slot)[t] = SubSeq(order[t], high[h][t] + 1, high[h][t] + k[t])
             /\ r.items[t] = SubSeq(order[t], (high[h][t] + k[t]) + 1, Len(order[t]))
  <2>1. q.items[t] = SubSeq(order[t], high[h][t] + 1, Len(order[t]))
    BY ZenonT(30), <1>1 DEF Queued
  <2>2. high[h][t] \in Nat /\ high[h][t] <= Len(order[t]) /\ Len(order[t]) \in Nat /\ order[t] \in Seq(1..(q.next - 1))
    <3>1. Entry(order, low, high, q.next, kv, h, t)
      BY Zenon, <1>1, BookedIs
    <3> QED
      BY Zenon, <3>1 DEF Entry
  <2>3. k[t] \in 0..Len(q.items[t])
    BY SMTT(30), ConsumedIs
  <2>4. Len(q.items[t]) = Len(order[t]) - high[h][t]
    <3>1. 0 \in 0..(Len(order[t]) - high[h][t])
      BY SMTT(30), <2>2
    <3>2. IsSplit(q.items[t], order[t], high[h][t], 0)
      BY Zenon, <2>1, <2>2, <3>1, SliceOfSlice
    <3> QED
      BY ZenonT(30), <3>2 DEF IsSplit
  <2>5. Controls(q, slot)[t] = SubSeq(q.items[t], 1, k[t])
    BY Zenon DEF Controls
  <2>6. r.items[t] = SubSeq(q.items[t], k[t] + 1, Len(q.items[t]))
    BY Zenon DEF Remaining, IsQueue
  <2> HIDE DEF k, r
  <2>7. /\ SubSeq(q.items[t], 1, k[t]) = SubSeq(order[t], high[h][t] + 1, high[h][t] + k[t])
        /\ SubSeq(q.items[t], k[t] + 1, Len(q.items[t])) = SubSeq(order[t], (high[h][t] + k[t]) + 1, Len(order[t]))
    <3>1. k[t] \in 0..(Len(order[t]) - high[h][t])
      BY SMTT(30), <2>3, <2>4
    <3>2. IsSplit(q.items[t], order[t], high[h][t], k[t])
      BY Zenon, <2>1, <2>2, <3>1, SliceOfSlice
    <3> QED
      BY ZenonT(30), <3>2 DEF IsSplit
  <2>8. k[t] \in Nat /\ high[h][t] + k[t] <= Len(order[t])
    <3> DEFINE x == k[t]
               y == high[h][t]
               n == Len(order[t])
    <3>1. x \in 0..(n - y) /\ y \in Nat /\ n \in Nat
      BY ZenonT(30), <2>2, <2>3, <2>4
    <3> HIDE DEF x, y, n
    <3>2. x \in Nat /\ y + x <= n
      BY SMTT(30), <3>1
    <3> QED
      BY ZenonT(30), <3>2 DEF x, y, n
  <2> QED
    BY ZenonT(30), <2>5, <2>6, <2>7, <2>8
<1>3. r.next = q.next
  BY ZenonT(30), RemainingIs
<1> HIDE DEF k, r
<1>4. header.controls = k
  BY ZenonT(30) DEF k
<1>5. Takings(order, high, h, header, kw, b)
  BY Zenon, <1>2, <1>4 DEF Takings
<1>6. PICK low2, high2 : /\ Booked(order, low2, high2, S \cup {b}, q.next, kw)
                         /\ Taken(high2, high, h, header, b)
  BY ZenonT(30), <1>1, <1>5, BookChild
<1>7. Queued(order, high2, r, b)
  BY Zenon, <1>2, <1>4, <1>6 DEF Queued, Taken
<1>8. Ledger(S \cup {b}, r, kw, b)
  BY Zenon, <1>3, <1>6, <1>7 DEF Ledger
<1> QED
  BY Zenon, <1>8 DEF r

\* Taking none from a sequence leaves what was taken as it was.
LEMMA NoneTaken ==
    ASSUME NEW D, NEW s \in Seq(D), NEW k \in Nat, k <= Len(s)
    PROVE  k + 0 = k /\ k + 0 <= Len(s) /\ SubSeq(s, k + 1, k + 0) = <<>>
  OBVIOUS

\* MineBranch takes none.
LEMMA LedgerBranch ==
    ASSUME NEW S, Closed(S), NEW q, NEW kv, NEW h \in S, Ledger(S, q, kv, h),
           NEW parent \in S, NEW header, header.controls = NoRequests, NEW b, ChildOf(b, parent, header),
           NEW kw, SameRecords(kw, kv, S \ {b}),
           <<"record", b>> \in DOMAIN kw, kw[<<"record", b>>].controls = EmptyQueue.items
    PROVE  Ledger(S \cup {b}, q, kw, h)
<1>1. PICK order, low, high : Booked(order, low, high, S, q.next, kv) /\ Queued(order, high, q, h)
  BY ZenonT(30) DEF Ledger
<1>2. ASSUME NEW t \in RequestTypes
      PROVE  /\ header.controls[t] = 0 /\ high[parent][t] + 0 <= Len(order[t])
             /\ kw[<<"record", b>>].controls[t] = SubSeq(order[t], high[parent][t] + 1, high[parent][t] + 0)
  <2>1. Entry(order, low, high, q.next, kv, parent, t)
    BY Zenon, <1>1, BookedIs
  <2>2. header.controls[t] = 0 /\ kw[<<"record", b>>].controls[t] = <<>>
    BY SMTT(30) DEF NoRequests, EmptyQueue
  <2>3. high[parent][t] \in Nat /\ high[parent][t] <= Len(order[t]) /\ order[t] \in Seq(1..(q.next - 1))
    BY Zenon, <2>1 DEF Entry
  <2>4. /\ high[parent][t] + 0 <= Len(order[t])
        /\ SubSeq(order[t], high[parent][t] + 1, high[parent][t] + 0) = <<>>
    BY Zenon, <2>3, NoneTaken
  <2> QED
    BY Zenon, <2>2, <2>3, <2>4
<1>3. Takings(order, high, parent, header, kw, b)
  BY <1>2 DEF Takings
<1>4. PICK low2, high2 : Booked(order, low2, high2, S \cup {b}, q.next, kw) /\ Agree(high2, high, S)
  BY ZenonT(30), <1>1, <1>3, BookChild
<1>5. Queued(order, high2, q, h)
  BY Zenon, <1>1, <1>4 DEF Queued, Agree
<1> QED
  BY Zenon, <1>4, <1>5 DEF Ledger

\* addExecutionRequest issues the next ID.
LEMMA LedgerEnqueue ==
    ASSUME NEW S, NEW q, IsQueue(q), NEW kv, NEW h \in S, Ledger(S, q, kv, h), NEW u \in RequestTypes
    PROVE  Ledger(S, Enqueue(q, u), kv, h)
<1>1. PICK order, low, high : Booked(order, low, high, S, q.next, kv) /\ Queued(order, high, q, h)
  BY Zenon DEF Ledger
<1> DEFINE x == q.next
           n == x - 1
           order2 == [t \in RequestTypes |-> IF t = u THEN Append(order[u], x) ELSE order[t]]
           e == Enqueue(q, u)
<1>2. /\ Issued(order, x) /\ n \in Nat /\ n + 1 = x /\ (x + 1) - 1 = x /\ x \in Nat \ {0} /\ x + 1 \in Nat \ {0}
      /\ 1..x = 1..n \cup {x}
  <2>1. Issued(order, x)
    BY Zenon, <1>1 DEF Booked
  <2>2. x \in Nat \ {0}
    BY Zenon, <2>1 DEF Issued
  <2> QED
    BY <2>1, <2>2
<1>3. /\ e.next = x + 1
      /\ \A t \in RequestTypes : e.items[t] = IF t = u THEN Append(q.items[u], x) ELSE q.items[t]
  BY DEF Enqueue, IsQueue
<1>4. order2[u] = Append(order[u], x) /\ \A t \in RequestTypes : t # u => order2[t] = order[t]
  OBVIOUS
<1> HIDE DEF n, order2, e
<1>5. /\ OneOrder(n) /\ \A t \in RequestTypes : Rising(order[t], n)
      /\ \A t, v \in RequestTypes : t # v => Range(order[t]) \cap Range(order[v]) = {}
      /\ \A id \in 1..n : \E t \in RequestTypes : id \in Range(order[t])
  BY Zenon, <1>2 DEF Issued, n
<1> HIDE DEF x
<1>6. OneOrder(x)
  BY <1>2, <1>5, OneOrderGrows
<1>7. /\ \A t \in RequestTypes : Rising(order[t], x) /\ Range(order[t]) \subseteq 1..n /\ x \notin Range(order[t])
      /\ Rising(order2[u], x) /\ Range(order2[u]) = Range(order[u]) \cup {x} /\ Len(order2[u]) = Len(order[u]) + 1
  <2>1. \A t \in RequestTypes : Rising(order[t], n + 1) /\ Range(order[t]) \subseteq 1..n
    BY Zenon, <1>2, <1>5, RisingIs, RisingAppend
  <2>2. /\ Rising(Append(order[u], n + 1), n + 1) /\ Range(Append(order[u], n + 1)) = Range(order[u]) \cup {n + 1}
        /\ Len(Append(order[u], n + 1)) = Len(order[u]) + 1
    BY Zenon, <1>2, <1>5, RisingAppend
  <2>3. x \notin 1..n
    BY <1>2
  <2>4. \A t \in RequestTypes : x \notin Range(order[t])
    BY Zenon, <2>1, <2>3
  <2>5. x = n + 1 /\ order2[u] = Append(order[u], n + 1)
    BY Zenon, <1>2, <1>4
  <2> QED
    BY Zenon, <2>1, <2>2, <2>4, <2>5
<1>8. Issued(order2, x + 1)
  <2>1. \A t \in RequestTypes : Rising(order2[t], x)
    BY Zenon, <1>4, <1>7
  <2>2. ASSUME NEW t \in RequestTypes, NEW v \in RequestTypes, t # v
        PROVE  Range(order2[t]) \cap Range(order2[v]) = {}
    <3>1. Range(order[t]) \cap Range(order[v]) = {} /\ x \notin Range(order[t]) /\ x \notin Range(order[v])
      BY <2>2, <1>5, <1>7
    <3>2. \A w \in {t, v} : Range(order2[w]) = IF w = u THEN Range(order[w]) \cup {x} ELSE Range(order[w])
      BY Zenon, <1>4, <1>7
    <3> QED
      BY Zenon, <2>2, <3>1, <3>2
  <2>3. ASSUME NEW id \in 1..x
        PROVE  \E t \in RequestTypes : id \in Range(order2[t])
    <3>1. CASE id = x
      BY <3>1, <1>7
    <3>2. CASE id # x
      <4>1. PICK t \in RequestTypes : id \in Range(order[t])
        BY <3>2, <1>2, <1>5
      <4>2. id \in Range(order2[t])
        BY Zenon, <4>1, <1>4, <1>7
      <4> QED
        BY <4>2
    <3> QED
      BY Zenon, <3>1, <3>2
  <2> QED
    BY Zenon, <2>1, <2>2, <2>3, <1>2, <1>6 DEF Issued
<1>9. ASSUME NEW l \in Nat, NEW k \in Nat, l <= k, k <= Len(order[u])
      PROVE  k <= Len(order2[u]) /\ IsGrown(order2[u], order[u], x, l, k)
  <2>1. order[u] \in Seq(1..x) /\ x \in 1..x /\ Len(order[u]) \in Nat
    BY Zenon, <1>2, <1>7, RisingIs
  <2>2. k <= Len(order2[u])
    BY <2>1, <1>7, <1>9
  <2>3. IsGrown(Append(order[u], x), order[u], x, l, k)
    BY Zenon, <2>1, <1>9, SliceAppend
  <2> QED
    BY Zenon, <2>2, <2>3, <1>4
<1>10. ASSUME NEW b \in S, NEW t \in RequestTypes
       PROVE  /\ high[b][t] <= Len(order2[t])
              /\ kv[<<"record", b>>].controls[t] = SubSeq(order2[t], low[b][t] + 1, high[b][t])
  <2> DEFINE l == low[b][t]
             k == high[b][t]
  <2>1. Entry(order, low, high, x, kv, b, t)
    BY ZenonT(30), <1>1, BookedIs DEF x
  <2>2. /\ l \in Nat /\ k \in Nat /\ l <= k /\ k <= Len(order[t])
        /\ kv[<<"record", b>>].controls[t] = SubSeq(order[t], l + 1, k)
    BY Zenon, <2>1 DEF Entry
  <2> HIDE DEF l, k
  <2>3. k <= Len(order2[t]) /\ kv[<<"record", b>>].controls[t] = SubSeq(order2[t], l + 1, k)
    <3>1. CASE t = u
      BY Zenon, <3>1, <2>2, <1>9 DEF IsGrown
    <3>2. CASE t # u
      BY Zenon, <3>2, <2>2, <1>4
    <3> QED
      BY Zenon, <3>1, <3>2
  <2> QED
    BY <2>3 DEF l, k
<1>11. Booked(order2, low, high, S, x + 1, kv)
  BY Zenon, <1>1, <1>8, <1>10 DEF Booked
<1>12. ASSUME NEW t \in RequestTypes
       PROVE  e.items[t] = SubSeq(order2[t], high[h][t] + 1, Len(order2[t]))
  <2>1. Entry(order, low, high, x, kv, h, t) /\ q.items[t] = SubSeq(order[t], high[h][t] + 1, Len(order[t]))
    BY ZenonT(30), <1>1, BookedIs DEF x, Queued
  <2> DEFINE k == high[h][t]
  <2>2. k \in Nat /\ k <= Len(order[t]) /\ q.items[t] = SubSeq(order[t], k + 1, Len(order[t]))
    BY Zenon, <2>1 DEF Entry
  <2> HIDE DEF k
  <2>4. k <= k
    BY <2>2
  <2>3. e.items[t] = SubSeq(order2[t], k + 1, Len(order2[t]))
    <3>1. CASE t = u
      BY Zenon, <3>1, <2>2, <2>4, <1>3, <1>7, <1>9 DEF IsGrown
    <3>2. CASE t # u
      BY Zenon, <3>2, <2>2, <1>3, <1>4
    <3> QED
      BY <3>1, <3>2
  <2> QED
    BY <2>3 DEF k
<1>13. Queued(order2, high, e, h)
  BY Zenon, <1>12 DEF Queued
<1>14. Ledger(S, e, kv, h)
  BY Zenon, <1>3, <1>11, <1>13 DEF Ledger
<1> QED
  BY <1>14 DEF e

\* Which positions of a type's order a block's record and the FIFO hold.
Positions(order, low, high, S, q, kv, h, t) ==
    /\ \A b \in S :
          /\ IDs(kv[<<"record", b>>].controls, t) \subseteq Range(order[t])
          /\ \A i \in 1..Len(order[t]) :
                order[t][i] \in IDs(kv[<<"record", b>>].controls, t) <=> Takes(low, high, b, t, i)
    /\ IDs(q.items, t) \subseteq Range(order[t])
    /\ \A i \in 1..Len(order[t]) : order[t][i] \in IDs(q.items, t) <=> high[h][t] < i

\* Where the queue and the records of one request type lie in the accepted order.
LEMMA LedgerPositions ==
    ASSUME NEW order, NEW low, NEW high, NEW S, NEW q, NEW kv, Booked(order, low, high, S, q.next, kv),
           NEW h \in S, Queued(order, high, q, h), NEW t \in RequestTypes
    PROVE  Positions(order, low, high, S, q, kv, h, t)
<1> DEFINE s == order[t]
           n == q.next - 1
           L == Len(s)
<1>1. Rising(s, n) /\ n \in Nat
  <2>1. Issued(order, q.next)
    BY Zenon DEF Booked
  <2>2. Rising(s, n) /\ q.next \in Nat \ {0}
    BY Zenon, <2>1 DEF Issued
  <2> QED
    BY <2>2
<1>2. L \in Nat
  BY Zenon, <1>1, RisingIs
<1> HIDE DEF n
<1>3. ASSUME NEW b \in S
      PROVE  /\ IDs(kv[<<"record", b>>].controls, t) \subseteq Range(s)
             /\ \A i \in 1..L : s[i] \in IDs(kv[<<"record", b>>].controls, t) <=> Takes(low, high, b, t, i)
  <2> DEFINE l == low[b][t]
             k == high[b][t]
  <2>1. Entry(order, low, high, q.next, kv, b, t)
    BY Zenon, BookedIs
  <2>2. l \in Nat /\ k \in Nat /\ l <= k /\ k <= L /\ kv[<<"record", b>>].controls[t] = SubSeq(s, l + 1, k)
    BY Zenon, <2>1 DEF Entry
  <2>3. IsPart(SubSeq(s, l + 1, k), s, n, l, k)
    BY Zenon, <1>1, <2>2, RisingPart
  <2> QED
    BY Zenon, <2>2, <2>3 DEF IsPart, IDs, Takes
<1>4. IDs(q.items, t) \subseteq Range(s) /\ \A i \in 1..L : s[i] \in IDs(q.items, t) <=> high[h][t] < i
  <2> DEFINE k == high[h][t]
  <2>1. Entry(order, low, high, q.next, kv, h, t)
    BY Zenon, BookedIs
  <2>2. k \in Nat /\ k <= L
    BY Zenon, <2>1 DEF Entry
  <2>3. q.items[t] = SubSeq(s, k + 1, L)
    BY Zenon DEF Queued
  <2> HIDE DEF L, k
  <2>4. L <= L
    BY <1>2
  <2>5. IsPart(SubSeq(s, k + 1, L), s, n, k, L)
    BY Zenon, <1>1, <1>2, <2>2, <2>4, RisingPart DEF L
  <2>6. \A i \in 1..L : i <= L
    BY <1>2
  <2>7. IDs(q.items, t) \subseteq Range(s) /\ \A i \in 1..L : s[i] \in IDs(q.items, t) <=> k < i
    BY Zenon, <2>3, <2>5, <2>6 DEF IsPart, IDs, L
  <2> QED
    BY Zenon, <2>7 DEF k
<1> QED
  BY Zenon, <1>3, <1>4 DEF Positions

\* The switch of one type: what reconcileExecutionRequestQueue makes available,
\* takes and leaves.
Reconciled(order, high, target, available, added, t) ==
    /\ available \subseteq Range(order[t]) /\ added \subseteq available
    /\ available \ added = Range(SubSeq(order[t], high[target][t] + 1, Len(order[t])))

\* For one request type, the IDs reconcileRequestsForSwitch collects and drops
\* are parts of the accepted order.
LEMMA ReconcileType ==
    ASSUME NEW S, Closed(S), NEW q, NEW kv, NEW order, NEW low, NEW high, Booked(order, low, high, S, q.next, kv),
           NEW old \in S, NEW target \in S, Queued(order, high, q, old), NEW t \in RequestTypes
    PROVE  Reconciled(order, high, target, IDs(q.items, t) \cup RecordedIDs(kv, PathFrom(old, target), t),
                      RecordedIDs(kv, PathFrom(target, old), t), t)
<1> DEFINE s == order[t]
           n == q.next - 1
           L == Len(s)
           A == IDs(q.items, t) \cup RecordedIDs(kv, PathFrom(old, target), t)
           D == RecordedIDs(kv, PathFrom(target, old), t)
           k == high[target][t]
           r == SubSeq(s, k + 1, L)
<1>1. Accounts(low, high, S) /\ Issued(order, q.next)
  BY Zenon DEF Booked
<1>2. Rising(s, n) /\ n \in Nat
  <2>1. Rising(s, n) /\ q.next \in Nat \ {0}
    BY Zenon, <1>1 DEF Issued
  <2> QED
    BY <2>1
<1>3. L \in Nat /\ \A x : x \in Range(s) <=> \E i \in 1..L : s[i] = x
  BY Zenon, <1>2, RisingIs
<1>4. Positions(order, low, high, S, q, kv, old, t)
  BY Zenon, LedgerPositions
<1>5. PathFrom(old, target) \subseteq S /\ PathFrom(target, old) \subseteq S
  BY DEF PathFrom, Closed
<1>6. IsPart(r, s, n, k, L)
  <2>1. Entry(order, low, high, q.next, kv, target, t)
    BY Zenon, BookedIs
  <2>2. k \in Nat /\ k <= L
    BY Zenon, <2>1 DEF Entry
  <2>3. L <= L
    BY <1>3
  <2> QED
    BY Zenon, <1>2, <1>3, <2>2, <2>3, RisingPart
<1>7. A \subseteq Range(s) /\ D \subseteq Range(s)
  BY ZenonT(30), <1>4, <1>5 DEF Positions, RecordedIDs
<1>8. ASSUME NEW i \in 1..L
      PROVE  /\ s[i] \in A <=> Available(low, high, old, target, t, i)
             /\ s[i] \in D <=> AddedBy(low, high, old, target, t, i)
             /\ s[i] \in Range(r) <=> k < i
             /\ i \in Nat \ {0}
  <2>1. i <= L /\ i \in Nat \ {0}
    BY <1>3
  <2>2. s[i] \in Range(r) <=> k < i
    BY ZenonT(30), <2>1, <1>6 DEF IsPart
  <2>3. \A path \in SUBSET S :
            s[i] \in RecordedIDs(kv, path, t) <=> \E c \in path : Takes(low, high, c, t, i)
    BY Zenon, <1>4 DEF Positions, RecordedIDs
  <2>4. s[i] \in IDs(q.items, t) <=> high[old][t] < i
    BY Zenon, <1>4 DEF Positions
  <2> QED
    BY Zenon, <2>1, <2>2, <2>3, <2>4, <1>5 DEF Available, AddedBy
<1>9. ASSUME NEW i \in 1..L
      PROVE  (s[i] \in D => s[i] \in A) /\ (s[i] \in Range(r) <=> s[i] \in A /\ s[i] \notin D)
  BY Zenon, <1>1, <1>8, SwitchAccounts
<1>10. Range(r) \subseteq Range(s)
  BY Zenon, <1>6 DEF IsPart
<1> HIDE DEF s, L, A, D, k, r
<1>11. D \subseteq A /\ A \ D = Range(r)
  BY Zenon, <1>3, <1>7, <1>9, <1>10
<1> QED
  BY Zenon, <1>7, <1>11 DEF Reconciled, s, L, A, D, k, r

\* reconcileExecutionRequestQueue accepts the switch to any block of the ledger,
\* and leaves the requests after those of its chain.
LEMMA LedgerSwitch ==
    ASSUME NEW S, Closed(S), NEW q, IsQueue(q), NEW kv, NEW old \in S, Ledger(S, q, kv, old), NEW target \in S
    PROVE  /\ ReconcileAccepts(q, kv, PathFrom(old, target), PathFrom(target, old))
           /\ IsQueue(Reconcile(q, kv, PathFrom(old, target), PathFrom(target, old)))
           /\ Ledger(S, Reconcile(q, kv, PathFrom(old, target), PathFrom(target, old)), kv, target)
<1>1. PICK order, low, high : Booked(order, low, high, S, q.next, kv) /\ Queued(order, high, q, old)
  BY Zenon DEF Ledger
<1> DEFINE back == PathFrom(old, target)
           fore == PathFrom(target, old)
           n == q.next - 1
           A(t) == IDs(q.items, t) \cup RecordedIDs(kv, back, t)
           D(t) == RecordedIDs(kv, fore, t)
           rest(t) == SubSeq(order[t], high[target][t] + 1, Len(order[t]))
           r == Reconcile(q, kv, back, fore)
<1>2. Accounts(low, high, S) /\ Issued(order, q.next)
  BY Zenon, <1>1 DEF Booked
<1>3. /\ OneOrder(n) /\ q.next \in Nat \ {0} /\ \A t \in RequestTypes : Rising(order[t], n)
      /\ \A t, u \in RequestTypes : t # u => Range(order[t]) \cap Range(order[u]) = {}
  BY Zenon, <1>2 DEF Issued
<1>4. n \in Nat
  BY <1>3
<1>5. ASSUME NEW t \in RequestTypes
      PROVE  /\ A(t) \subseteq Range(order[t]) /\ D(t) \subseteq A(t)
             /\ Rising(rest(t), n) /\ Range(rest(t)) \subseteq Range(order[t])
             /\ Sorted(A(t) \ D(t), n) = rest(t)
  <2>1. Reconciled(order, high, target, A(t), D(t), t)
    BY Zenon, <1>1, ReconcileType
  <2>2. A(t) \subseteq Range(order[t]) /\ D(t) \subseteq A(t) /\ A(t) \ D(t) = Range(rest(t))
    BY Zenon, <2>1 DEF Reconciled
  <2>3. Entry(order, low, high, q.next, kv, target, t)
    BY Zenon, <1>1, BookedIs
  <2>4. high[target][t] \in Nat /\ high[target][t] <= Len(order[t]) /\ Len(order[t]) \in Nat
    BY ZenonT(30), <2>3 DEF Entry
  <2>5. Len(order[t]) <= Len(order[t])
    BY <2>4
  <2>6. IsPart(rest(t), order[t], n, high[target][t], Len(order[t]))
    BY Zenon, <1>3, <1>4, <2>4, <2>5, RisingPart
  <2>7. Rising(rest(t), n) /\ Range(rest(t)) \subseteq Range(order[t])
    BY Zenon, <2>6 DEF IsPart
  <2>8. Sorted(Range(rest(t)), n) = rest(t)
    BY ZenonT(30), <1>3, <1>4, <2>7, SortedIs
  <2> QED
    BY Zenon, <2>2, <2>7, <2>8
<1>6. r = [next |-> q.next, items |-> r.items] /\ r.items = [t \in RequestTypes |-> Sorted(A(t) \ D(t), n)]
  <2> DEFINE items == [t \in RequestTypes |-> Sorted(A(t) \ D(t), n)]
  <2>1. r = [q EXCEPT !.items = items]
    BY Zenon DEF Reconcile
  <2> HIDE DEF r, items
  <2>2. q = [next |-> q.next, items |-> q.items]
    BY Zenon DEF IsQueue
  <2>3. r = [next |-> q.next, items |-> items]
    BY <2>1, <2>2
  <2> QED
    BY <2>3 DEF items
<1>7. \A t \in RequestTypes : r.items[t] = rest(t)
  BY Zenon, <1>5, <1>6
<1>8. r.items = [t \in RequestTypes |-> r.items[t]]
  BY Zenon, <1>6
<1> HIDE DEF r, n
<1>9. ASSUME NEW t \in RequestTypes
      PROVE  /\ r.items[t] \in Seq(Nat \ {0}) /\ IsFIFO(r.items[t]) /\ IDs(r.items, t) \subseteq Range(order[t])
             /\ \A i, j \in DOMAIN r.items[t] : i < j => r.items[t][i] < r.items[t][j]
  <2> DEFINE s == r.items[t]
  <2>1. Rising(s, n) /\ Range(s) \subseteq Range(order[t])
    BY Zenon, <1>5, <1>7
  <2> HIDE DEF s
  <2>2. s \in Seq(1..n) /\ InOrder(s, Range(s))
    BY Zenon, <2>1, <1>4, RisingIs
  <2>3. s \in Seq(Nat \ {0}) /\ IsFIFO(s)
    BY <2>2, <1>4 DEF IsFIFO
  <2> QED
    BY Zenon, <2>1, <2>2, <2>3 DEF IDs, s, InOrder
<1>10. IsQueue(r)
  BY Zenon, <1>6, <1>8, <1>9 DEF IsQueue
<1>11. Ledger(S, r, kv, target)
  <2>1. r.next = q.next
    BY <1>6
  <2>2. Queued(order, high, r, target)
    BY ZenonT(30), <1>7 DEF Queued
  <2> QED
    BY Zenon, <1>1, <2>1, <2>2 DEF Ledger
<1>12. ValidControlSet(r.items)
  BY ZenonT(30), <1>3, <1>9 DEF ValidControlSet
<1>13. ASSUME NEW t \in RequestTypes, NEW b \in fore, NEW c \in fore, b # c
       PROVE  RecordedIDs(kv, {b}, t) \cap RecordedIDs(kv, {c}, t) = {}
  <2>1. b \in Chain(target) /\ c \in Chain(target) /\ b \in S /\ c \in S
    BY DEF PathFrom, Closed
  <2>2. Positions(order, low, high, S, q, kv, old, t)
    BY Zenon, <1>1, LedgerPositions
  <2>3. Len(order[t]) \in Nat /\ \A x : x \in Range(order[t]) <=> \E i \in 1..Len(order[t]) : order[t][i] = x
    BY Zenon, <1>3, <1>4, RisingIs
  <2>4. SUFFICES ASSUME NEW x \in IDs(kv[<<"record", b>>].controls, t), x \in IDs(kv[<<"record", c>>].controls, t)
                 PROVE  FALSE
    BY Zenon DEF RecordedIDs
  <2>5. PICK i \in 1..Len(order[t]) : order[t][i] = x
    BY Zenon, <2>1, <2>2, <2>3, <2>4 DEF Positions
  <2>6. Takes(low, high, b, t, i) /\ Takes(low, high, c, t, i)
    BY Zenon, <2>1, <2>2, <2>4, <2>5 DEF Positions
  <2>7. i \in Nat \ {0}
    BY <2>3
  <2>8. Single(low, high, S, t, i)
    BY Zenon, <2>7, <1>2, TakesOnce
  <2> QED
    BY Zenon, <2>1, <2>6, <2>8, <1>13 DEF Single
<1>14. ASSUME NEW t \in RequestTypes, NEW u \in RequestTypes, t # u
       PROVE  (A(t) \cup D(t)) \cap (A(u) \cup D(u)) = {}
  <2>1. A(t) \cup D(t) \subseteq Range(order[t]) /\ A(u) \cup D(u) \subseteq Range(order[u])
    BY Zenon, <1>5
  <2> HIDE DEF A, D
  <2> QED
    BY <2>1, <1>3, <1>14
<1>15. ReconcileAccepts(q, kv, back, fore)
  BY Zenon, <1>5, <1>12, <1>13, <1>14 DEF ReconcileAccepts, r
<1> QED
  BY <1>10, <1>11, <1>15 DEF r

\* What the ledger says of the requests (RequestsConserved).
LEMMA LedgerConserved ==
    ASSUME NEW S, Closed(S), NEW q, NEW kv, NEW h \in S, Ledger(S, q, kv, h)
    PROVE  LET consumed(b) == AllIDs(kv[<<"record", b>>].controls)
           IN /\ 1..(q.next - 1) = AllIDs(q.items) \cup UNION {consumed(b) : b \in Chain(h)}
              /\ \A b \in Chain(h) : consumed(b) \cap AllIDs(q.items) = {}
              /\ \A b, c \in Chain(h) : b # c => consumed(b) \cap consumed(c) = {}
<1>1. PICK order, low, high : Booked(order, low, high, S, q.next, kv) /\ Queued(order, high, q, h)
  BY Zenon DEF Ledger
<1> DEFINE n == q.next - 1
           P(t) == IDs(q.items, t)
           C(b, t) == IDs(kv[<<"record", b>>].controls, t)
<1>2. Accounts(low, high, S) /\ Issued(order, q.next)
  BY Zenon, <1>1 DEF Booked
<1>3. /\ q.next \in Nat \ {0} /\ \A t \in RequestTypes : Rising(order[t], n)
      /\ \A t, u \in RequestTypes : t # u => Range(order[t]) \cap Range(order[u]) = {}
      /\ \A id \in 1..n : \E t \in RequestTypes : id \in Range(order[t])
  BY Zenon, <1>2 DEF Issued
<1>4. n \in Nat /\ Chain(h) \subseteq S
  BY <1>3 DEF Closed
<1> HIDE DEF n
<1>5. ASSUME NEW t \in RequestTypes, NEW x \in Range(order[t])
      PROVE  /\ x \in 1..n
             /\ x \in P(t) \/ \E b \in Chain(h) : x \in C(b, t)
             /\ \A b \in Chain(h) : ~(x \in P(t) /\ x \in C(b, t))
             /\ \A b, c \in Chain(h) : x \in C(b, t) /\ x \in C(c, t) => b = c
  <2>1. /\ Len(order[t]) \in Nat /\ Range(order[t]) \subseteq 1..n
        /\ \A y : y \in Range(order[t]) <=> \E i \in 1..Len(order[t]) : order[t][i] = y
    BY Zenon, <1>3, <1>4, RisingIs
  <2>2. PICK i \in 1..Len(order[t]) : order[t][i] = x
    BY ZenonT(30), <2>1
  <2>3. i \in Nat \ {0}
    BY <2>1
  <2>4. Single(low, high, S, t, i)
    BY Zenon, <2>3, <1>2, TakesOnce
  <2>5. Positions(order, low, high, S, q, kv, h, t)
    BY Zenon, <1>1, LedgerPositions
  <2>6. (x \in P(t) <=> high[h][t] < i) /\ \A b \in Chain(h) : x \in C(b, t) <=> Takes(low, high, b, t, i)
    BY ZenonT(30), <2>2, <2>5, <1>4 DEF Positions
  <2>7. x \in 1..n
    BY <2>1
  <2> HIDE DEF P, C
  <2> QED
    BY Zenon, <2>4, <2>6, <2>7 DEF Single
<1>6. ASSUME NEW t \in RequestTypes
      PROVE  P(t) \subseteq Range(order[t]) /\ \A b \in Chain(h) : C(b, t) \subseteq Range(order[t])
  <2>1. Positions(order, low, high, S, q, kv, h, t)
    BY Zenon, <1>1, LedgerPositions
  <2> QED
    BY Zenon, <2>1, <1>4 DEF Positions
<1>7. \A x : x \in AllIDs(q.items) <=> \E t \in RequestTypes : x \in P(t)
  BY DEF AllIDs
<1> DEFINE consumed(b) == AllIDs(kv[<<"record", b>>].controls)
<1>8. \A b : \A x : x \in consumed(b) <=> \E t \in RequestTypes : x \in C(b, t)
  BY DEF AllIDs
<1> HIDE DEF P, C, consumed
<1>9. \A t, u \in RequestTypes : \A x : x \in Range(order[t]) /\ x \in Range(order[u]) => t = u
  BY Zenon, <1>3
<1>10. \A x : x \in 1..n <=> x \in AllIDs(q.items) \/ \E b \in Chain(h) : x \in consumed(b)
  BY SMTT(30), <1>3, <1>5, <1>6, <1>7, <1>8
<1>11. \A b \in Chain(h) : \A x : ~(x \in consumed(b) /\ x \in AllIDs(q.items))
  BY <1>5, <1>6, <1>7, <1>8, <1>9
<1>12. \A b, c \in Chain(h) : \A x : x \in consumed(b) /\ x \in consumed(c) => b = c
  BY <1>5, <1>6, <1>8, <1>9
<1>13. /\ 1..n = AllIDs(q.items) \cup UNION {consumed(b) : b \in Chain(h)}
       /\ \A b \in Chain(h) : consumed(b) \cap AllIDs(q.items) = {}
       /\ \A b, c \in Chain(h) : b # c => consumed(b) \cap consumed(c) = {}
  BY <1>10, <1>11, <1>12
<1> QED
  BY Zenon, <1>13 DEF consumed, n

\* initializeGenesis and a store without a queue: nothing is issued.
LEMMA LedgerFresh ==
    ASSUME NEW kv, <<"record", Genesis>> \in DOMAIN kv, kv[<<"record", Genesis>>].controls = EmptyQueue.items
    PROVE  Ledger({Genesis}, EmptyQueue, kv, Genesis)
<1> DEFINE order == [t \in RequestTypes |-> <<>>]
           none == [b \in {Genesis} |-> [t \in RequestTypes |-> 0]]
<1>1. EmptyQueue.next = 1 /\ \A t \in RequestTypes : EmptyQueue.items[t] = <<>>
  BY Zenon DEF EmptyQueue
<1>2. \A t \in RequestTypes : order[t] = <<>> /\ none[Genesis][t] = 0
  BY Zenon
<1> HIDE DEF order, none
<1>3. Issued(order, 1)
  <2>1. OneOrder(1 - 1) /\ 1 \in Nat \ {0} /\ 1..(1 - 1) = {}
    BY OneOrderNone
  <2>2. Rising(<<>>, 1 - 1) /\ Range(<<>>) = {}
    BY DEF Rising, Range
  <2> QED
    BY Zenon, <2>1, <2>2, <1>2 DEF Issued
<1>4. Accounts(none, none, {Genesis})
  <2>1. Chain(Genesis) = {Genesis}
    <3>1. 0..Number(Genesis) = {0}
      BY DEF Number, Genesis
    <3>2. AtNumber(Genesis, 0) = Genesis
      BY DEF AtNumber, Genesis
    <3> QED
      BY <3>1, <3>2 DEF Chain
  <2> QED
    BY <2>1, <1>2 DEF Accounts, Count, Takes
<1>5. SubSeq(<<>>, 0 + 1, 0) = <<>> /\ Len(<<>>) = 0
  OBVIOUS
<1>6. Booked(order, none, none, {Genesis}, 1, kv)
  <2>1. ASSUME NEW t \in RequestTypes
        PROVE  /\ none[Genesis][t] <= Len(order[t])
               /\ kv[<<"record", Genesis>>].controls[t] = SubSeq(order[t], none[Genesis][t] + 1, none[Genesis][t])
    <3>1. order[t] = <<>> /\ none[Genesis][t] = 0 /\ kv[<<"record", Genesis>>].controls[t] = <<>>
      BY Zenon, <1>1, <1>2
    <3> QED
      BY <3>1, <1>5
  <2> QED
    BY Zenon, <2>1, <1>3, <1>4 DEF Booked
<1>7. Queued(order, none, EmptyQueue, Genesis)
  BY Zenon, <1>1, <1>2, <1>5 DEF Queued
<1> QED
  BY Zenon, <1>1, <1>6, <1>7 DEF Ledger

=============================================================================
