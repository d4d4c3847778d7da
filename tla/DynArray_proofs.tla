-------------------------- MODULE DynArray_proofs --------------------------
(***************************************************************************)
(* Lists in memory, for any number of lists, any values and any initial    *)
(* capacities: no two lists share memory, each keeps its items through the *)
(* growth, the moves and the copies of the others, and memory that is no   *)
(* item of a list is touched by the calls that Inside names and no other.  *)
(***************************************************************************)
EXTENDS DynArray, SequenceTheorems, WellFoundedInduction, TLAPS

-----------------------------------------------------------------------------
(* Induction over the naturals, from the order on them being well-founded. *)

(* A set of naturals that is not empty has a least member. *)
LEMMA LeastNat ==
  ASSUME NEW T, T \subseteq Nat, T # {}
  PROVE  \E x \in T : \A y \in T : x <= y
<1> DEFINE R == {ss \in Nat \X Nat : ss[1] < ss[2]}
<1>1. IsWellFoundedOn(R, Nat)
  BY NatLessThanWellFounded DEF OpToRel
<1>2. \A x, y \in T : ~(x <= y) => <<y, x>> \in R
  OBVIOUS
<1> HIDE DEF R
<1>3. PICK x \in T : \A y \in T : <<y, x>> \notin R
  BY <1>1, WFMin
<1> QED
  BY <1>2, <1>3

(* What holds of 0 and of the next one of whatever it holds of, up to n. *)
LEMMA UpTo ==
  ASSUME NEW n \in Nat, NEW S, 0 \in S, \A k \in 0..n - 1 : k \in S => k + 1 \in S
  PROVE  0..n \subseteq S
<1> SUFFICES ASSUME (0..n) \ S # {} PROVE FALSE
  OBVIOUS
<1> DEFINE T == (0..n) \ S
<1>1. T \subseteq Nat /\ T # {}
  OBVIOUS
<1>2. PICK k \in T : \A y \in T : k <= y
  <2> HIDE DEF T
  <2> QED
    BY <1>1, LeastNat
<1>3. k # 0 /\ k - 1 \in 0..n - 1 /\ (k - 1) + 1 = k
  BY <1>2
<1>4. k - 1 \in S
  BY <1>2, <1>3
<1> QED
  BY <1>2, <1>3, <1>4

-----------------------------------------------------------------------------
(* Capacities.                                                             *)

(* The recursion that doubles has a solution. *)
LEMMA DoublingsFacts ==
  ASSUME NEW cap \in Nat, NEW n \in Nat
  PROVE  LET base == IF cap = 0 THEN CP_DA_INIT_CAP ELSE cap
         IN  Doublings(cap, n) = [turn \in 0..n |-> IF turn = 0 THEN base
                                                    ELSE 2 * Doublings(cap, n)[turn - 1]]
<1> DEFINE base == IF cap = 0 THEN CP_DA_INIT_CAP ELSE cap
           Solves(f, k) == f = [turn \in 0..k |-> IF turn = 0 THEN base ELSE 2 * f[turn - 1]]
           S == {k \in 0..n : \E f : Solves(f, k)}
<1> HIDE DEF base
<1>1. 0 \in S
  <2>1. Solves([turn \in 0..0 |-> base], 0)
    OBVIOUS
  <2> HIDE DEF Solves
  <2> QED
    BY <2>1
<1>2. ASSUME NEW k \in 0..n - 1, k \in S
      PROVE  k + 1 \in S
  <2>1. PICK f : Solves(f, k)
    BY <1>2
  <2> DEFINE g == [turn \in 0..k + 1 |-> IF turn = k + 1 THEN 2 * f[k] ELSE f[turn]]
  <2>2. Solves(g, k + 1)
    <3>1. ASSUME NEW turn \in 0..k + 1
          PROVE  g[turn] = IF turn = 0 THEN base ELSE 2 * g[turn - 1]
      <4>1. CASE turn = k + 1
        BY <4>1
      <4>2. CASE turn \in 0..k
        BY <2>1, <4>2
      <4> QED
        BY <4>1, <4>2
    <3> HIDE DEF g
    <3>2. g = [turn \in 0..k + 1 |-> g[turn]]
      BY DEF g
    <3> QED
      BY <3>1, <3>2
  <2> HIDE DEF Solves, g
  <2> QED
    BY <2>2
<1>3. \E f : Solves(f, n)
  <2>1. 0..n \subseteq S
    <3> HIDE DEF S
    <3> QED
      BY <1>1, <1>2, UpTo
  <2> QED
    BY <2>1
<1>4. Doublings(cap, n) = CHOOSE f : Solves(f, n)
  BY DEF Doublings, base
<1>5. Solves(Doublings(cap, n), n)
  <2> HIDE DEF Solves
  <2> QED
    BY <1>3, <1>4
<1> QED
  BY <1>5 DEF base

(* da_reserve finds a capacity that is enough. *)
LEMMA CapacityFacts ==
  ASSUME NEW cap \in Nat, NEW n \in Nat
  PROVE  /\ Capacity(cap, n) \in Nat /\ Capacity(cap, n) >= n
         /\ n <= cap => Capacity(cap, n) = cap
         /\ n > cap => Capacity(cap, n) > cap
<1> DEFINE caps == Doublings(cap, n)
<1>1. /\ caps[0] \in Nat /\ caps[0] >= 1
      /\ \A turn \in 1..n : caps[turn] = 2 * caps[turn - 1]
  <2> DEFINE base == IF cap = 0 THEN CP_DA_INIT_CAP ELSE cap
  <2>1. caps = [turn \in 0..n |-> IF turn = 0 THEN base ELSE 2 * caps[turn - 1]]
    BY DoublingsFacts
  <2>2. base \in Nat /\ base >= 1
    BY ListAssumption
  <2> HIDE DEF caps, base
  <2> QED
    BY <2>1, <2>2
<1> HIDE DEF caps
<1> DEFINE S == {turn \in 0..n : caps[turn] \in Nat /\ caps[turn] >= turn + 1}
           enough == {turn \in 0..n : n <= caps[turn]}
<1>2. 0..n \subseteq S
  <2>1. 0 \in S
    BY <1>1
  <2>2. ASSUME NEW k \in 0..n - 1, k \in S
        PROVE  k + 1 \in S
    <3>1. k + 1 \in 1..n /\ caps[k + 1] = 2 * caps[(k + 1) - 1] /\ (k + 1) - 1 = k
      BY <1>1
    <3> QED
      BY <2>2, <3>1
  <2> HIDE DEF S
  <2> QED
    BY <2>1, <2>2, UpTo
<1>3. enough \subseteq Nat /\ n \in enough
  BY <1>2
<1>4. Min(enough) \in enough
  <2> HIDE DEF enough
  <2>1. \E x \in enough : \A y \in enough : x <= y
    BY <1>3, LeastNat
  <2> QED
    BY <2>1 DEF Min
<1>5. n > cap => Capacity(cap, n) = caps[Min(enough)]
  BY DEF Capacity, Doubled, caps
<1> QED
  BY <1>2, <1>4, <1>5 DEF Capacity

-----------------------------------------------------------------------------
(* Blocks and arenas.                                                      *)

Cell == Value \cup {Junk}
Memories == {"A", "B"}
BlockType == UNION {[cap : {c}, count : 0..c, cells : [0..c - 1 -> Cell]] : c \in Nat}
Place == [mem : Memories, block : Nat, off : Nat] \cup {Nowhere}
ArenaType == [mem : Memories, blocks : Seq(BlockType), last : Nat, ptr : Place]

\* The blocks behind the one that is filled are empty, and what was given out
\* last is in the one that is filled.
ArenaOK(a) ==
  /\ a \in ArenaType /\ a.last \in 0..Len(a.blocks)
  /\ a.last = 0 => a.blocks = <<>>
  /\ \A b \in a.last + 1..Len(a.blocks) : a.blocks[b].count = 0
  /\ a.ptr # Nowhere => a.ptr.mem = a.mem /\ a.ptr.block = a.last

LEMMA BlockFacts ==
  ASSUME NEW b \in BlockType
  PROVE  /\ b.cap \in Nat /\ b.count \in 0..b.cap /\ b.cells \in [0..b.cap - 1 -> Cell]
         /\ b = [cap |-> b.cap, count |-> b.count, cells |-> b.cells]
<1>1. PICK c \in Nat : b \in [cap : {c}, count : 0..c, cells : [0..c - 1 -> Cell]]
  BY DEF BlockType
<1> QED
  BY <1>1

LEMMA BlockMade ==
  ASSUME NEW c \in Nat, NEW n \in 0..c, NEW f \in [0..c - 1 -> Cell]
  PROVE  [cap |-> c, count |-> n, cells |-> f] \in BlockType
BY DEF BlockType

(* Where an arena gives something out. *)
LEMMA TakeFacts ==
  ASSUME NEW a \in ArenaType, a.last \in 1..Len(a.blocks), NEW size \in Nat,
         size <= Free(a)
  PROVE  LET t == Take(a, size)
             b == a.blocks[a.last]
         IN  /\ t \in ArenaType /\ t.mem = a.mem /\ t.last = a.last
             /\ Len(t.blocks) = Len(a.blocks)
             /\ t.ptr = [mem |-> a.mem, block |-> a.last, off |-> b.count]
             /\ t.blocks[a.last] = [cap |-> b.cap, count |-> b.count + size, cells |-> b.cells]
             /\ \A k \in 1..Len(a.blocks) : k # a.last => t.blocks[k] = a.blocks[k]
<1> DEFINE t == Take(a, size)
           b == a.blocks[a.last]
           c == [cap |-> b.cap, count |-> b.count + size, cells |-> b.cells]
<1>1. /\ a.mem \in Memories /\ a.blocks \in Seq(BlockType) /\ a.last \in Nat /\ b \in BlockType
      /\ Len(a.blocks) \in Nat
  BY DEF ArenaType
<1>2. /\ b.cap \in Nat /\ b.count \in 0..b.cap /\ b.cells \in [0..b.cap - 1 -> Cell]
      /\ b = [cap |-> b.cap, count |-> b.count, cells |-> b.cells]
      /\ b.count + size <= b.cap
  BY <1>1, BlockFacts, SMTT(30) DEF Free, LastBlock
<1>3. c \in BlockType
  BY <1>2, BlockMade, SMTT(30)
<1>4. [b EXCEPT !.count = b.count + size] = c
  BY <1>2
<1>5. t = [a EXCEPT !.blocks = [a.blocks EXCEPT ![a.last] = c],
                    !.ptr = [mem |-> a.mem, block |-> a.last, off |-> b.count]]
  BY <1>4 DEF Take, LastBlock
<1> HIDE DEF c, b
<1>6. /\ [a.blocks EXCEPT ![a.last] = c] \in Seq(BlockType)
      /\ Len([a.blocks EXCEPT ![a.last] = c]) = Len(a.blocks)
      /\ \A k \in 1..Len(a.blocks) :
           [a.blocks EXCEPT ![a.last] = c][k] = IF k = a.last THEN c ELSE a.blocks[k]
  BY <1>1, <1>3, ExceptSeq
<1>7. [mem |-> a.mem, block |-> a.last, off |-> b.count] \in Place
  BY <1>1, <1>2 DEF Place
<1>8. /\ t.blocks = [a.blocks EXCEPT ![a.last] = c] /\ t.mem = a.mem /\ t.last = a.last
      /\ t.ptr = [mem |-> a.mem, block |-> a.last, off |-> b.count]
      /\ t \in ArenaType
  BY <1>1, <1>5, <1>6, <1>7 DEF ArenaType
<1> QED
  BY <1>6, <1>8 DEF c, b

LEMMA NewBlockFacts ==
  ASSUME NEW a \in ArenaType, a.last \in 0..Len(a.blocks), NEW cap \in Nat
  PROVE  LET n == NewBlock(a, cap)
         IN  /\ n \in ArenaType /\ n.mem = a.mem /\ n.last = a.last + 1 /\ n.ptr = a.ptr
             /\ Len(n.blocks) = a.last + 1
             /\ n.blocks[a.last + 1] = Block(cap)
             /\ \A k \in 1..a.last : n.blocks[k] = a.blocks[k]
<1> DEFINE old == SubSeq(a.blocks, 1, a.last)
           n == NewBlock(a, cap)
<1>1. /\ a.mem \in Memories /\ a.blocks \in Seq(BlockType) /\ a.last \in Nat /\ a.ptr \in Place
      /\ Len(a.blocks) \in Nat
  BY DEF ArenaType
<1>2. Block(cap) \in BlockType
  <2>1. 0 \in 0..cap /\ [k \in 0..cap - 1 |-> Junk] \in [0..cap - 1 -> Cell]
    BY DEF Cell
  <2> QED
    BY <2>1, BlockMade DEF Block
<1>3. /\ old \in Seq(BlockType) /\ Len(old) = a.last
      /\ \A k \in 1..a.last : old[k] = a.blocks[k]
  <2>1. \A k \in 1..a.last : a.blocks[k] \in BlockType
    BY <1>1, ElementOfSeq
  <2>2. /\ old \in Seq(BlockType) /\ Len(old) = IF 1 <= a.last THEN a.last - 1 + 1 ELSE 0
        /\ \A k \in 1..a.last - 1 + 1 : old[k] = a.blocks[1 + k - 1]
    BY <1>1, <2>1, SubSeqProperties
  <2> QED
    BY <1>1, <2>2
<1>4. n = [a EXCEPT !.blocks = Append(old, Block(cap)), !.last = a.last + 1]
  BY DEF NewBlock
<1> HIDE DEF old
<1>5. /\ Append(old, Block(cap)) \in Seq(BlockType)
      /\ Len(Append(old, Block(cap))) = a.last + 1
      /\ \A k \in 1..a.last : Append(old, Block(cap))[k] = old[k]
      /\ Append(old, Block(cap))[a.last + 1] = Block(cap)
  BY <1>2, <1>3, AppendProperties
<1>6. /\ n.blocks = Append(old, Block(cap)) /\ n.last = a.last + 1 /\ n.mem = a.mem /\ n.ptr = a.ptr
      /\ n \in ArenaType
  <2> DEFINE s == Append(old, Block(cap))
  <2>1. s \in Seq(BlockType) /\ n = [a EXCEPT !.blocks = s, !.last = a.last + 1]
    BY <1>4, <1>5
  <2> HIDE DEF s, n
  <2>2. /\ n.blocks = s /\ n.last = a.last + 1 /\ n.mem = a.mem /\ n.ptr = a.ptr
        /\ n \in ArenaType
    <3>1. a = [mem |-> a.mem, blocks |-> a.blocks, last |-> a.last, ptr |-> a.ptr]
      BY DEF ArenaType
    <3>2. n = [mem |-> a.mem, blocks |-> s, last |-> a.last + 1, ptr |-> a.ptr]
      BY <2>1, <3>1
    <3> QED
      BY <1>1, <2>1, <3>2 DEF ArenaType
  <2> QED
    BY <2>2 DEF s
<1> QED
  BY <1>3, <1>5, <1>6

\* From a to b: "size" items are given out that no part of a block had that was
\* given out before, and what was there stays.
GivesOut(a, b, size) ==
  /\ ArenaOK(b) /\ b.mem = a.mem /\ a.last <= b.last /\ b.last \in 1..Len(b.blocks)
  /\ b.ptr \in [mem : {a.mem}, block : {b.last}, off : Nat]
  /\ b.blocks[b.last].count = b.ptr.off + size
  /\ b.last = a.last => b.ptr.off = a.blocks[a.last].count
  /\ \A k \in 1..a.last : /\ b.blocks[k].cells = a.blocks[k].cells
                          /\ b.blocks[k].cap = a.blocks[k].cap
                          /\ b.blocks[k].count >= a.blocks[k].count

(* From a block that has room, *)
LEMMA TakeGivesOut ==
  ASSUME NEW a, ArenaOK(a), a.last # 0, NEW size \in Nat, size <= Free(a)
  PROVE  GivesOut(a, Take(a, size), size)
<1> DEFINE t == Take(a, size)
           b == a.blocks[a.last]
<1>1. a \in ArenaType /\ a.last \in 1..Len(a.blocks) /\ a.mem \in Memories /\ Len(a.blocks) \in Nat
  BY DEF ArenaOK, ArenaType
<1>2. b \in BlockType /\ b.count \in Nat /\ b.cap \in Nat
  <2>1. b \in BlockType
    BY <1>1, ElementOfSeq DEF ArenaType
  <2> QED
    BY <2>1, BlockFacts
<1>3. /\ t \in ArenaType /\ t.mem = a.mem /\ t.last = a.last
      /\ Len(t.blocks) = Len(a.blocks)
      /\ t.ptr = [mem |-> a.mem, block |-> a.last, off |-> b.count]
      /\ t.blocks[a.last] = [cap |-> b.cap, count |-> b.count + size, cells |-> b.cells]
      /\ \A k \in 1..Len(a.blocks) : k # a.last => t.blocks[k] = a.blocks[k]
  BY <1>1, TakeFacts
<1> HIDE DEF t, b
<1>4. ArenaOK(t)
  BY <1>1, <1>3 DEF ArenaOK
<1>5. \A k \in 1..a.last : /\ t.blocks[k].cells = a.blocks[k].cells
                           /\ t.blocks[k].cap = a.blocks[k].cap
                           /\ t.blocks[k].count >= a.blocks[k].count
  <2>1. \A k \in 1..a.last : a.blocks[k] \in BlockType /\ a.blocks[k].count \in Nat
    <3>1. \A k \in 1..a.last : a.blocks[k] \in BlockType
      BY <1>1, ElementOfSeq DEF ArenaType
    <3> QED
      BY <3>1, BlockFacts
  <2>2. ASSUME NEW k \in 1..a.last
        PROVE  /\ t.blocks[k].cells = a.blocks[k].cells
               /\ t.blocks[k].cap = a.blocks[k].cap
               /\ t.blocks[k].count >= a.blocks[k].count
    <3>1. CASE k = a.last
      BY <1>2, <1>3, <3>1 DEF b
    <3>2. CASE k # a.last
      BY <1>1, <1>3, <2>1, <3>2
    <3> QED
      BY <3>1, <3>2
  <2> QED
    BY <2>2
<1> QED
  BY <1>1, <1>2, <1>3, <1>4, <1>5 DEF GivesOut, t, b

(* or from a new one. *)
LEMMA NewGivesOut ==
  ASSUME NEW a, ArenaOK(a), NEW cap \in Nat, NEW size \in Nat, size <= cap
  PROVE  /\ GivesOut(a, Take(NewBlock(a, cap), size), size)
         /\ Take(NewBlock(a, cap), size).last = a.last + 1
<1> DEFINE n == NewBlock(a, cap)
           t == Take(n, size)
<1>1. a \in ArenaType /\ a.last \in 0..Len(a.blocks) /\ a.mem \in Memories /\ Len(a.blocks) \in Nat
  BY DEF ArenaOK, ArenaType
<1>2. /\ n \in ArenaType /\ n.mem = a.mem /\ n.last = a.last + 1 /\ Len(n.blocks) = a.last + 1
      /\ n.blocks[a.last + 1] = Block(cap)
      /\ \A k \in 1..a.last : n.blocks[k] = a.blocks[k]
  BY <1>1, NewBlockFacts
<1> HIDE DEF n
<1>3. Free(n) = cap /\ n.blocks[a.last + 1].count = 0 /\ n.blocks[a.last + 1].cap = cap
  BY <1>2 DEF Free, LastBlock, Block
<1>4. /\ t \in ArenaType /\ t.mem = n.mem /\ t.last = n.last
      /\ Len(t.blocks) = Len(n.blocks)
      /\ t.ptr = [mem |-> n.mem, block |-> n.last, off |-> 0]
      /\ t.blocks[n.last].count = size
      /\ \A k \in 1..Len(n.blocks) : k # n.last => t.blocks[k] = n.blocks[k]
  <2>1. n.last \in 1..Len(n.blocks) /\ size <= Free(n)
    BY <1>1, <1>2, <1>3
  <2>2. /\ t \in ArenaType /\ t.mem = n.mem /\ t.last = n.last
        /\ Len(t.blocks) = Len(n.blocks)
        /\ t.ptr = [mem |-> n.mem, block |-> n.last, off |-> n.blocks[n.last].count]
        /\ t.blocks[n.last] = [cap |-> n.blocks[n.last].cap,
                               count |-> n.blocks[n.last].count + size,
                               cells |-> n.blocks[n.last].cells]
        /\ \A k \in 1..Len(n.blocks) : k # n.last => t.blocks[k] = n.blocks[k]
    BY <1>2, <2>1, TakeFacts
  <2>3. n.blocks[n.last].count = 0 /\ n.blocks[n.last].count + size = size
    BY <1>2, <1>3
  <2> HIDE DEF t
  <2> QED
    BY <2>2, <2>3
<1> HIDE DEF t
<1>5. ArenaOK(t)
  BY <1>1, <1>2, <1>4 DEF ArenaOK
<1>6. \A k \in 1..a.last : a.blocks[k].count \in Nat
  <2>1. \A k \in 1..a.last : a.blocks[k] \in BlockType
    BY <1>1, ElementOfSeq DEF ArenaType
  <2> QED
    BY <2>1, BlockFacts
<1>7. \A k \in 1..a.last : t.blocks[k] = a.blocks[k]
  <2>1. \A k \in 1..a.last : k \in 1..a.last + 1 /\ k # a.last + 1
    BY <1>1
  <2> QED
    BY <1>2, <1>4, <2>1
<1>8. \A k \in 1..a.last : /\ t.blocks[k].cells = a.blocks[k].cells
                           /\ t.blocks[k].cap = a.blocks[k].cap
                           /\ t.blocks[k].count >= a.blocks[k].count
  BY <1>6, <1>7
<1>9. GivesOut(a, t, size)
  BY <1>1, <1>2, <1>4, <1>5, <1>8 DEF GivesOut
<1> QED
  BY <1>2, <1>4, <1>9 DEF t, n

LEMMA AllocGivesOut ==
  ASSUME NEW a, ArenaOK(a), NEW size \in Nat
  PROVE  GivesOut(a, Alloc(a, size), size)
<1>1. \A m, n \in Nat : Larger(m, n) \in Nat /\ Larger(m, n) >= n
  BY DEF Larger
<1>2. a.last \in 0..Len(a.blocks) /\ Len(a.blocks) \in Nat /\ (a.last = 0 <=> a.blocks = <<>>)
  BY DEF ArenaOK, ArenaType
<1>3. CASE a.blocks = <<>>
  <2>1. Larger(CP_ARENA_INIT_CAP, size) \in Nat /\ size <= Larger(CP_ARENA_INIT_CAP, size)
    BY <1>1, ArenaAssumption
  <2> QED
    BY <1>3, <2>1, NewGivesOut DEF Alloc
<1>4. CASE a.blocks # <<>>
  <2>1. LastBlock(a) \in BlockType
    <3>1. a.last \in 1..Len(a.blocks) /\ a.blocks \in Seq(BlockType)
      BY <1>2, <1>4 DEF ArenaOK, ArenaType
    <3> QED
      BY <3>1, ElementOfSeq DEF LastBlock
  <2>2. 2 * LastBlock(a).cap \in Nat /\ Free(a) \in Nat
    BY <2>1, BlockFacts DEF Free
  <2>3. CASE Free(a) < size
    <3>1. Larger(2 * LastBlock(a).cap, size) \in Nat /\ size <= Larger(2 * LastBlock(a).cap, size)
      BY <1>1, <2>2
    <3> QED
      BY <1>4, <2>3, <3>1, NewGivesOut DEF Alloc
  <2>4. CASE ~(Free(a) < size)
    BY <1>2, <1>4, <2>2, <2>4, TakeGivesOut DEF Alloc
  <2> QED
    BY <2>3, <2>4
<1> QED
  BY <1>3, <1>4

(* The count of the block that is filled changes. *)
LEMMA CountFacts ==
  ASSUME NEW a, ArenaOK(a), a.last # 0, NEW c \in 0..LastBlock(a).cap
  PROVE  LET r == [a EXCEPT !.blocks[a.last].count = c]
         IN  /\ ArenaOK(r) /\ r.mem = a.mem /\ r.last = a.last /\ r.ptr = a.ptr
             /\ Len(r.blocks) = Len(a.blocks)
             /\ r.blocks[a.last].count = c
             /\ \A k \in 1..Len(a.blocks) : /\ r.blocks[k].cells = a.blocks[k].cells
                                            /\ r.blocks[k].cap = a.blocks[k].cap
                                            /\ k # a.last => r.blocks[k] = a.blocks[k]
<1> DEFINE b == a.blocks[a.last]
           new == [cap |-> b.cap, count |-> c, cells |-> b.cells]
           s == [a.blocks EXCEPT ![a.last] = new]
           r == [a EXCEPT !.blocks[a.last].count = c]
<1>1. /\ a \in ArenaType /\ a.last \in 1..Len(a.blocks) /\ a.mem \in Memories /\ Len(a.blocks) \in Nat
      /\ a.blocks \in Seq(BlockType) /\ a.last \in Nat /\ a.ptr \in Place
  BY DEF ArenaOK, ArenaType
<1>2. /\ b \in BlockType /\ b.cap \in Nat /\ b.count \in Nat /\ b.cells \in [0..b.cap - 1 -> Cell]
      /\ b = [cap |-> b.cap, count |-> b.count, cells |-> b.cells]
  <2>1. b \in BlockType
    BY <1>1, ElementOfSeq DEF ArenaType
  <2> QED
    BY <2>1, BlockFacts
<1>3. new \in BlockType /\ [b EXCEPT !.count = c] = new
  BY <1>2, BlockMade DEF LastBlock
<1>4. r = [a EXCEPT !.blocks = s]
  BY <1>3
<1> HIDE DEF new
<1>5. /\ s \in Seq(BlockType) /\ Len(s) = Len(a.blocks)
      /\ \A k \in 1..Len(a.blocks) : s[k] = IF k = a.last THEN new ELSE a.blocks[k]
  BY <1>1, <1>3, ExceptSeq
<1> HIDE DEF r, s
<1>6. /\ r.blocks = s /\ r.mem = a.mem /\ r.last = a.last /\ r.ptr = a.ptr /\ r \in ArenaType
  <2>1. a = [mem |-> a.mem, blocks |-> a.blocks, last |-> a.last, ptr |-> a.ptr]
    BY <1>1 DEF ArenaType
  <2>2. r = [mem |-> a.mem, blocks |-> s, last |-> a.last, ptr |-> a.ptr]
    BY <1>4, <2>1
  <2> QED
    BY <1>1, <1>5, <2>2 DEF ArenaType
<1>7. new.count = c /\ new.cap = b.cap /\ new.cells = b.cells
  BY DEF new
<1> HIDE DEF b
<1>8. ArenaOK(r)
  BY <1>1, <1>5, <1>6 DEF ArenaOK
<1>9. \A k \in 1..Len(a.blocks) : /\ r.blocks[k].cells = a.blocks[k].cells
                                  /\ r.blocks[k].cap = a.blocks[k].cap
  BY <1>5, <1>6, <1>7 DEF b
<1> QED
  BY <1>1, <1>5, <1>6, <1>7, <1>8, <1>9 DEF r

\* What item i is when s has been written over it, and x was there.
Over(s, i, x) == IF i \in 0..Len(s) - 1 THEN s[i + 1] ELSE x

\* Arena w is a with s written to the places from ptr + from on.
WroteTo(a, w, ptr, from, s) ==
  /\ ArenaOK(w) /\ w.mem = a.mem /\ w.last = a.last /\ w.ptr = a.ptr
  /\ Len(w.blocks) = Len(a.blocks)
  /\ \A k \in 1..Len(a.blocks) : /\ w.blocks[k].count = a.blocks[k].count
                                 /\ w.blocks[k].cap = a.blocks[k].cap
                                 /\ k # ptr.block => w.blocks[k] = a.blocks[k]
  /\ \A k \in 0..a.blocks[ptr.block].cap - 1 :
       w.blocks[ptr.block].cells[k] = Over(s, k - ptr.off - from, a.blocks[ptr.block].cells[k])

(* What is written changes nothing but the cells it is written to. *)
LEMMA WriteFacts ==
  ASSUME NEW a, ArenaOK(a), NEW ptr, ptr.block \in 1..Len(a.blocks), ptr.off \in Nat,
         NEW from \in Nat, NEW s \in Seq(Cell)
  PROVE  WroteTo(a, Write(a, ptr, from, s), ptr, from, s)
<1> DEFINE b == a.blocks[ptr.block]
           cells == [k \in 0..b.cap - 1 |-> Over(s, k - ptr.off - from, b.cells[k])]
           new == [cap |-> b.cap, count |-> b.count, cells |-> cells]
           bs == [a.blocks EXCEPT ![ptr.block] = new]
           w == Write(a, ptr, from, s)
<1>1. /\ a \in ArenaType /\ a.last \in 0..Len(a.blocks) /\ a.mem \in Memories /\ Len(a.blocks) \in Nat
      /\ a.blocks \in Seq(BlockType) /\ a.last \in Nat /\ a.ptr \in Place /\ Len(s) \in Nat
  BY DEF ArenaOK, ArenaType
<1>2. /\ b \in BlockType /\ b.cap \in Nat /\ b.count \in 0..b.cap /\ b.cells \in [0..b.cap - 1 -> Cell]
      /\ b = [cap |-> b.cap, count |-> b.count, cells |-> b.cells]
  <2>1. b \in BlockType
    BY <1>1, ElementOfSeq DEF ArenaType
  <2> QED
    BY <2>1, BlockFacts
<1>3. CASE s = <<>>
  <2>1. Len(s) - 1 = -1 /\ w = a
    BY <1>3 DEF Write
  <2>2. \A k \in 0..b.cap - 1 : Over(s, k - ptr.off - from, b.cells[k]) = b.cells[k]
    BY <1>2, <2>1 DEF Over
  <2> HIDE DEF w, b
  <2> QED
    BY <2>1, <2>2 DEF WroteTo, w, b
<1>4. CASE s # <<>>
  <2>1. cells \in [0..b.cap - 1 -> Cell]
    <3>1. ASSUME NEW k \in 0..b.cap - 1
          PROVE  Over(s, k - ptr.off - from, b.cells[k]) \in Cell
      <4>1. CASE k - ptr.off - from \in 0..Len(s) - 1
        <5> DEFINE j == k - ptr.off - from
        <5>1. j + 1 \in 1..Len(s)
          <6>1. j \in 0..Len(s) - 1
            BY <4>1
          <6> HIDE DEF j
          <6> QED
            BY <1>1, <6>1
        <5> QED
          BY <4>1, <5>1, ElementOfSeq DEF Over
      <4>2. CASE k - ptr.off - from \notin 0..Len(s) - 1
        BY <1>2, <4>2 DEF Over
      <4> QED
        BY <4>1, <4>2
    <3> QED
      BY <3>1
  <2>2. cells = [k \in DOMAIN b.cells |-> IF k - ptr.off - from \in 0..Len(s) - 1
                                          THEN s[k - ptr.off - from + 1] ELSE b.cells[k]]
    BY <1>2 DEF Over
  <2> HIDE DEF cells
  <2>3. new \in BlockType /\ [b EXCEPT !.cells = cells] = new
    <3>1. new \in BlockType
      BY <1>2, <2>1, BlockMade
    <3> HIDE DEF b
    <3> QED
      BY <1>2, <3>1
  <2>4. w = [a EXCEPT !.blocks = bs]
    BY <1>4, <2>2, <2>3 DEF Write
  <2>5. new.count = b.count /\ new.cap = b.cap /\ new.cells = cells
    OBVIOUS
  <2> HIDE DEF new, b
  <2>6. /\ bs \in Seq(BlockType) /\ Len(bs) = Len(a.blocks)
        /\ \A k \in 1..Len(a.blocks) : bs[k] = IF k = ptr.block THEN new ELSE a.blocks[k]
    BY <1>1, <2>3, ExceptSeq
  <2> HIDE DEF w, bs
  <2>7. /\ w.blocks = bs /\ w.mem = a.mem /\ w.last = a.last /\ w.ptr = a.ptr /\ w \in ArenaType
    <3>1. a = [mem |-> a.mem, blocks |-> a.blocks, last |-> a.last, ptr |-> a.ptr]
      BY <1>1 DEF ArenaType
    <3>2. w = [mem |-> a.mem, blocks |-> bs, last |-> a.last, ptr |-> a.ptr]
      BY <2>4, <3>1
    <3> QED
      BY <1>1, <2>6, <3>2 DEF ArenaType
  <2>8. \A k \in 1..Len(a.blocks) : /\ w.blocks[k].count = a.blocks[k].count
                                    /\ w.blocks[k].cap = a.blocks[k].cap
                                    /\ k # ptr.block => w.blocks[k] = a.blocks[k]
    BY <2>5, <2>6, <2>7 DEF b
  <2>9. ArenaOK(w)
    <3>1. a.last = 0 => w.blocks = <<>>
      BY <1>1 DEF ArenaOK
    <3>2. \A k \in a.last + 1..Len(a.blocks) : w.blocks[k].count = 0
      BY <1>1, <2>8 DEF ArenaOK
    <3> QED
      BY <1>1, <2>6, <2>7, <3>1, <3>2 DEF ArenaOK
  <2>10. w.blocks[ptr.block].cells = cells
    BY <2>5, <2>6, <2>7
  <2> QED
    BY <2>6, <2>7, <2>8, <2>9, <2>10 DEF WroteTo, w, b, cells
<1> QED
  BY <1>3, <1>4

-----------------------------------------------------------------------------
(* Lists.                                                                  *)

ListType == [ptr : Place, count : Nat, cap : Nat, arena : {"from", "to"}]

Of(m, p) == m[p.mem].blocks[p.block]      \* the block p points into

\* A list has memory that was given out, up to where that ends if it was the
\* last to get any.
Placed(m, d) ==
  /\ d.count <= d.cap
  /\ d.ptr = Nowhere => d.cap = 0
  /\ d.ptr # Nowhere =>
       /\ d.cap > 0 /\ d.ptr.block \in 1..Len(m[d.ptr.mem].blocks)
       /\ d.ptr.off + d.cap <= Of(m, d.ptr).count
       /\ m[d.ptr.mem].ptr = d.ptr => d.ptr.off + d.cap = Of(m, d.ptr).count

Distinct(d, e) ==
  d.ptr # Nowhere /\ e.ptr # Nowhere /\ d.ptr.mem = e.ptr.mem /\ d.ptr.block = e.ptr.block =>
    d.ptr.off + d.cap <= e.ptr.off \/ e.ptr.off + e.cap <= d.ptr.off

MemoryOK(m) == /\ m = [name \in Memories |-> m[name]]
               /\ \A name \in Memories : ArenaOK(m[name]) /\ m[name].mem = name

\* The lists L[l], for l in S, in memory m.
Sound(m, L, S) ==
  /\ MemoryOK(m) /\ L \in [S -> ListType]
  /\ \A l \in S : Placed(m, L[l])
  /\ \A l, k \in S : l # k => Distinct(L[l], L[k])

SameItems(m, n, d) ==
  d.ptr # Nowhere => \A k \in 0..d.cap - 1 : Read(n[d.ptr.mem], d.ptr, k) = Read(m[d.ptr.mem], d.ptr, k)

LEMMA ListFacts ==
  ASSUME NEW d \in ListType
  PROVE  /\ d.count \in Nat /\ d.cap \in Nat /\ d.arena \in {"from", "to"} /\ d.ptr \in Place
         /\ d.ptr # Nowhere => d.ptr.mem \in Memories /\ d.ptr.block \in Nat /\ d.ptr.off \in Nat
         /\ d = [ptr |-> d.ptr, count |-> d.count, cap |-> d.cap, arena |-> d.arena]
BY DEF ListType, Place

LEMMA ListExcept ==
  ASSUME NEW d \in ListType, NEW ptr, NEW n
  PROVE  /\ [d EXCEPT !.ptr = ptr, !.cap = n] =
              [ptr |-> ptr, count |-> d.count, cap |-> n, arena |-> d.arena]
         /\ [d EXCEPT !.count = n] = [ptr |-> d.ptr, count |-> n, cap |-> d.cap, arena |-> d.arena]
<1>1. d = [ptr |-> d.ptr, count |-> d.count, cap |-> d.cap, arena |-> d.arena]
  BY ListFacts
<1>2. ASSUME NEW e, e = [d EXCEPT !.ptr = ptr, !.cap = n]
      PROVE  e = [ptr |-> ptr, count |-> d.count, cap |-> n, arena |-> d.arena]
  BY <1>1, <1>2
<1>3. ASSUME NEW e, e = [d EXCEPT !.count = n]
      PROVE  e = [ptr |-> d.ptr, count |-> n, cap |-> d.cap, arena |-> d.arena]
  BY <1>1, <1>3
<1> QED
  BY <1>2, <1>3

LEMMA NowhereElse == \A p : p = Nowhere => p.mem \notin Memories
BY DEF Nowhere, Memories

(* The blocks of an arena. *)
LEMMA ArenaFacts ==
  ASSUME NEW a, ArenaOK(a)
  PROVE  /\ a.mem \in Memories /\ a.last \in 0..Len(a.blocks) /\ Len(a.blocks) \in Nat /\ a.last \in Nat
         /\ a.ptr \in Place
         /\ \A k \in 1..Len(a.blocks) :
              /\ a.blocks[k].cap \in Nat /\ a.blocks[k].count \in 0..a.blocks[k].cap
              /\ a.blocks[k].cells \in [0..a.blocks[k].cap - 1 -> Cell]
              /\ a.blocks[k].count > 0 => k \in 1..a.last
         /\ a.last # 0 => LastBlock(a) = a.blocks[a.last] /\ a.last \in 1..Len(a.blocks)
<1>1. /\ a.mem \in Memories /\ a.last \in 0..Len(a.blocks) /\ Len(a.blocks) \in Nat /\ a.last \in Nat
      /\ a.blocks \in Seq(BlockType) /\ a.ptr \in Place
  BY DEF ArenaOK, ArenaType
<1>2. \A k \in 1..Len(a.blocks) : a.blocks[k] \in BlockType
  BY <1>1, ElementOfSeq
<1>3. \A k \in 1..Len(a.blocks) :
        /\ a.blocks[k].cap \in Nat /\ a.blocks[k].count \in 0..a.blocks[k].cap
        /\ a.blocks[k].cells \in [0..a.blocks[k].cap - 1 -> Cell]
  BY <1>2, BlockFacts
<1>4. \A k \in 1..Len(a.blocks) : a.blocks[k].count > 0 => k \in 1..a.last
  <2> SUFFICES ASSUME NEW k \in 1..Len(a.blocks), a.blocks[k].count > 0, k \notin 1..a.last
               PROVE  FALSE
    OBVIOUS
  <2>1. k \in a.last + 1..Len(a.blocks)
    BY <1>1, SMTT(30)
  <2> QED
    BY <2>1 DEF ArenaOK
<1> QED
  BY <1>1, <1>3, <1>4 DEF LastBlock

(* Where a list is. *)
LEMMA PlacedFacts ==
  ASSUME NEW m, MemoryOK(m), NEW d \in ListType, Placed(m, d), d.ptr # Nowhere
  PROVE  /\ d.ptr.mem \in Memories /\ d.ptr.block \in Nat /\ d.ptr.off \in Nat /\ d.cap \in Nat \ {0}
         /\ ArenaOK(m[d.ptr.mem]) /\ m[d.ptr.mem].mem = d.ptr.mem
         /\ d.ptr.block \in 1..m[d.ptr.mem].last /\ d.ptr.block \in 1..Len(m[d.ptr.mem].blocks)
         /\ Of(m, d.ptr).cap \in Nat /\ Of(m, d.ptr).count \in 0..Of(m, d.ptr).cap
         /\ Of(m, d.ptr).cells \in [0..Of(m, d.ptr).cap - 1 -> Cell]
         /\ d.ptr.off + d.cap <= Of(m, d.ptr).count
         /\ \A k \in 0..d.cap - 1 : /\ d.ptr.off + k \in 0..Of(m, d.ptr).cap - 1
                                    /\ Read(m[d.ptr.mem], d.ptr, k) \in Cell
                                    /\ Has(m[d.ptr.mem], d.ptr, k)
<1>1. /\ d.ptr.mem \in Memories /\ d.ptr.block \in Nat /\ d.ptr.off \in Nat /\ d.cap \in Nat \ {0}
      /\ d.ptr.block \in 1..Len(m[d.ptr.mem].blocks)
      /\ d.ptr.off + d.cap <= Of(m, d.ptr).count
  BY ListFacts DEF Placed
<1>2. ArenaOK(m[d.ptr.mem]) /\ m[d.ptr.mem].mem = d.ptr.mem
  BY <1>1, SMTT(30) DEF MemoryOK
<1>3. /\ Of(m, d.ptr).cap \in Nat /\ Of(m, d.ptr).count \in 0..Of(m, d.ptr).cap
      /\ Of(m, d.ptr).cells \in [0..Of(m, d.ptr).cap - 1 -> Cell]
      /\ Of(m, d.ptr).count > 0 => d.ptr.block \in 1..m[d.ptr.mem].last
  BY <1>1, <1>2, ArenaFacts DEF Of
<1>4. \A k \in 0..d.cap - 1 : d.ptr.off + k \in 0..Of(m, d.ptr).cap - 1
  BY <1>1, <1>3
<1>5. Of(m, d.ptr).count > 0
  BY <1>1, <1>3
<1> QED
  BY <1>1, <1>2, <1>3, <1>4, <1>5 DEF Read, Has, Of

(* A list that lets go of its memory. *)
LEMMA Forgets ==
  ASSUME NEW S, NEW L, NEW m, Sound(m, L, S), NEW l \in S,
         NEW d \in ListType, d.ptr = Nowhere, d.cap = 0, d.count = 0
  PROVE  Sound(m, [L EXCEPT ![l] = d], S)
<1> DEFINE K == [L EXCEPT ![l] = d]
<1>1. K \in [S -> ListType] /\ \A k \in S : K[k] = IF k = l THEN d ELSE L[k]
  BY DEF Sound
<1> HIDE DEF K
<1>2. \A k \in S : Placed(m, K[k])
  BY <1>1 DEF Sound, Placed
<1>3. \A j, k \in S : j # k => Distinct(K[j], K[k])
  BY <1>1 DEF Sound, Distinct
<1> QED
  BY <1>1, <1>2, <1>3 DEF Sound, K


(* What changes in one of the memories. *)
LEMMA MemoryFacts ==
  ASSUME NEW m, MemoryOK(m), NEW to \in Memories, NEW a, ArenaOK(a), a.mem = to
  PROVE  LET n == [m EXCEPT ![to] = a]
         IN  /\ MemoryOK(n) /\ n[to] = a
             /\ \A name \in Memories : name # to => n[name] = m[name]
<1> DEFINE n == [m EXCEPT ![to] = a]
<1>1. \A name \in Memories : n[name] = IF name = to THEN a ELSE m[name]
  BY DEF MemoryOK
<1>2. n = [name \in Memories |-> n[name]]
  BY DEF MemoryOK
<1> HIDE DEF n
<1> QED
  BY <1>1, <1>2 DEF MemoryOK, n

\* Memory n is m after list l has become d, and the lists keep their items.
Moved(m, n, S, L, l, d) ==
  Sound(n, [L EXCEPT ![l] = d], S) /\ \A k \in S : SameItems(m, n, L[k])

\* List d is at a place that has been given out, from which memory m became n.
GetsPlace(m, n, to, b, d) ==
  /\ to \in Memories /\ n = [m EXCEPT ![to] = b] /\ GivesOut(m[to], b, d.cap)
  /\ d \in ListType /\ d.cap > 0 /\ d.count <= d.cap /\ d.ptr = b.ptr

(* A list without memory gets some. *)
LEMMA Moves ==
  ASSUME NEW S, NEW L, NEW m, Sound(m, L, S), NEW l \in S, L[l].ptr = Nowhere,
         NEW n, NEW to, NEW b, NEW d, GetsPlace(m, n, to, b, d)
  PROVE  Moved(m, n, S, L, l, d) /\ d.ptr # Nowhere /\ d.ptr.mem = to
<1> DEFINE K == [L EXCEPT ![l] = d]
           a == m[to]
           size == d.cap
<1>0. /\ to \in Memories /\ d \in ListType /\ size \in Nat \ {0} /\ d.count <= size
      /\ d.ptr = b.ptr /\ GivesOut(a, b, size) /\ n = [m EXCEPT ![to] = b]
  BY ListFacts DEF GetsPlace
<1> HIDE DEF size
<1>1. MemoryOK(m) /\ ArenaOK(a) /\ a.mem = to /\ ArenaOK(b) /\ b.mem = to
  BY <1>0 DEF Sound, MemoryOK, GivesOut
<1>2. /\ MemoryOK(n) /\ n[to] = b /\ \A name \in Memories : name # to => n[name] = m[name]
  <2> DEFINE o == [m EXCEPT ![to] = b]
  <2>1. to \in Memories /\ MemoryOK(m) /\ ArenaOK(b) /\ b.mem = to
    BY <1>0, <1>1
  <2>2. MemoryOK(o) /\ o[to] = b /\ \A name \in Memories : name # to => o[name] = m[name]
    BY <2>1, MemoryFacts
  <2>3. n = o
    BY <1>0
  <2> HIDE DEF o
  <2> QED
    BY <2>2, <2>3
<1>3. K \in [S -> ListType] /\ \A k \in S : K[k] = IF k = l THEN d ELSE L[k]
  BY <1>0 DEF Sound
<1>4. /\ d.ptr.mem = to /\ d.ptr.block = b.last /\ d.ptr.off \in Nat /\ b.last \in 1..Len(b.blocks)
      /\ b.blocks[b.last].count = d.ptr.off + size /\ a.last <= b.last
      /\ b.last = a.last => d.ptr.off = a.blocks[a.last].count
      /\ \A k \in 1..a.last : /\ b.blocks[k].cells = a.blocks[k].cells
                              /\ b.blocks[k].cap = a.blocks[k].cap
                              /\ b.blocks[k].count >= a.blocks[k].count
  BY <1>0, <1>1 DEF GivesOut
<1>5. d.ptr # Nowhere
  BY <1>0, <1>4, NowhereElse
<1>6. a.last \in Nat /\ b.last \in Nat /\ Len(b.blocks) \in Nat
  BY <1>1, ArenaFacts
<1> HIDE DEF K, a
<1>7. ASSUME NEW k \in S, L[k].ptr # Nowhere
      PROVE  /\ L[k].ptr.mem = to => /\ L[k].ptr.block \in 1..a.last
                                     /\ L[k].ptr.off + L[k].cap <= a.blocks[L[k].ptr.block].count
             /\ L[k].ptr.block \in Nat /\ L[k].ptr.off \in Nat /\ L[k].cap \in Nat \ {0}
             /\ L[k].ptr.mem \in Memories
  <2>1. L[k] \in ListType /\ Placed(m, L[k])
    BY DEF Sound
  <2> QED
    BY <1>1, <1>7, <2>1, PlacedFacts DEF Of, a
<1>8. ASSUME NEW k \in S, k # l
      PROVE  Distinct(L[k], d) /\ Distinct(d, L[k])
  <2> SUFFICES ASSUME L[k].ptr # Nowhere, L[k].ptr.mem = to, L[k].ptr.block = b.last
               PROVE  L[k].ptr.off + L[k].cap <= d.ptr.off
    BY <1>4 DEF Distinct
  <2>1. L[k].ptr.block \in 1..a.last /\ L[k].ptr.off + L[k].cap <= a.blocks[L[k].ptr.block].count
    BY <1>7
  <2> QED
    BY <1>4, <1>6, <2>1
<1>9. ASSUME NEW k \in S, k # l
      PROVE  Placed(n, L[k])
  <2>1. L[k] \in ListType /\ Placed(m, L[k])
    BY DEF Sound
  <2>2. CASE L[k].ptr = Nowhere
    BY <2>1, <2>2 DEF Placed
  <2>3. CASE L[k].ptr # Nowhere /\ L[k].ptr.mem # to
    BY <1>2, <1>7, <2>1, <2>3 DEF Placed, Of
  <2>4. CASE L[k].ptr # Nowhere /\ L[k].ptr.mem = to
    <3>1. /\ L[k].ptr.block \in 1..a.last /\ L[k].ptr.off \in Nat /\ L[k].cap \in Nat \ {0}
          /\ L[k].ptr.off + L[k].cap <= a.blocks[L[k].ptr.block].count
      BY <1>7, <2>4
    <3>2. b.blocks[L[k].ptr.block].count >= a.blocks[L[k].ptr.block].count
      BY <1>4, <3>1
    <3>3. /\ a.blocks[L[k].ptr.block].count \in Nat /\ b.blocks[L[k].ptr.block].count \in Nat
          /\ L[k].ptr.block \in 1..Len(b.blocks)
      <4>1. L[k].ptr.block \in 1..Len(a.blocks) /\ L[k].ptr.block \in 1..Len(b.blocks)
        <5>1. a.last \in 0..Len(a.blocks) /\ Len(a.blocks) \in Nat
          BY <1>1, ArenaFacts
        <5> QED
          BY <1>4, <1>6, <3>1, <5>1
      <4>2. /\ a.blocks[L[k].ptr.block].cap \in Nat
            /\ a.blocks[L[k].ptr.block].count \in 0..a.blocks[L[k].ptr.block].cap
        BY <1>1, <4>1, ArenaFacts
      <4>3. /\ b.blocks[L[k].ptr.block].cap \in Nat
            /\ b.blocks[L[k].ptr.block].count \in 0..b.blocks[L[k].ptr.block].cap
        BY <1>1, <4>1, ArenaFacts
      <4> QED
        BY <4>1, <4>2, <4>3
    <3>4. L[k].ptr # d.ptr
      <4> SUFFICES ASSUME L[k].ptr = d.ptr PROVE FALSE
        OBVIOUS
      <4>1. \/ d.ptr.off + L[k].cap <= d.ptr.off
            \/ d.ptr.off + size <= d.ptr.off
        BY <1>5, <1>8, <1>9 DEF Distinct, size
      <4> QED
        BY <1>0, <1>4, <3>1, <4>1
    <3>5. L[k].count <= L[k].cap /\ L[k].cap > 0
      BY <2>1, <2>4 DEF Placed
    <3>6. n[to].ptr = d.ptr /\ n[to].blocks = b.blocks /\ L[k].ptr.mem = to
      BY <1>0, <1>2, <2>4
    <3>7. L[k].ptr.off + L[k].cap <= b.blocks[L[k].ptr.block].count
      BY <3>1, <3>2, <3>3, SMTT(30)
    <3> QED
      BY <2>4, <3>3, <3>4, <3>5, <3>6, <3>7 DEF Placed, Of
  <2> QED
    BY <2>2, <2>3, <2>4
<1>10. Placed(n, d)
  BY <1>0, <1>2, <1>4, <1>5, ListFacts DEF Placed, Of, size
<1>11. Sound(n, K, S)
  <2>1. \A k \in S : Placed(n, K[k])
    BY <1>3, <1>9, <1>10
  <2>2. \A j, k \in S : j # k => Distinct(K[j], K[k])
    BY <1>3, <1>8 DEF Sound
  <2> QED
    BY <1>2, <1>3, <2>1, <2>2 DEF Sound
<1>12. ASSUME NEW k \in S
       PROVE  SameItems(m, n, L[k])
  <2>1. CASE L[k].ptr.mem # to
    BY <1>2, <1>7, <2>1 DEF SameItems, Read
  <2>2. CASE L[k].ptr.mem = to
    BY <1>2, <1>4, <1>7, <2>2 DEF SameItems, Read, a
  <2> QED
    BY <2>1, <2>2
<1> QED
  BY <1>4, <1>5, <1>11, <1>12 DEF Moved, K


\* Memory n is m with s written to the places from ptr + from on.
WroteInto(m, n, ptr, from, s, S, L) ==
  \A k \in S : L[k].ptr # Nowhere => \A j \in 0..L[k].cap - 1 :
    Read(n[L[k].ptr.mem], L[k].ptr, j) =
      IF L[k].ptr.mem = ptr.mem /\ L[k].ptr.block = ptr.block
      THEN Over(s, (L[k].ptr.off + j) - ptr.off - from, Read(m[L[k].ptr.mem], L[k].ptr, j))
      ELSE Read(m[L[k].ptr.mem], L[k].ptr, j)

(* What is written into a block leaves the lists where they are. *)
LEMMA Writes ==
  ASSUME NEW S, NEW L, NEW m, Sound(m, L, S),
         NEW ptr, ptr.mem \in Memories, ptr.block \in 1..Len(m[ptr.mem].blocks), ptr.off \in Nat,
         NEW from \in Nat, NEW s \in Seq(Cell)
  PROVE  LET n == [m EXCEPT ![ptr.mem] = Write(@, ptr, from, s)]
         IN  Sound(n, L, S) /\ WroteInto(m, n, ptr, from, s, S, L)
<1> DEFINE a == m[ptr.mem]
           w == Write(a, ptr, from, s)
           n == [m EXCEPT ![ptr.mem] = w]
<1>1. MemoryOK(m) /\ ArenaOK(a) /\ a.mem = ptr.mem
  BY DEF Sound, MemoryOK
<1>2. /\ ArenaOK(w) /\ w.mem = a.mem /\ w.last = a.last /\ w.ptr = a.ptr
      /\ Len(w.blocks) = Len(a.blocks)
      /\ \A k \in 1..Len(a.blocks) : /\ w.blocks[k].count = a.blocks[k].count
                                     /\ w.blocks[k].cap = a.blocks[k].cap
                                     /\ k # ptr.block => w.blocks[k] = a.blocks[k]
      /\ \A k \in 0..a.blocks[ptr.block].cap - 1 :
           w.blocks[ptr.block].cells[k] = Over(s, k - ptr.off - from, a.blocks[ptr.block].cells[k])
  <2>1. ptr.block \in 1..Len(a.blocks)
    OBVIOUS
  <2> HIDE DEF a
  <2>2. WroteTo(a, w, ptr, from, s)
    BY <1>1, <2>1, WriteFacts
  <2> QED
    BY <2>2 DEF WroteTo
<1> HIDE DEF w
<1>3. MemoryOK(n) /\ n[ptr.mem] = w /\ \A name \in Memories : name # ptr.mem => n[name] = m[name]
  BY <1>1, <1>2, MemoryFacts
<1> HIDE DEF n
<1>4. \A k \in S : L[k] \in ListType /\ Placed(m, L[k])
  BY DEF Sound
<1>5. ASSUME NEW k \in S PROVE Placed(n, L[k])
  <2>1. CASE L[k].ptr = Nowhere
    BY <1>4, <2>1 DEF Placed
  <2>2. CASE L[k].ptr # Nowhere
    <3>1. L[k].ptr.mem \in Memories
      BY <1>4, <2>2, ListFacts
    <3>2. n[L[k].ptr.mem].ptr = m[L[k].ptr.mem].ptr
      BY <1>2, <1>3, <3>1 DEF a
    <3>3. /\ L[k].ptr.block \in 1..Len(m[L[k].ptr.mem].blocks)
          /\ L[k].ptr.block \in 1..Len(n[L[k].ptr.mem].blocks)
      BY <1>2, <1>3, <1>4, <2>2, <3>1 DEF a, Placed
    <3>4. Of(n, L[k].ptr).count = Of(m, L[k].ptr).count
      BY <1>2, <1>3, <3>1, <3>3 DEF a, Of
    <3> QED
      BY <1>4, <2>2, <3>2, <3>3, <3>4 DEF Placed
  <2> QED
    BY <2>1, <2>2
<1>6. Sound(n, L, S)
  BY <1>3, <1>5 DEF Sound
<1>7. ASSUME NEW k \in S, L[k].ptr # Nowhere, NEW j \in 0..L[k].cap - 1
      PROVE  Read(n[L[k].ptr.mem], L[k].ptr, j) =
               IF L[k].ptr.mem = ptr.mem /\ L[k].ptr.block = ptr.block
               THEN Over(s, (L[k].ptr.off + j) - ptr.off - from, Read(m[L[k].ptr.mem], L[k].ptr, j))
               ELSE Read(m[L[k].ptr.mem], L[k].ptr, j)
  <2> DEFINE p == L[k].ptr
             i == p.off + j
  <2>1. /\ p.mem \in Memories /\ p.block \in 1..Len(m[p.mem].blocks)
        /\ i \in 0..Of(m, p).cap - 1
    BY <1>1, <1>4, <1>7, PlacedFacts
  <2>2. CASE p.mem # ptr.mem
    BY <1>3, <2>1, <2>2 DEF Read
  <2>3. CASE p.mem = ptr.mem /\ p.block # ptr.block
    <3>1. Read(n[p.mem], p, j) = Read(m[p.mem], p, j)
      <4>1. w.blocks[p.block] = a.blocks[p.block]
        BY <1>2, <2>1, <2>3
      <4> HIDE DEF p, w
      <4> QED
        BY <1>3, <2>3, <4>1 DEF Read, a
    <3> QED
      BY <2>3, <3>1
  <2>4. CASE p.mem = ptr.mem /\ p.block = ptr.block
    <3>1. /\ Read(n[p.mem], p, j) = w.blocks[ptr.block].cells[i]
          /\ Read(m[p.mem], p, j) = a.blocks[ptr.block].cells[i]
      BY <1>3, <2>4 DEF Read, a
    <3>2. i \in 0..a.blocks[ptr.block].cap - 1
      BY <2>1, <2>4 DEF Of, a
    <3> HIDE DEF i
    <3>3. w.blocks[ptr.block].cells[i] = Over(s, i - ptr.off - from, a.blocks[ptr.block].cells[i])
      BY <1>2, <3>2
    <3>4. Read(n[p.mem], p, j) = Over(s, i - ptr.off - from, Read(m[p.mem], p, j))
      BY <3>1, <3>3
    <3>5. i - ptr.off - from = (p.off + j) - ptr.off - from
      BY DEF i
    <3> QED
      BY <2>4, <3>4, <3>5
  <2> QED
    BY <2>2, <2>3, <2>4
<1> QED
  <2>1. WroteInto(m, n, ptr, from, s, S, L)
    BY <1>7 DEF WroteInto
  <2> QED
    BY <1>6, <2>1 DEF n, w, a


(* Nothing changes for a list that is not where it is written. *)
LEMMA WriteAway ==
  ASSUME NEW S, NEW L, NEW m, Sound(m, L, S),
         NEW ptr, ptr.mem \in Memories, ptr.block \in 1..Len(m[ptr.mem].blocks), ptr.off \in Nat,
         NEW from \in Nat, NEW s \in Seq(Cell), NEW k \in S,
         L[k].ptr # Nowhere /\ L[k].ptr.mem = ptr.mem /\ L[k].ptr.block = ptr.block =>
           \/ ptr.off + from + Len(s) <= L[k].ptr.off
           \/ L[k].ptr.off + L[k].cap <= ptr.off + from
  PROVE  SameItems(m, [m EXCEPT ![ptr.mem] = Write(@, ptr, from, s)], L[k])
<1> DEFINE n == [m EXCEPT ![ptr.mem] = Write(@, ptr, from, s)]
           p == L[k].ptr
<1>1. \A j \in 0..L[k].cap - 1 : p # Nowhere =>
        Read(n[p.mem], p, j) =
          IF p.mem = ptr.mem /\ p.block = ptr.block
          THEN Over(s, (p.off + j) - ptr.off - from, Read(m[p.mem], p, j))
          ELSE Read(m[p.mem], p, j)
  <2>1. WroteInto(m, n, ptr, from, s, S, L)
    BY Writes
  <2> HIDE DEF n
  <2> QED
    BY <2>1 DEF WroteInto
<1>2. L[k] \in ListType /\ Len(s) \in Nat
  BY DEF Sound
<1>3. p # Nowhere => p.off \in Nat /\ L[k].cap \in Nat
  BY <1>2, ListFacts
<1> HIDE DEF n
<1>4. ASSUME NEW j \in 0..L[k].cap - 1, p # Nowhere, p.mem = ptr.mem, p.block = ptr.block
      PROVE  (p.off + j) - ptr.off - from \notin 0..Len(s) - 1
  <2> DEFINE x == p.off
             len == Len(s)
             cap == L[k].cap
  <2>1. /\ x \in Nat /\ cap \in Nat /\ len \in Nat
        /\ ptr.off + from + len <= x \/ x + cap <= ptr.off + from
    BY <1>2, <1>3, <1>4
  <2>2. j \in 0..cap - 1
    OBVIOUS
  <2> HIDE DEF x, len, cap
  <2>3. ~((x + j) - ptr.off - from >= 0 /\ (x + j) - ptr.off - from <= len - 1)
    BY <2>1, <2>2
  <2> QED
    BY <2>3 DEF x, len
<1>5. \A j \in 0..L[k].cap - 1 : p # Nowhere => Read(n[p.mem], p, j) = Read(m[p.mem], p, j)
  <2> HIDE DEF p
  <2> QED
    BY <1>1, <1>4 DEF Over
<1> QED
  BY <1>5 DEF SameItems, n

\* Memory n is m with s written to the places of list l from "from" on.
WroteList(m, n, S, L, l, from, s) ==
  /\ Sound(n, L, S)
  /\ \A k \in S : k # l => SameItems(m, n, L[k])
  /\ \A j \in 0..L[l].cap - 1 :
       Read(n[L[l].ptr.mem], L[l].ptr, j) = Over(s, j - from, Read(m[L[l].ptr.mem], L[l].ptr, j))

(* What is written to the places of one list changes its items alone. *)
LEMMA WriteList ==
  ASSUME NEW S, NEW L, NEW m, Sound(m, L, S), NEW l \in S, L[l].ptr # Nowhere,
         NEW from \in Nat, NEW s \in Seq(Cell), from + Len(s) <= L[l].cap
  PROVE  WroteList(m, WriteItems(m, L[l], from, s), S, L, l, from, s)
<1> DEFINE p == L[l].ptr
           n == [m EXCEPT ![p.mem] = Write(@, p, from, s)]
<1>1. /\ MemoryOK(m) /\ \A k \in S : L[k] \in ListType /\ Placed(m, L[k])
      /\ \A k \in S : k # l => Distinct(L[l], L[k])
  BY DEF Sound
<1>2. /\ p.mem \in Memories /\ p.block \in 1..Len(m[p.mem].blocks) /\ p.off \in Nat
      /\ L[l].cap \in Nat /\ Len(s) \in Nat
  BY <1>1, PlacedFacts
<1>3. /\ Sound(n, L, S)
      /\ \A j \in 0..L[l].cap - 1 :
           Read(n[p.mem], p, j) = Over(s, (p.off + j) - p.off - from, Read(m[p.mem], p, j))
  <2>1. Sound(n, L, S) /\ WroteInto(m, n, p, from, s, S, L)
    BY <1>2, Writes
  <2> HIDE DEF n
  <2> QED
    BY <2>1 DEF WroteInto
<1>4. \A k \in S : k # l => SameItems(m, n, L[k])
  <2> SUFFICES ASSUME NEW k \in S, k # l PROVE SameItems(m, n, L[k])
    OBVIOUS
  <2>1. L[k].ptr # Nowhere => L[k].ptr.off \in Nat /\ L[k].cap \in Nat
    BY <1>1, ListFacts
  <2>2. L[k].ptr # Nowhere /\ L[k].ptr.mem = p.mem /\ L[k].ptr.block = p.block =>
           \/ p.off + from + Len(s) <= L[k].ptr.off
           \/ L[k].ptr.off + L[k].cap <= p.off + from
    <3>1. L[k].ptr # Nowhere /\ L[k].ptr.mem = p.mem /\ L[k].ptr.block = p.block =>
             p.off + L[l].cap <= L[k].ptr.off \/ L[k].ptr.off + L[k].cap <= p.off
      BY <1>1 DEF Distinct
    <3> QED
      <4> DEFINE x == p.off
                 y == L[k].ptr.off
                 c == L[l].cap
                 e == L[k].cap
                 len == Len(s)
      <4>1. x \in Nat /\ c \in Nat /\ len \in Nat /\ from + len <= c
        BY <1>2
      <4>2. L[k].ptr # Nowhere => y \in Nat /\ e \in Nat
        BY <2>1
      <4>3. L[k].ptr # Nowhere /\ L[k].ptr.mem = p.mem /\ L[k].ptr.block = p.block =>
               x + c <= y \/ y + e <= x
        BY <3>1
      <4> HIDE DEF x, y, c, e, len
      <4>4. L[k].ptr # Nowhere /\ L[k].ptr.mem = p.mem /\ L[k].ptr.block = p.block =>
               x + from + len <= y \/ y + e <= x + from
        BY <4>1, <4>2, <4>3
      <4> QED
        BY <4>4 DEF x, y, e, len
  <2> QED
    BY <1>2, <2>2, WriteAway
<1>5. \A j \in 0..L[l].cap - 1 : (p.off + j) - p.off - from = j - from
  BY <1>2
<1> HIDE DEF n, p
<1>6. n = WriteItems(m, L[l], from, s)
  BY DEF n, p, WriteItems
<1> QED
  <2>1. \A j \in 0..L[l].cap - 1 : Read(n[p.mem], p, j) = Over(s, j - from, Read(m[p.mem], p, j))
    BY <1>3, <1>5
  <2> QED
    BY <1>3, <1>4, <1>6, <2>1 DEF WroteList, p

(* Nor for those apart from what a list has left behind. *)
LEMMA LeftFacts ==
  ASSUME NEW S, NEW L, NEW m, Sound(m, L, S), NEW d \in ListType,
         d.ptr # Nowhere => d.ptr.block \in 1..Len(m[d.ptr.mem].blocks),
         \A k \in S : Distinct(d, L[k])
  PROVE  /\ Sound(Left(m, d), L, S)
         /\ \A k \in S : SameItems(m, Left(m, d), L[k])
<1>1. CASE d.ptr = Nowhere
  BY <1>1 DEF Left, SameItems
<1>2. CASE d.ptr # Nowhere
  <2> DEFINE s == [k \in 1..d.cap |-> Junk]
             n == [m EXCEPT ![d.ptr.mem] = Write(@, d.ptr, 0, s)]
  <2>1. d.ptr.mem \in Memories /\ d.ptr.off \in Nat /\ d.cap \in Nat
    BY <1>2, ListFacts
  <2>2. s \in Seq(Cell) /\ Len(s) = d.cap
    BY <2>1 DEF Cell
  <2>3. n = Left(m, d)
    BY <1>2 DEF Left, Lose
  <2> HIDE DEF s
  <2>4. Sound(n, L, S)
    BY <1>2, <2>1, <2>2, Writes
  <2>5. ASSUME NEW k \in S PROVE SameItems(m, n, L[k])
    <3>1. L[k] \in ListType
      BY DEF Sound
    <3>2. L[k].ptr # Nowhere => L[k].ptr.off \in Nat /\ L[k].cap \in Nat
      BY <3>1, ListFacts
    <3>3. L[k].ptr # Nowhere /\ L[k].ptr.mem = d.ptr.mem /\ L[k].ptr.block = d.ptr.block =>
             \/ d.ptr.off + 0 + Len(s) <= L[k].ptr.off
             \/ L[k].ptr.off + L[k].cap <= d.ptr.off + 0
      BY <1>2, <2>1, <2>2, <3>2 DEF Distinct
    <3> HIDE DEF n
    <3> QED
      BY <1>2, <2>1, <2>2, <3>3, WriteAway DEF n
  <2> QED
    BY <2>3, <2>4, <2>5
<1> QED
  BY <1>1, <1>2

-----------------------------------------------------------------------------
(* The items of lists.                                                     *)

LEMMA ContentsFacts ==
  ASSUME NEW m, MemoryOK(m), NEW d \in ListType, Placed(m, d)
  PROVE  /\ Contents(m, d) \in Seq(Cell) /\ Len(Contents(m, d)) = d.count
         /\ d.count \in 0..d.cap
         /\ d.count > 0 => d.ptr # Nowhere
         /\ \A j \in 1..d.count : Contents(m, d)[j] = Read(m[d.ptr.mem], d.ptr, j - 1)
         /\ Contents(m, d) = [j \in 1..d.count |-> Contents(m, d)[j]]
<1>1. d.count \in Nat /\ d.cap \in Nat /\ d.count <= d.cap /\ (d.ptr = Nowhere => d.cap = 0)
  BY ListFacts DEF Placed
<1>2. d.count > 0 => d.ptr # Nowhere
  BY <1>1
<1>3. \A j \in 1..d.count : Read(m[d.ptr.mem], d.ptr, j - 1) \in Cell
  <2> SUFFICES ASSUME NEW j \in 1..d.count PROVE Read(m[d.ptr.mem], d.ptr, j - 1) \in Cell
    OBVIOUS
  <2>1. d.ptr # Nowhere /\ j - 1 \in 0..d.cap - 1
    BY <1>1, <1>2
  <2> QED
    BY <2>1, PlacedFacts
<1>4. Contents(m, d) \in Seq(Cell) /\ Len(Contents(m, d)) = d.count
  BY <1>1, <1>3 DEF Contents
<1> QED
  BY <1>1, <1>2, <1>4 DEF Contents

LEMMA NoContents == \A m, d : d.count = 0 => Contents(m, d) = <<>>
BY DEF Contents

(* A list with the same items in two memories. *)
LEMMA KeptContents ==
  ASSUME NEW m, NEW n, NEW d \in ListType, Placed(m, d), SameItems(m, n, d)
  PROVE  Contents(n, d) = Contents(m, d)
<1>1. d.count \in Nat /\ d.cap \in Nat /\ d.count <= d.cap /\ (d.ptr = Nowhere => d.cap = 0)
  BY ListFacts DEF Placed
<1>2. \A j \in 1..d.count : j - 1 \in 0..d.cap - 1 /\ d.ptr # Nowhere
  BY <1>1
<1>3. \A j \in 1..d.count : Read(n[d.ptr.mem], d.ptr, j - 1) = Read(m[d.ptr.mem], d.ptr, j - 1)
  BY <1>2 DEF SameItems
<1> QED
  BY <1>3 DEF Contents


-----------------------------------------------------------------------------
(* da_reserve.                                                             *)

\* List d ends where the block is that arena a fills.
EndsIn(a, d) ==
  /\ ArenaOK(a) /\ a.mem = d.ptr.mem /\ a.last = d.ptr.block /\ a.last \in 1..Len(a.blocks)
  /\ LastBlock(a) = a.blocks[a.last] /\ LastBlock(a).cap \in Nat
  /\ LastBlock(a).count = d.ptr.off + d.cap
  /\ LastBlock(a).count <= LastBlock(a).cap

(* What was given out last ends where the block is filled to, *)
LEMMA LastGiven ==
  ASSUME NEW S, NEW L, NEW m, Sound(m, L, S), NEW l \in S, L[l].ptr # Nowhere,
         m[L[l].ptr.mem].ptr = L[l].ptr
  PROVE  EndsIn(m[L[l].ptr.mem], L[l])
<1> DEFINE a == m[L[l].ptr.mem]
<1>1. /\ MemoryOK(m) /\ L[l] \in ListType /\ Placed(m, L[l])
  BY DEF Sound
<1>2. /\ L[l].ptr.mem \in Memories /\ ArenaOK(a) /\ a.mem = L[l].ptr.mem
      /\ L[l].ptr.block \in 1..Len(a.blocks)
      /\ Of(m, L[l].ptr).cap \in Nat /\ Of(m, L[l].ptr).count \in 0..Of(m, L[l].ptr).cap
  BY <1>1, PlacedFacts
<1>3. a.last = L[l].ptr.block
  BY <1>2 DEF ArenaOK
<1>4. LastBlock(a) = a.blocks[a.last] /\ LastBlock(a) = Of(m, L[l].ptr)
  BY <1>3 DEF LastBlock, Of
<1>5. Of(m, L[l].ptr).count = L[l].ptr.off + L[l].cap
  BY <1>1, SMTT(30) DEF Placed
<1> QED
  BY <1>2, <1>3, <1>4, <1>5 DEF EndsIn

\* Arenas a and b differ in how far their blocks are filled.
SameCells(a, b) ==
  /\ ArenaOK(b) /\ b.mem = a.mem /\ b.last = a.last /\ b.ptr = a.ptr
  /\ Len(b.blocks) = Len(a.blocks)
  /\ \A k \in 1..Len(a.blocks) : b.blocks[k].cells = a.blocks[k].cells

\* The block list l was given last is filled to c, and l becomes d.
Recounted(m, S, L, l, c, d) ==
  LET a == m[L[l].ptr.mem]
      b == [a EXCEPT !.blocks[a.last].count = c]
  IN  SameCells(a, b) /\ Moved(m, [m EXCEPT ![L[l].ptr.mem] = b], S, L, l, d)

(* and it may grow there or give its place back: no list comes after it. *)
LEMMA Recount ==
  ASSUME NEW S, NEW L, NEW m, Sound(m, L, S), NEW l \in S, L[l].ptr # Nowhere,
         m[L[l].ptr.mem].ptr = L[l].ptr,
         NEW c \in L[l].ptr.off..LastBlock(m[L[l].ptr.mem]).cap,
         NEW d \in ListType, d.count <= d.cap,
         \/ d.ptr = Nowhere /\ d.cap = 0
         \/ d.ptr = L[l].ptr /\ d.cap > 0 /\ d.ptr.off + d.cap = c
  PROVE  Recounted(m, S, L, l, c, d)
<1> DEFINE to == L[l].ptr.mem
           a == m[to]
           b == [a EXCEPT !.blocks[a.last].count = c]
           n == [m EXCEPT ![to] = b]
           K == [L EXCEPT ![l] = d]
<1>1. /\ ArenaOK(a) /\ a.mem = to /\ a.last = L[l].ptr.block /\ a.last \in 1..Len(a.blocks)
      /\ LastBlock(a) = a.blocks[a.last] /\ LastBlock(a).cap \in Nat
      /\ a.blocks[a.last].count = L[l].ptr.off + L[l].cap
  <2>1. EndsIn(a, L[l])
    BY LastGiven
  <2> HIDE DEF a
  <2> QED
    BY <2>1 DEF EndsIn
<1>2. /\ MemoryOK(m) /\ L \in [S -> ListType] /\ \A k \in S : L[k] \in ListType /\ Placed(m, L[k])
      /\ \A j, k \in S : j # k => Distinct(L[j], L[k])
  BY DEF Sound
<1>3. L[l].ptr.off \in Nat /\ L[l].cap \in Nat \ {0} /\ to \in Memories
  BY <1>2, PlacedFacts, SMTT(30)
<1>4. /\ ArenaOK(b) /\ b.mem = a.mem /\ b.last = a.last /\ b.ptr = a.ptr
      /\ Len(b.blocks) = Len(a.blocks)
      /\ b.blocks[a.last].count = c
      /\ \A k \in 1..Len(a.blocks) : /\ b.blocks[k].cells = a.blocks[k].cells
                                     /\ k # a.last => b.blocks[k] = a.blocks[k]
  <2>1. a.last # 0 /\ c \in 0..LastBlock(a).cap
    BY <1>1, <1>3
  <2> HIDE DEF a
  <2> QED
    BY <1>1, <2>1, CountFacts
<1> HIDE DEF b
<1>5. MemoryOK(n) /\ n[to] = b /\ \A name \in Memories : name # to => n[name] = m[name]
  <2>1. MemoryOK(m) /\ to \in Memories /\ b.mem = to /\ ArenaOK(b)
    BY <1>1, <1>2, <1>3, <1>4
  <2> HIDE DEF to
  <2> QED
    BY <2>1, MemoryFacts, SMTT(30)
<1> HIDE DEF n
<1>6. K \in [S -> ListType] /\ \A k \in S : K[k] = IF k = l THEN d ELSE L[k]
  BY <1>2
<1> HIDE DEF K
<1>7. ASSUME NEW k \in S, L[k].ptr # Nowhere
      PROVE  /\ L[k].ptr.mem \in Memories /\ L[k].ptr.block \in 1..Len(m[L[k].ptr.mem].blocks)
             /\ L[k].ptr.off \in Nat /\ L[k].cap \in Nat \ {0}
             /\ L[k].ptr.off + L[k].cap <= Of(m, L[k].ptr).count
  BY <1>2, <1>7, PlacedFacts
<1>8. ASSUME NEW k \in S, k # l, L[k].ptr # Nowhere, L[k].ptr.mem = to, L[k].ptr.block = a.last
      PROVE  L[k].ptr.off + L[k].cap <= L[l].ptr.off
  <2>1. \/ L[k].ptr.off + L[k].cap <= L[l].ptr.off
        \/ L[l].ptr.off + L[l].cap <= L[k].ptr.off
    BY <1>1, <1>2, <1>8, SMTT(30) DEF Distinct
  <2>2. L[k].ptr.off + L[k].cap <= L[l].ptr.off + L[l].cap
    BY <1>1, <1>7, <1>8 DEF Of
  <2> QED
    BY <1>3, <1>7, <1>8, <2>1, <2>2
<1>9. ASSUME NEW k \in S, k # l
      PROVE  Placed(n, L[k])
  <2>1. CASE L[k].ptr = Nowhere
    BY <1>2, <2>1 DEF Placed
  <2>2. CASE L[k].ptr # Nowhere /\ L[k].ptr.mem # to
    BY <1>2, <1>5, <1>7, <2>2 DEF Placed, Of
  <2>3. CASE L[k].ptr # Nowhere /\ L[k].ptr.mem = to
    <3>1. n[to].ptr = a.ptr /\ L[k].ptr # a.ptr
      <4>1. ASSUME L[k].ptr = L[l].ptr PROVE FALSE
        <5>1. L[k].ptr.block = a.last
          BY <1>1, <4>1
        <5>2. L[k].ptr.off + L[k].cap <= L[l].ptr.off
          BY <1>8, <1>9, <2>3, <5>1
        <5>3. L[k].ptr.off \in Nat /\ L[k].cap \in Nat \ {0}
          BY <1>7, <2>3
        <5> QED
          BY <4>1, <5>2, <5>3
      <4> QED
        BY <1>4, <1>5, <4>1
    <3>2. L[k].ptr.block \in 1..Len(n[to].blocks) /\ L[k].ptr.block \in 1..Len(a.blocks)
      BY <1>4, <1>5, <1>7, <2>3, SMTT(30)
    <3>3. L[k].ptr.off + L[k].cap <= Of(n, L[k].ptr).count
      <4>1. CASE L[k].ptr.block = a.last
        <5>1. Of(n, L[k].ptr).count = c
          BY <1>4, <1>5, <2>3, <4>1 DEF Of
        <5>2. L[k].ptr.off + L[k].cap <= L[l].ptr.off
          BY <1>8, <1>9, <2>3, <4>1
        <5> QED
          BY <1>1, <1>3, <1>7, <2>3, <5>1, <5>2
      <4>2. CASE L[k].ptr.block # a.last
        <5>1. Of(n, L[k].ptr) = Of(m, L[k].ptr)
          BY <1>4, <1>5, <2>3, <3>2, <4>2 DEF Of
        <5> QED
          BY <1>7, <2>3, <5>1
      <4> QED
        BY <4>1, <4>2
    <3> QED
      BY <1>2, <2>3, <3>1, <3>2, <3>3 DEF Placed
  <2> QED
    BY <2>1, <2>2, <2>3
<1>10. Placed(n, d)
  <2>1. CASE d.ptr = Nowhere
    BY <2>1, <1>3 DEF Placed
  <2>2. CASE d.ptr # Nowhere
    <3>1. d.ptr = L[l].ptr /\ d.cap > 0 /\ d.ptr.off + d.cap = c
      BY <2>2, SMTT(30)
    <3>2. Of(n, d.ptr).count = c /\ d.ptr.block \in 1..Len(n[d.ptr.mem].blocks)
      BY <1>1, <1>4, <1>5, <3>1 DEF Of
    <3> QED
      BY <1>1, <1>3, <2>2, <3>1, <3>2 DEF Placed
  <2> QED
    BY <2>1, <2>2
<1>11. ASSUME NEW k \in S, k # l
       PROVE  Distinct(L[k], d) /\ Distinct(d, L[k])
  BY <1>1, <1>8, <1>11 DEF Distinct
<1>12. Sound(n, K, S)
  <2>1. \A k \in S : Placed(n, K[k])
    BY <1>6, <1>9, <1>10
  <2>2. \A j, k \in S : j # k => Distinct(K[j], K[k])
    BY <1>2, <1>6, <1>11
  <2> QED
    BY <1>5, <1>6, <2>1, <2>2 DEF Sound
<1>13. ASSUME NEW k \in S PROVE SameItems(m, n, L[k])
  <2>1. CASE L[k].ptr.mem # to
    BY <1>5, <1>7, <2>1 DEF SameItems, Read
  <2>2. CASE L[k].ptr.mem = to
    BY <1>4, <1>5, <1>7, <2>2, ZenonT(30) DEF SameItems, Read
  <2> QED
    BY <2>1, <2>2
<1>14. SameCells(a, b)
  BY <1>4 DEF SameCells
<1> QED
  BY <1>12, <1>13, <1>14 DEF Recounted, Moved, b, n, K


(* Same items from memory to memory. *)
LEMMA SameAgain ==
  ASSUME NEW m, NEW n, NEW o, NEW d, SameItems(m, n, d), SameItems(n, o, d)
  PROVE  SameItems(m, o, d)
BY DEF SameItems

LEMMA Empties == \A struct \in {"from", "to"} :
  /\ NewList(struct) \in ListType /\ NewList(struct).ptr = Nowhere
  /\ NewList(struct).cap = 0 /\ NewList(struct).count = 0 /\ NewList(struct).arena = struct
BY DEF NewList, ListType, Place

\* Memory n is m after list l has become e, and all have the items they had.
Relocated(m, n, S, L, l, e) ==
  /\ Sound(n, [L EXCEPT ![l] = e], S)
  /\ \A k \in S : k # l => SameItems(m, n, L[k])
  /\ Contents(n, e) = Contents(m, L[l])

\* Memory m with arena b is sound without list l.
Freed(m, to, b, S, L, l) ==
  SameCells(m[to], b) /\ Sound([m EXCEPT ![to] = b], [L EXCEPT ![l] = NewList("from")], S)

\* List l has moved to what arena a has given out last.
MovedTo(m, to, a, S, L, l, cap) ==
  LET new == [m EXCEPT ![to] = Write(a, a.ptr, 0, Contents(m, L[l]))]
  IN  /\ a.ptr # L[l].ptr /\ a.ptr.mem = to
      /\ Relocated(m, Left(new, L[l]), S, L, l, [L[l] EXCEPT !.ptr = a.ptr, !.cap = cap])

(* A list that moves takes its items with it.  b is the arena it moves to, *)
(* which may have been given back the place the list has.                  *)
LEMMA Relocates ==
  ASSUME NEW S, NEW L, NEW m, Sound(m, L, S), NEW l \in S, L[l].ptr # Nowhere,
         NEW to \in Memories, NEW b, Freed(m, to, b, S, L, l),
         NEW a, NEW cap \in Nat, cap > L[l].cap, GivesOut(b, a, cap),
         L[l].ptr.mem = to /\ L[l].ptr.block = a.ptr.block => L[l].ptr.off + L[l].cap <= a.ptr.off
  PROVE  MovedTo(m, to, a, S, L, l, cap)
<1> DEFINE d == L[l]
           s == Contents(m, d)
           new == [m EXCEPT ![to] = Write(a, a.ptr, 0, s)]
           e == [d EXCEPT !.ptr = a.ptr, !.cap = cap]
           r == Left(new, d)
           m1 == [m EXCEPT ![to] = b]
           m2 == [m EXCEPT ![to] = a]
           K == [L EXCEPT ![l] = NewList("from")]
           E == [L EXCEPT ![l] = e]
<1>1. /\ MemoryOK(m) /\ L \in [S -> ListType] /\ \A k \in S : L[k] \in ListType /\ Placed(m, L[k])
      /\ \A k \in S : k # l => Distinct(d, L[k])
  BY DEF Sound
<1>2. /\ d \in ListType /\ d = [ptr |-> d.ptr, count |-> d.count, cap |-> d.cap, arena |-> d.arena]
      /\ d.count \in Nat /\ d.arena \in {"from", "to"}
      /\ d.ptr.mem \in Memories /\ d.ptr.off \in Nat /\ d.cap \in Nat \ {0}
      /\ d.ptr.block \in 1..m[d.ptr.mem].last /\ d.ptr.block \in 1..Len(m[d.ptr.mem].blocks)
  BY <1>1, ListFacts, PlacedFacts
<1>3. /\ s \in Seq(Cell) /\ Len(s) = d.count /\ d.count \in 0..d.cap /\ s = [j \in 1..d.count |-> s[j]]
  BY <1>1, ContentsFacts
<1>4. /\ Sound(m1, K, S) /\ K[l].ptr = Nowhere /\ K \in [S -> ListType]
      /\ \A k \in S : k # l => K[k] = L[k]
      /\ SameCells(m[to], b)
  BY <1>1, Empties DEF Freed, Sound
<1>5. /\ m1[to] = b /\ m2[to] = a /\ [m1 EXCEPT ![to] = a] = m2
      /\ \A name \in Memories : name # to => m1[name] = m[name] /\ m2[name] = m[name]
  BY <1>1 DEF MemoryOK
<1>6. ArenaOK(b) /\ b.mem = to
  BY <1>4, <1>5 DEF Sound, MemoryOK
<1>7. /\ a.ptr \in Place /\ a.ptr.mem = to /\ a.ptr.block = a.last /\ a.ptr.off \in Nat
      /\ ArenaOK(a) /\ a.mem = to /\ a.last \in 1..Len(a.blocks) /\ b.last <= a.last
      /\ a.last \in Nat /\ b.last \in Nat /\ Len(a.blocks) \in Nat
  <2>1. /\ a.ptr \in [mem : {to}, block : {a.last}, off : Nat]
        /\ ArenaOK(a) /\ a.mem = to /\ a.last \in 1..Len(a.blocks) /\ b.last <= a.last
    BY <1>6 DEF GivesOut
  <2>2. a.last \in Nat /\ b.last \in Nat /\ Len(a.blocks) \in Nat
    BY <1>6, <2>1, ArenaFacts
  <2> QED
    BY <2>1, <2>2 DEF Place
<1>8. a.ptr # d.ptr
  BY <1>2, <1>7
<1>9. /\ e = [ptr |-> a.ptr, count |-> d.count, cap |-> cap, arena |-> d.arena]
      /\ e \in ListType /\ e.ptr = a.ptr /\ e.cap = cap /\ e.count = d.count
  <2>1. e = [ptr |-> a.ptr, count |-> d.count, cap |-> cap, arena |-> d.arena]
    <3>1. e = [d EXCEPT !.ptr = a.ptr, !.cap = cap]
      OBVIOUS
    <3> HIDE DEF d, e
    <3> QED
      BY <1>2, <3>1
  <2> QED
    BY <1>2, <1>7, <2>1 DEF ListType
<1> HIDE DEF e
<1>10. /\ Sound(m2, E, S) /\ \A k \in S : SameItems(m1, m2, K[k])
       /\ a.ptr # Nowhere
  <2>1. /\ Sound(m2, [K EXCEPT ![l] = e], S)
        /\ \A k \in S : SameItems(m1, m2, K[k])
        /\ e.ptr # Nowhere
    <3>1. cap \in Nat \ {0} /\ e.count <= cap
      BY <1>2, <1>3, <1>9
    <3>2. Sound(m1, K, S) /\ K[l].ptr = Nowhere
      BY <1>4
    <3>3. GetsPlace(m1, m2, to, a, e)
      BY <1>5, <1>9, <3>1 DEF GetsPlace
    <3> HIDE DEF K, m1, m2
    <3>4. Moved(m1, m2, S, K, l, e) /\ e.ptr # Nowhere
      BY <3>2, <3>3, Moves
    <3> QED
      BY <3>4 DEF Moved
  <2>2. [K EXCEPT ![l] = e] = E
    BY <1>1
  <2> HIDE DEF K, E, m1, m2
  <2> QED
    BY <1>9, <2>1, <2>2
<1>11. E \in [S -> ListType] /\ E[l] = e /\ \A k \in S : k # l => E[k] = L[k]
  BY <1>1, <1>9
<1>12. /\ Sound(new, E, S)
       /\ \A k \in S : k # l => SameItems(m2, new, E[k])
       /\ \A j \in 0..cap - 1 : Read(new[to], a.ptr, j) = Over(s, j - 0, Read(m2[to], a.ptr, j))
  <2>1. WriteItems(m2, e, 0, s) = new
    BY <1>1, <1>7, <1>9 DEF WriteItems, MemoryOK
  <2>2. 0 + Len(s) <= e.cap
    BY <1>2, <1>3, <1>9
  <2>3. E[l].ptr # Nowhere /\ 0 + Len(s) <= E[l].cap /\ E[l] = e /\ e.ptr = a.ptr /\ e.cap = cap
    BY <1>9, <1>10, <1>11, <2>2
  <2>4. Sound(m2, E, S) /\ s \in Seq(Cell) /\ a.ptr.mem = to
    BY <1>3, <1>7, <1>10
  <2> HIDE DEF E, m2, new, s
  <2>5. WroteList(m2, WriteItems(m2, E[l], 0, s), S, E, l, 0, s)
    BY <2>3, <2>4, WriteList
  <2>6. WroteList(m2, new, S, E, l, 0, s)
    BY <2>1, <2>3, <2>5
  <2> QED
    BY <2>3, <2>4, <2>6 DEF WroteList
<1>13. /\ Sound(r, E, S) /\ \A k \in S : SameItems(new, r, E[k])
  <2>1. d.ptr.block \in 1..Len(new[d.ptr.mem].blocks)
    <3>1. CASE d.ptr.mem # to
      BY <1>1, <1>2, <3>1 DEF MemoryOK
    <3>2. CASE d.ptr.mem = to
      <4>1. Len(Write(a, a.ptr, 0, s).blocks) = Len(a.blocks)
        <5>1. ArenaOK(a) /\ a.ptr.block \in 1..Len(a.blocks) /\ a.ptr.off \in Nat /\ s \in Seq(Cell)
          BY <1>3, <1>7
        <5> HIDE DEF s
        <5> QED
          <6>1. WroteTo(a, Write(a, a.ptr, 0, s), a.ptr, 0, s)
            BY <5>1, WriteFacts
          <6> QED
            BY <6>1 DEF WroteTo
      <4>2. new[to] = Write(a, a.ptr, 0, s)
        BY <1>1 DEF MemoryOK
      <4>3. d.ptr.block \in 1..Len(a.blocks)
        BY <1>2, <1>4, <1>7, <3>2 DEF SameCells
      <4> HIDE DEF new
      <4> QED
        BY <3>2, <4>1, <4>2, <4>3
    <3> QED
      BY <3>1, <3>2
  <2>2. ASSUME NEW k \in S PROVE Distinct(d, E[k])
    <3>1. CASE k = l
      BY <1>7, <1>9, <1>11, <3>1 DEF Distinct
    <3>2. CASE k # l
      BY <1>1, <1>11, <3>2
    <3> QED
      BY <3>1, <3>2
  <2> HIDE DEF E, new, d
  <2> QED
    BY <1>2, <1>12, <2>1, <2>2, LeftFacts
<1>14. ASSUME NEW k \in S, k # l PROVE SameItems(m, r, L[k])
  <2>1. SameItems(m, m1, L[k])
    <3>1. CASE L[k].ptr = Nowhere
      BY <3>1, SMTT(30) DEF SameItems
    <3>2. CASE L[k].ptr # Nowhere
      <4>1. L[k].ptr.mem \in Memories /\ L[k].ptr.block \in 1..Len(m[L[k].ptr.mem].blocks)
        BY <1>1, <3>2, PlacedFacts
      <4> HIDE DEF m1
      <4> QED
        BY <1>4, <1>5, <4>1 DEF SameItems, Read, SameCells
    <3> QED
      BY <3>1, <3>2
  <2>2. SameItems(m1, m2, L[k]) /\ SameItems(m2, new, L[k]) /\ SameItems(new, r, L[k])
    <3> HIDE DEF m1, m2, new, r, K, E
    <3> QED
      BY <1>4, <1>10, <1>11, <1>12, <1>13, <1>14
  <2> HIDE DEF m1, m2, new, r
  <2> QED
    BY <2>1, <2>2, SameAgain
<1>15. Contents(r, e) = s
  <2>1. Contents(r, e) = Contents(new, e)
    <3>1. Placed(new, e) /\ SameItems(new, r, e)
      BY <1>11, <1>12, <1>13 DEF Sound
    <3> HIDE DEF new, r
    <3> QED
      BY <1>9, <3>1, KeptContents
  <2>2. Contents(new, e) = [j \in 1..d.count |-> Read(new[to], a.ptr, j - 1)]
    BY <1>7, <1>9 DEF Contents
  <2>3. ASSUME NEW j \in 1..d.count PROVE Read(new[to], a.ptr, j - 1) = s[j]
    <3>1. /\ j - 1 \in 0..cap - 1 /\ (j - 1) - 0 \in 0..Len(s) - 1 /\ (j - 1) - 0 + 1 = j
      BY <1>2, <1>3
    <3> HIDE DEF new, s, m2
    <3> QED
      BY <1>12, <3>1 DEF Over
  <2> HIDE DEF s, new
  <2> QED
    BY <1>3, <2>1, <2>2, <2>3
<1>16. Relocated(m, r, S, L, l, e)
  BY <1>13, <1>14, <1>15 DEF Relocated
<1> QED
  BY <1>7, <1>8, <1>16 DEF MovedTo, e


Owners == owner \in [{"from", "to"} -> Memories] /\ owner["from"] # owner["to"]

\* What da_reserve does for list d: r is a list with room, and the same items.
Reserved(m, L, S, l, n, r) ==
  /\ Sound(r.m, [L EXCEPT ![l] = r.d], S)
  /\ r.d.count = L[l].count /\ r.d.arena = L[l].arena /\ r.d.cap >= n
  /\ \A k \in S : k # l => SameItems(m, r.m, L[k])
  /\ Contents(r.m, r.d) = Contents(m, L[l])
  /\ r.d.ptr = L[l].ptr \/ r.d.ptr.mem = owner[L[l].arena]

(* da_reserve for a list without memory, *)
LEMMA ReserveFirst ==
  ASSUME Owners, NEW S, NEW L, NEW m, Sound(m, L, S), NEW l \in S, L[l].ptr = Nowhere,
         NEW n \in Nat, NEW cap \in Nat, cap > 0, cap >= n
  PROVE  LET to == owner[L[l].arena]
             a == Alloc(m[to], cap)
         IN  /\ a.ptr # Nowhere
             /\ Reserved(m, L, S, l, n,
                         [m |-> [m EXCEPT ![to] = Write(a, a.ptr, 0, Contents(m, L[l]))],
                          d |-> [L[l] EXCEPT !.ptr = a.ptr, !.cap = cap]])
<1> DEFINE d == L[l]
           to == owner[d.arena]
           a == Alloc(m[to], cap)
           e == [d EXCEPT !.ptr = a.ptr, !.cap = cap]
           n1 == [m EXCEPT ![to] = a]
<1>1. /\ MemoryOK(m) /\ d \in ListType /\ Placed(m, d)
  BY DEF Sound
<1>2. /\ d = [ptr |-> d.ptr, count |-> d.count, cap |-> d.cap, arena |-> d.arena]
      /\ d.count = 0 /\ d.arena \in {"from", "to"} /\ to \in Memories
  BY <1>1, ListFacts DEF Placed, Owners
<1>3. ArenaOK(m[to]) /\ m[to].mem = to
  BY <1>1, <1>2 DEF MemoryOK
<1>4. GivesOut(m[to], a, cap)
  BY <1>3, AllocGivesOut, SMTT(30)
<1> HIDE DEF a
<1>5. a.ptr \in Place /\ a.ptr.mem = to
  BY <1>2, <1>3, <1>4, ArenaFacts DEF GivesOut, Place
<1>6. e = [ptr |-> a.ptr, count |-> 0, cap |-> cap, arena |-> d.arena]
  <2>1. e = [d EXCEPT !.ptr = a.ptr, !.cap = cap]
    OBVIOUS
  <2> HIDE DEF d, e
  <2> QED
    BY <1>2, <2>1
<1>7. e \in ListType /\ e.ptr = a.ptr /\ e.cap = cap /\ e.count = 0 /\ e.arena = d.arena
  BY <1>2, <1>5, <1>6 DEF ListType
<1> HIDE DEF e
<1>8. /\ Sound(n1, [L EXCEPT ![l] = e], S) /\ \A k \in S : SameItems(m, n1, L[k])
      /\ e.ptr # Nowhere
  <2>1. GetsPlace(m, n1, to, a, e)
    BY <1>2, <1>4, <1>7 DEF GetsPlace
  <2>2. L[l].ptr = Nowhere
    OBVIOUS
  <2> HIDE DEF n1, to, d
  <2>3. Moved(m, n1, S, L, l, e) /\ e.ptr # Nowhere
    BY <2>1, <2>2, Moves
  <2> QED
    BY <2>3 DEF Moved
<1>9. Contents(m, d) = <<>> /\ Contents(n1, e) = <<>>
  BY <1>2, <1>7, NoContents
<1>10. Write(a, a.ptr, 0, Contents(m, d)) = a
  BY <1>9 DEF Write
<1> HIDE DEF n1
<1>11. Reserved(m, L, S, l, n, [m |-> n1, d |-> e])
  BY <1>2, <1>5, <1>7, <1>8, <1>9 DEF Reserved
<1> QED
  BY <1>7, <1>8, <1>10, <1>11 DEF n1, e, a

(* for one that gets new memory, *)
LEMMA ReserveMoves ==
  ASSUME Owners, NEW S, NEW L, NEW m, Sound(m, L, S), NEW l \in S, L[l].ptr # Nowhere,
         L[l].ptr # m[owner[L[l].arena]].ptr,
         NEW n \in Nat, NEW cap \in Nat, cap > L[l].cap, cap >= n
  PROVE  LET to == owner[L[l].arena]
             a == Alloc(m[to], cap)
         IN  /\ a.ptr # L[l].ptr
             /\ Reserved(m, L, S, l, n,
                         [m |-> Left([m EXCEPT ![to] = Write(a, a.ptr, 0, Contents(m, L[l]))], L[l]),
                          d |-> [L[l] EXCEPT !.ptr = a.ptr, !.cap = cap]])
<1> DEFINE d == L[l]
           to == owner[d.arena]
           b == m[to]
           a == Alloc(b, cap)
           e == [d EXCEPT !.ptr = a.ptr, !.cap = cap]
           K == [L EXCEPT ![l] = NewList("from")]
<1>1. /\ MemoryOK(m) /\ d \in ListType /\ Placed(m, d) /\ L \in [S -> ListType]
  BY DEF Sound
<1>2. /\ d = [ptr |-> d.ptr, count |-> d.count, cap |-> d.cap, arena |-> d.arena]
      /\ d.arena \in {"from", "to"} /\ to \in Memories
  BY <1>1, ListFacts DEF Owners
<1>3. ArenaOK(b) /\ b.mem = to
  BY <1>1, <1>2 DEF MemoryOK
<1>4. GivesOut(b, a, cap)
  BY <1>3, AllocGivesOut
<1>5. [m EXCEPT ![to] = b] = m
  BY <1>1, <1>2 DEF MemoryOK
<1>6. Sound(m, K, S)
  BY Empties, Forgets
<1>7. d.ptr.mem = to /\ d.ptr.block = a.ptr.block => d.ptr.off + d.cap <= a.ptr.off
  <2> SUFFICES ASSUME d.ptr.mem = to, d.ptr.block = a.ptr.block PROVE d.ptr.off + d.cap <= a.ptr.off
    BY SMTT(30)
  <2>1. d.ptr.block \in 1..b.last /\ d.ptr.off + d.cap <= b.blocks[d.ptr.block].count
    BY <1>1, PlacedFacts, ZenonT(30) DEF Of
  <2>2. /\ a.ptr.block = a.last /\ b.last <= a.last
        /\ a.last = b.last => a.ptr.off = b.blocks[b.last].count
        /\ ArenaOK(a)
    BY <1>4 DEF GivesOut
  <2>3. a.last \in Nat /\ b.last \in Nat
    BY <1>3, <2>2, ArenaFacts
  <2> HIDE DEF a, b, d
  <2> QED
    BY <2>1, <2>2, <2>3
<1> DEFINE r == Left([m EXCEPT ![to] = Write(a, a.ptr, 0, Contents(m, d))], d)
<1>8. a.ptr # d.ptr /\ a.ptr.mem = to /\ Relocated(m, r, S, L, l, e)
  <2>1. Freed(m, to, b, S, L, l)
    <3>1. SameCells(b, b)
      BY <1>3 DEF SameCells
    <3> QED
      BY <1>5, <1>6, <3>1 DEF Freed
  <2> HIDE DEF a, b, to
  <2>2. MovedTo(m, to, a, S, L, l, cap)
    BY <1>2, <1>4, <1>7, <2>1, Relocates
  <2> QED
    BY <2>2 DEF MovedTo
<1>9. e = [ptr |-> a.ptr, count |-> d.count, cap |-> cap, arena |-> d.arena]
  <2>1. e = [d EXCEPT !.ptr = a.ptr, !.cap = cap]
    OBVIOUS
  <2> HIDE DEF d, e, a
  <2> QED
    BY <1>2, <2>1
<1>10. e.count = d.count /\ e.arena = d.arena /\ e.cap = cap /\ e.ptr = a.ptr
  BY <1>9
<1> HIDE DEF e, r, a, to
<1>11. Reserved(m, L, S, l, n, [m |-> r, d |-> e])
  BY <1>8, <1>10 DEF Reserved, Relocated, to
<1> QED
  BY <1>8, <1>11 DEF r, e, a, to

(* and for the one that got memory last. *)
LEMMA ReserveLast ==
  ASSUME Owners, NEW S, NEW L, NEW m, Sound(m, L, S), NEW l \in S, L[l].ptr # Nowhere,
         L[l].ptr = m[owner[L[l].arena]].ptr,
         NEW n \in Nat, NEW cap \in Nat, cap > L[l].cap, cap >= n
  PROVE  LET to == owner[L[l].arena]
             a == Realloc(m[to], L[l].ptr, L[l].cap, cap)
             new == [m EXCEPT ![to] = Write(a, a.ptr, 0, Contents(m, L[l]))]
         IN  Reserved(m, L, S, l, n,
                      [m |-> IF a.ptr = L[l].ptr THEN [m EXCEPT ![to] = a] ELSE Left(new, L[l]),
                       d |-> [L[l] EXCEPT !.ptr = a.ptr, !.cap = cap]])
<1> DEFINE d == L[l]
           to == owner[d.arena]
           o == m[to]
           a == Realloc(o, d.ptr, d.cap, cap)
           e == [d EXCEPT !.ptr = a.ptr, !.cap = cap]
           K == [L EXCEPT ![l] = NewList("from")]
           new == [m EXCEPT ![to] = Write(a, a.ptr, 0, Contents(m, d))]
           r == IF a.ptr = d.ptr THEN [m EXCEPT ![to] = a] ELSE Left(new, d)
<1>1. /\ MemoryOK(m) /\ d \in ListType /\ Placed(m, d) /\ L \in [S -> ListType]
  BY SMTT(30) DEF Sound
<1>2. /\ d = [ptr |-> d.ptr, count |-> d.count, cap |-> d.cap, arena |-> d.arena]
      /\ d.arena \in {"from", "to"} /\ to \in Memories /\ d.count \in Nat /\ d.count <= d.cap
      /\ d.cap \in Nat \ {0} /\ d.ptr.off \in Nat
  BY <1>1, ListFacts, PlacedFacts DEF Owners, Placed
<1>3. to = d.ptr.mem
  BY <1>1, <1>2 DEF MemoryOK, ArenaOK
<1>4. /\ ArenaOK(o) /\ o.mem = to /\ o.last = d.ptr.block /\ o.last \in 1..Len(o.blocks)
      /\ LastBlock(o) = o.blocks[o.last] /\ LastBlock(o).cap \in Nat
      /\ o.blocks[o.last].count = d.ptr.off + d.cap
      /\ o.blocks[o.last].count <= LastBlock(o).cap
  <2>1. m[L[l].ptr.mem].ptr = L[l].ptr /\ m[L[l].ptr.mem] = o
    BY <1>3
  <2>2. EndsIn(m[L[l].ptr.mem], L[l])
    BY <2>1, LastGiven
  <2>3. EndsIn(o, d)
    BY <2>1, <2>2, SMTT(30)
  <2> HIDE DEF d, o, to
  <2> QED
    BY <1>3, <2>3, SMTT(30) DEF EndsIn
<1>5. Free(o) = LastBlock(o).cap - (d.ptr.off + d.cap)
  BY <1>4 DEF Free
<1>6. d.ptr \in Place
  BY <1>1, ListFacts
<1>7. ASSUME cap - d.cap <= Free(o)
      PROVE  Reserved(m, L, S, l, n, [m |-> r, d |-> e])
  <2> DEFINE c == o.blocks[o.last].count + cap - d.cap
             g == [ptr |-> d.ptr, count |-> d.count, cap |-> cap, arena |-> d.arena]
  <2>1. a = [o EXCEPT !.blocks[o.last].count = c]
    BY <1>7 DEF Realloc
  <2>2. c = d.ptr.off + cap /\ c \in d.ptr.off..LastBlock(o).cap
    <3> DEFINE off == d.ptr.off
               was == d.cap
               top == LastBlock(o).cap
               full == o.blocks[o.last].count
    <3>1. /\ off \in Nat /\ was \in Nat /\ top \in Nat /\ full = off + was
          /\ cap - was <= top - (off + was) /\ c = full + (cap - was)
      BY <1>2, <1>4, <1>5, <1>7
    <3> HIDE DEF off, was, top, full, c
    <3>2. c = off + cap /\ c \in off..top
      BY <3>1
    <3> QED
      BY <3>2, SMTT(30) DEF off, top
  <2>3. g \in ListType /\ g.ptr = d.ptr /\ g.cap = cap /\ g.count = d.count /\ g.arena = d.arena
    BY <1>2, <1>6, SMTT(30) DEF ListType
  <2> DEFINE n1 == [m EXCEPT ![to] = [o EXCEPT !.blocks[o.last].count = c]]
  <2>4. /\ [o EXCEPT !.blocks[o.last].count = c].ptr = o.ptr
        /\ Sound(n1, [L EXCEPT ![l] = g], S) /\ \A k \in S : SameItems(m, n1, L[k])
    <3>1. /\ m[L[l].ptr.mem].ptr = L[l].ptr /\ c \in L[l].ptr.off..LastBlock(m[L[l].ptr.mem]).cap
          /\ g.count <= g.cap /\ g.ptr = L[l].ptr /\ g.cap > 0 /\ g.ptr.off + g.cap = c
      <4>1. m[L[l].ptr.mem] = o /\ o.ptr = L[l].ptr
        BY <1>3
      <4>2. g.count <= g.cap /\ g.cap > 0
        <5>1. d.cap \in Nat /\ d.count \in Nat /\ d.count <= d.cap /\ d.cap < cap
          BY <1>2, SMTT(30)
        <5> HIDE DEF g, d
        <5> QED
          BY <2>3, <5>1
      <4> HIDE DEF g, c, o
      <4> QED
        BY <2>2, <2>3, <4>1, <4>2, SMTT(30)
    <3> HIDE DEF g, c
    <3>2. Recounted(m, S, L, l, c, g)
      BY <2>3, <3>1, Recount, SMTT(30)
    <3> QED
      BY <1>3, <3>2 DEF Recounted, SameCells, Moved
  <2>5. a.ptr = d.ptr
    BY <2>1, <2>4, ZenonT(30)
  <2>6. r = n1
    BY <2>1, <2>5
  <2>7. e = g
    <3>1. e = [d EXCEPT !.ptr = a.ptr, !.cap = cap]
      OBVIOUS
    <3> HIDE DEF d, e, a
    <3> QED
      BY <1>2, <2>5, <3>1
  <2> HIDE DEF n1, g, r, e
  <2>8. Contents(n1, g) = Contents(m, d)
    <3>1. Contents(n1, d) = Contents(m, d)
      BY <1>1, <2>4, KeptContents
    <3> QED
      BY <2>3, <3>1 DEF Contents
  <2> QED
    BY <2>3, <2>4, <2>6, <2>7, <2>8 DEF Reserved
<1>8. ASSUME ~(cap - d.cap <= Free(o))
      PROVE  Reserved(m, L, S, l, n, [m |-> r, d |-> e])
  <2> DEFINE c == o.blocks[o.last].count - d.cap
             b == [o EXCEPT !.blocks[o.last].count = c]
             more == Larger(2 * LastBlock(o).cap, cap)
  <2>1. a = Take(NewBlock(b, more), cap)
    BY <1>8 DEF Realloc
  <2>2. c = d.ptr.off /\ c \in d.ptr.off..LastBlock(o).cap
    <3> DEFINE off == d.ptr.off
               was == d.cap
               top == LastBlock(o).cap
               full == o.blocks[o.last].count
    <3>1. /\ off \in Nat /\ was \in Nat /\ top \in Nat /\ full = off + was
          /\ full <= top /\ c = full - was
      BY <1>2, <1>4
    <3> HIDE DEF off, was, top, full, c
    <3>2. c = off /\ c \in off..top
      BY <3>1, SMTT(30)
    <3> QED
      BY <3>2, SMTT(30) DEF off, top
  <2>3. SameCells(o, b) /\ Sound([m EXCEPT ![to] = b], K, S)
    <3>1. /\ m[L[l].ptr.mem].ptr = L[l].ptr /\ c \in L[l].ptr.off..LastBlock(m[L[l].ptr.mem]).cap
          /\ NewList("from") \in ListType /\ NewList("from").ptr = Nowhere
          /\ NewList("from").cap = 0 /\ NewList("from").count <= NewList("from").cap
      <4>1. m[L[l].ptr.mem] = o /\ o.ptr = L[l].ptr
        BY <1>3
      <4> HIDE DEF c, o
      <4> QED
        BY <2>2, <4>1, Empties, SMTT(30)
    <3> HIDE DEF c
    <3>2. Recounted(m, S, L, l, c, NewList("from"))
      BY <3>1, Recount
    <3> QED
      BY <1>3, <3>2 DEF Recounted, Moved
  <2>4. GivesOut(b, a, cap) /\ a.last = b.last + 1
    <3>1. more \in Nat /\ cap <= more
      <4> DEFINE top == LastBlock(o).cap
      <4>1. top \in Nat
        BY <1>4, ZenonT(30)
      <4> HIDE DEF top
      <4> QED
        BY <4>1, SMTT(30) DEF Larger, top
    <3>2. ArenaOK(b)
      BY <2>3 DEF SameCells
    <3> HIDE DEF b, more, a
    <3> QED
      BY <2>1, <3>1, <3>2, NewGivesOut
  <2> HIDE DEF a, b
  <2>5. a.ptr.block # d.ptr.block
    <3>1. a.ptr.block = a.last /\ b.last \in Nat
      BY <2>3, <2>4, ArenaFacts, ZenonT(30) DEF GivesOut, SameCells
    <3>2. b.last = d.ptr.block
      BY <1>4, <2>3 DEF SameCells
    <3> QED
      BY <2>4, <3>1, <3>2, SMTT(30)
  <2>6. a.ptr # d.ptr /\ a.ptr.mem = to /\ Relocated(m, Left(new, d), S, L, l, e)
    <3>1. Freed(m, to, b, S, L, l)
      BY <2>3 DEF Freed
    <3> HIDE DEF to
    <3>2. MovedTo(m, to, a, S, L, l, cap)
      BY <1>2, <2>4, <2>5, <3>1, Relocates
    <3> QED
      BY <3>2 DEF MovedTo
  <2>7. e = [ptr |-> a.ptr, count |-> d.count, cap |-> cap, arena |-> d.arena]
    <3>1. e = [d EXCEPT !.ptr = a.ptr, !.cap = cap]
      OBVIOUS
    <3> HIDE DEF d, e
    <3> QED
      BY <1>2, <3>1
  <2>8. e.count = d.count /\ e.arena = d.arena /\ e.cap = cap /\ e.ptr = a.ptr
    BY <2>7
  <2>9. r = Left(new, d)
    BY <2>6
  <2> HIDE DEF e, r, new, to
  <2> QED
    BY <2>6, <2>8, <2>9 DEF Reserved, Relocated, to
<1> QED
  BY <1>7, <1>8


LEMMA ReserveFacts ==
  ASSUME Owners, NEW S, NEW L, NEW m, Sound(m, L, S), NEW l \in S, NEW n \in Nat
  PROVE  Reserved(m, L, S, l, n, Reserve(m, L[l], n))
<1> DEFINE d == L[l]
           to == owner[d.arena]
           cap == Capacity(d.cap, n)
           a == IF d.ptr = Nowhere THEN Alloc(m[to], cap) ELSE Realloc(m[to], d.ptr, d.cap, cap)
           new == [m EXCEPT ![to] = Write(a, a.ptr, 0, Contents(m, d))]
           r == [m |-> IF a.ptr = d.ptr THEN [m EXCEPT ![to] = a] ELSE Left(new, d),
                 d |-> [d EXCEPT !.ptr = a.ptr, !.cap = cap]]
<1>1. d \in ListType /\ d.cap \in Nat /\ (d.ptr = Nowhere => d.cap = 0) /\ L \in [S -> ListType]
  BY ListFacts DEF Sound, Placed
<1>2. /\ cap \in Nat /\ cap >= n /\ (n <= d.cap => cap = d.cap) /\ (n > d.cap => cap > d.cap)
  BY <1>1, CapacityFacts
<1>3. Reserve(m, d, n) = IF cap = d.cap THEN [m |-> m, d |-> d] ELSE r
  BY DEF Reserve
<1> HIDE DEF cap
<1>4. CASE cap = d.cap
  <2>1. [L EXCEPT ![l] = d] = L
    BY <1>1
  <2> QED
    BY <1>2, <1>3, <1>4, <2>1 DEF Reserved, SameItems
<1>5. CASE cap # d.cap
  <2>1. cap > d.cap
    BY <1>1, <1>2, <1>5
  <2>2. CASE d.ptr = Nowhere
    <3>1. cap > 0 /\ a = Alloc(m[to], cap)
      BY <1>1, <2>1, <2>2
    <3> HIDE DEF a
    <3>2. /\ a.ptr # Nowhere
          /\ Reserved(m, L, S, l, n, [m |-> new, d |-> [d EXCEPT !.ptr = a.ptr, !.cap = cap]])
      BY <1>2, <2>2, <3>1, ReserveFirst, ZenonT(30)
    <3>3. r = [m |-> new, d |-> [d EXCEPT !.ptr = a.ptr, !.cap = cap]]
      BY <2>2, <3>2 DEF Left
    <3> QED
      BY <1>3, <1>5, <3>2, <3>3
  <2>3. CASE d.ptr # Nowhere /\ d.ptr # m[to].ptr
    <3>1. a = Alloc(m[to], cap)
      BY <2>3 DEF Realloc
    <3> HIDE DEF a
    <3>2. /\ a.ptr # d.ptr
          /\ Reserved(m, L, S, l, n, [m |-> Left(new, d), d |-> [d EXCEPT !.ptr = a.ptr, !.cap = cap]])
      BY <1>2, <2>1, <2>3, <3>1, ReserveMoves, ZenonT(30)
    <3> QED
      BY <1>3, <1>5, <3>2
  <2>4. CASE d.ptr # Nowhere /\ d.ptr = m[to].ptr
    <3>1. a = Realloc(m[to], d.ptr, d.cap, cap)
      BY <2>4
    <3> HIDE DEF a
    <3>2. Reserved(m, L, S, l, n, r)
      BY <1>2, <2>1, <2>4, <3>1, ReserveLast
    <3> QED
      BY <1>3, <1>5, <3>2
  <2> QED
    BY <2>2, <2>3, <2>4
<1> QED
  BY <1>4, <1>5

\* List d has its items in memory m.
IsList(m, d) ==
  /\ d \in ListType /\ Placed(m, d) /\ d.count \in Nat /\ d.cap \in Nat
  /\ d.count <= d.cap /\ (d.cap > 0 => d.ptr # Nowhere)
  /\ Contents(m, d) \in Seq(Cell) /\ Len(Contents(m, d)) = d.count
  /\ Contents(m, d) = [j \in 1..d.count |-> Contents(m, d)[j]]
  /\ \A j \in 1..d.count : Contents(m, d)[j] = Read(m[d.ptr.mem], d.ptr, j - 1)

(* What a list of a sound memory is. *)
LEMMA SoundList ==
  ASSUME NEW S, NEW L, NEW m, Sound(m, L, S), NEW l \in S
  PROVE  IsList(m, L[l])
<1> DEFINE d == L[l]
<1>1. MemoryOK(m) /\ d \in ListType /\ Placed(m, d)
  BY DEF Sound
<1> HIDE DEF d
<1>2. d.count \in Nat /\ d.cap \in Nat
  BY <1>1, ListFacts
<1>3. d.count <= d.cap /\ (d.cap > 0 => d.ptr # Nowhere)
  BY <1>1, <1>2 DEF Placed
<1>4. /\ Contents(m, d) \in Seq(Cell) /\ Len(Contents(m, d)) = d.count
      /\ Contents(m, d) = [j \in 1..d.count |-> Contents(m, d)[j]]
      /\ \A j \in 1..d.count : Contents(m, d)[j] = Read(m[d.ptr.mem], d.ptr, j - 1)
  BY <1>1, ContentsFacts
<1> QED
  BY <1>1, <1>2, <1>3, <1>4 DEF IsList, d

\* Memory n is m with s written to list l from "from" on, and e is the list
\* with its count set.
Written(m, n, S, L, l, e, from, s, count) ==
  LET d == L[l]
  IN  /\ Sound(n, [L EXCEPT ![l] = e], S)
      /\ \A k \in S : k # l => SameItems(m, n, L[k])
      /\ e.ptr = d.ptr /\ e.cap = d.cap /\ e.count = count /\ e.arena = d.arena
      /\ \A j \in 1..count : j \in from + 1..from + Len(s) => Contents(n, e)[j] = s[j - from]
      /\ \A j \in 1..count : j \in 1..d.count /\ j \notin from + 1..from + Len(s) =>
           Contents(n, e)[j] = Contents(m, d)[j]

(* The list and its items when its places from "from" on have been written *)
(* to and its count is set.                                                *)
LEMMA WrittenFacts ==
  ASSUME NEW S, NEW L, NEW m, Sound(m, L, S), NEW l \in S, L[l].ptr # Nowhere,
         NEW from \in Nat, NEW s \in Seq(Cell), from + Len(s) <= L[l].cap,
         NEW count \in Nat, count <= L[l].cap
  PROVE  Written(m, WriteItems(m, L[l], from, s), S, L, l, [L[l] EXCEPT !.count = count],
                 from, s, count)
<1> DEFINE d == L[l]
           n == WriteItems(m, d, from, s)
           e == [d EXCEPT !.count = count]
           E == [L EXCEPT ![l] = e]
<1>1. /\ Sound(n, L, S) /\ \A k \in S : k # l => SameItems(m, n, L[k])
      /\ \A j \in 0..d.cap - 1 :
           Read(n[d.ptr.mem], d.ptr, j) = Over(s, j - from, Read(m[d.ptr.mem], d.ptr, j))
  <2>1. WroteList(m, n, S, L, l, from, s)
    BY WriteList
  <2> HIDE DEF n
  <2> QED
    BY <2>1 DEF WroteList
<1>2. /\ d \in ListType /\ d.cap \in Nat /\ d.count \in Nat /\ Len(s) \in Nat
      /\ d = [ptr |-> d.ptr, count |-> d.count, cap |-> d.cap, arena |-> d.arena]
  <2>1. d \in ListType /\ Len(s) \in Nat
    BY DEF Sound
  <2> HIDE DEF d
  <2> QED
    BY <2>1, ListFacts
<1>3. e = [ptr |-> d.ptr, count |-> count, cap |-> d.cap, arena |-> d.arena]
  <2>1. e = [d EXCEPT !.count = count]
    OBVIOUS
  <2> HIDE DEF d, e
  <2> QED
    BY <1>2, <2>1
<1>4. e \in ListType /\ e.ptr = d.ptr /\ e.cap = d.cap /\ e.count = count /\ e.arena = d.arena
  BY <1>2, <1>3 DEF ListType
<1> HIDE DEF n, e
<1>5. /\ L \in [S -> ListType] /\ MemoryOK(n) /\ \A k \in S : Placed(n, L[k])
      /\ \A j, k \in S : j # k => Distinct(L[j], L[k])
  BY <1>1 DEF Sound
<1>6. E \in [S -> ListType] /\ \A k \in S : E[k] = IF k = l THEN e ELSE L[k]
  BY <1>4, <1>5
<1> HIDE DEF E
<1>7. Sound(n, E, S)
  <2>1. Placed(n, e)
    BY <1>4, <1>5 DEF Placed
  <2>2. \A k \in S : Placed(n, E[k])
    BY <1>5, <1>6, <2>1
  <2>3. \A j, k \in S : j # k => Distinct(E[j], E[k])
    BY <1>4, <1>5, <1>6 DEF Distinct
  <2> QED
    BY <1>5, <1>6, <2>2, <2>3 DEF Sound
<1>8. Contents(n, e) = [j \in 1..count |-> Read(n[d.ptr.mem], d.ptr, j - 1)]
  BY <1>4 DEF Contents
<1>9. ASSUME NEW j \in 1..count, j \in from + 1..from + Len(s)
      PROVE  Contents(n, e)[j] = s[j - from]
  <2>1. /\ j - 1 \in 0..d.cap - 1 /\ (j - 1) - from \in 0..Len(s) - 1
        /\ (j - 1) - from + 1 = j - from
    BY <1>2, <1>9
  <2> HIDE DEF d
  <2> QED
    BY <1>1, <1>8, <2>1 DEF Over
<1>10. ASSUME NEW j \in 1..count, j \in 1..d.count, j \notin from + 1..from + Len(s)
       PROVE  Contents(n, e)[j] = Contents(m, d)[j]
  <2>1. /\ j - 1 \in 0..d.cap - 1 /\ (j - 1) - from \notin 0..Len(s) - 1
    BY <1>2, <1>10
  <2>2. Contents(m, d)[j] = Read(m[d.ptr.mem], d.ptr, j - 1)
    BY <1>10 DEF Contents
  <2> HIDE DEF d
  <2> QED
    BY <1>1, <1>8, <2>1, <2>2 DEF Over
<1>11. Written(m, n, S, L, l, e, from, s, count)
  BY <1>1, <1>4, <1>7, <1>9, <1>10 DEF Written, E
<1> QED
  BY <1>11 DEF n, e

\* In memory n list l has become e, which has the items s behind those of l.
Appended(m, n, S, L, l, e, s) ==
  /\ Sound(n, [L EXCEPT ![l] = e], S)
  /\ e.count = L[l].count + Len(s) /\ e.arena = L[l].arena
  /\ \A k \in S : k # l => SameItems(m, n, L[k])
  /\ Contents(n, e) = Contents(m, L[l]) \o s
  /\ e.ptr = L[l].ptr \/ e.ptr.mem = owner[L[l].arena]

(* da_append_many puts the items behind those the list has. *)
LEMMA AppendManyFacts ==
  ASSUME Owners, NEW S, NEW L, NEW m, Sound(m, L, S), NEW l \in S, NEW s \in Seq(Cell)
  PROVE  Appended(m, AppendMany(m, L[l], s).m, S, L, l, AppendMany(m, L[l], s).d, s)
<1> DEFINE d == L[l]
           n == d.count + Len(s)
           q == Reserve(m, d, n)
           r == AppendMany(m, d, s)
           Q == [L EXCEPT ![l] = q.d]
<1>1. /\ d.count \in Nat /\ Len(s) \in Nat /\ n \in Nat /\ L \in [S -> ListType]
      /\ Contents(m, d) \in Seq(Cell) /\ Len(Contents(m, d)) = d.count
  <2>1. L \in [S -> ListType] /\ Len(s) \in Nat
    BY DEF Sound
  <2>2. d.count \in Nat /\ Contents(m, d) \in Seq(Cell) /\ Len(Contents(m, d)) = d.count
    <3>1. IsList(m, L[l])
      BY SoundList
    <3> QED
      BY <3>1 DEF IsList
  <2> HIDE DEF d
  <2> QED
    BY <2>1, <2>2 DEF n
<1>2. Reserved(m, L, S, l, n, q)
  <2> HIDE DEF n
  <2> QED
    BY <1>1, ReserveFacts
<1> HIDE DEF n, q
<1>3. /\ Sound(q.m, Q, S) /\ q.d.count = d.count /\ q.d.arena = d.arena /\ q.d.cap >= n
      /\ \A k \in S : k # l => SameItems(m, q.m, L[k])
      /\ Contents(q.m, q.d) = Contents(m, d)
      /\ q.d.ptr = d.ptr \/ q.d.ptr.mem = owner[d.arena]
  BY <1>2 DEF Reserved
<1>4. Q \in [S -> ListType] /\ Q[l] = q.d /\ \A k \in S : k # l => Q[k] = L[k]
  BY <1>1, <1>3 DEF Sound
<1>5. CASE s = <<>>
  <2>1. r = q /\ Len(s) = 0
    BY <1>5 DEF AppendMany, q, n
  <2>2. Contents(m, d) \o s = Contents(m, d)
    BY <1>1, <1>5, ConcatEmptySeq
  <2> HIDE DEF r
  <2> QED
    BY <1>1, <1>3, <2>1, <2>2 DEF Appended, r
<1>6. CASE s # <<>>
  <2> DEFINE w == WriteItems(q.m, q.d, d.count, s)
             e == [q.d EXCEPT !.count = n]
  <2>1. r = [m |-> w, d |-> e]
    BY <1>3, <1>6 DEF AppendMany, WriteItems, q, n
  <2>2. q.d.cap \in Nat /\ q.d.cap > 0 /\ q.d.ptr # Nowhere
    <3>1. Len(s) > 0
      BY <1>1, <1>6, EmptySeq
    <3>2. q.d.cap \in Nat /\ (q.d.cap > 0 => q.d.ptr # Nowhere)
      <4> HIDE DEF Q
      <4>1. IsList(q.m, Q[l])
        BY <1>3, SoundList
      <4> QED
        BY <1>4, <4>1 DEF IsList
    <3> QED
      BY <1>1, <1>3, <3>1, <3>2 DEF n
  <2>3. /\ Sound(w, [Q EXCEPT ![l] = e], S)
        /\ \A k \in S : k # l => SameItems(q.m, w, Q[k])
        /\ e.ptr = q.d.ptr /\ e.cap = q.d.cap /\ e.count = n /\ e.arena = q.d.arena
        /\ \A j \in 1..n : j \in d.count + 1..d.count + Len(s) => Contents(w, e)[j] = s[j - d.count]
        /\ \A j \in 1..n : j \in 1..q.d.count /\ j \notin d.count + 1..d.count + Len(s) =>
             Contents(w, e)[j] = Contents(q.m, q.d)[j]
    <3>1. d.count + Len(s) <= Q[l].cap /\ n <= Q[l].cap
      BY <1>3, <1>4 DEF n
    <3>2. Sound(q.m, Q, S) /\ Q[l] = q.d /\ Q[l].ptr # Nowhere
      BY <1>3, <1>4, <2>2
    <3> HIDE DEF Q, d
    <3>3. Written(q.m, WriteItems(q.m, Q[l], d.count, s), S, Q, l, [Q[l] EXCEPT !.count = n],
                  d.count, s, n)
      BY <1>1, <3>1, <3>2, WrittenFacts
    <3>4. Written(q.m, w, S, Q, l, e, d.count, s, n)
      BY <3>2, <3>3
    <3> HIDE DEF w, e
    <3> QED
      BY <3>2, <3>4 DEF Written
  <2> HIDE DEF w, e
  <2>4. [Q EXCEPT ![l] = e] = [L EXCEPT ![l] = e]
    BY <1>1
  <2>5. Contents(w, e) = Contents(m, d) \o s
    <3> DEFINE t == Contents(m, d)
    <3>1. t \o s = [j \in 1..n |-> IF j <= Len(t) THEN t[j] ELSE s[j - Len(t)]]
      BY <1>1 DEF n
    <3>2. Contents(w, e) = [j \in 1..n |-> Contents(w, e)[j]]
      BY <2>3 DEF Contents
    <3>3. ASSUME NEW j \in 1..n
          PROVE  Contents(w, e)[j] = IF j <= Len(t) THEN t[j] ELSE s[j - Len(t)]
      <4>1. CASE j <= d.count
        <5>1. j \in 1..q.d.count /\ j \notin d.count + 1..d.count + Len(s)
          BY <1>1, <1>3, <4>1
        <5> HIDE DEF t
        <5> QED
          BY <1>1, <1>3, <2>3, <4>1, <5>1 DEF t
      <4>2. CASE ~(j <= d.count)
        <5>1. j \in d.count + 1..d.count + Len(s)
          BY <1>1, <4>2 DEF n
        <5> QED
          BY <1>1, <2>3, <4>2, <5>1
      <4> QED
        BY <4>1, <4>2
    <3> HIDE DEF t
    <3> QED
      BY <3>1, <3>2, <3>3 DEF t
  <2>6. \A k \in S : k # l => SameItems(m, w, L[k])
    <3> HIDE DEF Q
    <3> QED
      BY <1>3, <1>4, <2>3, SameAgain
  <2> HIDE DEF r
  <2> QED
    BY <1>3, <2>1, <2>3, <2>4, <2>5, <2>6, SMTT(30) DEF Appended, r, n
<1> QED
  BY <1>5, <1>6


-----------------------------------------------------------------------------
(* The operations.                                                         *)

IInv == Owners /\ Sound(mem, list, List)

\* List l has the items s now, and the others have what they had.
Changes(l, s) == \A k \in List : Contents(mem', list'[k]) = IF k = l THEN s ELSE Items(k)

LEMMA DoesStep ==
  ASSUME IInv, NEW l \in List, NEW m, NEW d, Does(l, m, d), Sound(m, [list EXCEPT ![l] = d], List),
         \A k \in List : k # l => SameItems(mem, m, list[k])
  PROVE  IInv' /\ Changes(l, Contents(m, d))
<1>1. /\ mem' = m /\ list' = [list EXCEPT ![l] = d] /\ owner' = owner
      /\ list \in [List -> ListType] /\ \A k \in List : Placed(mem, list[k])
  BY DEF Does, IInv, Sound
<1>2. IInv'
  BY <1>1 DEF IInv, Owners
<1>3. ASSUME NEW k \in List, k # l PROVE Contents(m, list[k]) = Items(k)
  BY <1>1, <1>3, KeptContents DEF Items
<1> QED
  BY <1>1, <1>2, <1>3 DEF Changes

LEMMA OneItem == \A v \in Cell : /\ <<v>> \in Seq(Cell) /\ Len(<<v>>) = 1 /\ <<v>>[1] = v
OBVIOUS

LEMMA ListItems ==
  ASSUME IInv, NEW l \in List
  PROVE  /\ list[l] \in ListType /\ Placed(mem, list[l])
         /\ list[l].count \in Nat /\ list[l].cap \in Nat
         /\ list[l].count <= list[l].cap /\ (list[l].cap > 0 => list[l].ptr # Nowhere)
         /\ Items(l) \in Seq(Cell) /\ Len(Items(l)) = list[l].count
         /\ Items(l) = [j \in 1..list[l].count |-> Items(l)[j]]
         /\ \A j \in 1..list[l].count : Items(l)[j] = Read(mem[list[l].ptr.mem], list[l].ptr, j - 1)
<1>1. IsList(mem, list[l])
  BY SoundList DEF IInv
<1> QED
  BY <1>1 DEF IsList, Items

(* The places a list holds. *)
LEMMA HoldsFacts ==
  ASSUME NEW m, MemoryOK(m), NEW d \in ListType, Placed(m, d), NEW k \in 0..d.count - 1
  PROVE  d.count <= d.cap /\ Has(m[d.ptr.mem], d.ptr, k)
<1>1. d.count \in Nat /\ d.cap \in Nat /\ d.count <= d.cap /\ (d.ptr = Nowhere => d.cap = 0)
  BY ListFacts DEF Placed
<1>2. d.ptr # Nowhere /\ k \in 0..d.cap - 1
  BY <1>1
<1> QED
  BY <1>1, <1>2, PlacedFacts

LEMMA AppendToStep ==
  ASSUME IInv, NEW l \in List, NEW v \in Value, AppendTo(l, v)
  PROVE  IInv' /\ Changes(l, Append(Items(l), v))
<1> DEFINE r == AppendMany(mem, list[l], <<v>>)
<1>1. v \in Cell
  BY DEF Cell
<1>2. /\ Sound(r.m, [list EXCEPT ![l] = r.d], List)
      /\ \A k \in List : k # l => SameItems(mem, r.m, list[k])
      /\ Contents(r.m, r.d) = Items(l) \o <<v>>
  <2>1. <<v>> \in Seq(Cell) /\ Sound(mem, list, List) /\ Owners
    BY <1>1, OneItem DEF IInv
  <2>2. Appended(mem, r.m, List, list, l, r.d, <<v>>)
    BY <2>1, AppendManyFacts
  <2> HIDE DEF r
  <2> QED
    BY <2>2 DEF Appended, Items
<1>3. Does(l, r.m, r.d)
  BY DEF AppendTo
<1>4. Items(l) \o <<v>> = Append(Items(l), v)
  BY <1>1, ListItems, AppendIsConcat
<1> HIDE DEF r
<1> QED
  BY <1>2, <1>3, <1>4, DoesStep

(* insert() with an index that is an item or the place behind the last. *)
LEMMA InsertStep ==
  ASSUME IInv, NEW l \in List, NEW i \in Int, NEW v \in Value, Insert(l, i, v)
  PROVE  /\ IInv' /\ i + 1 \in 1..Len(Items(l)) + 1
         /\ Changes(l, Store!InsertAt(Items(l), i + 1, v))
<1> DEFINE d == list[l]
           n == d.count + 1
           q == Reserve(mem, d, n)
           w == Widened(l)
           t == Items(l)
           s == <<v>> \o SubSeq(t, i + 1, d.count)
           Q == [list EXCEPT ![l] = q.d]
           e == [q.d EXCEPT !.count = n]
           m == WriteItems(q.m, q.d, i, s)
<1>1. /\ d.count \in Nat /\ n \in Nat /\ t \in Seq(Cell) /\ Len(t) = d.count
      /\ list \in [List -> ListType] /\ v \in Cell
  BY ListItems DEF IInv, Sound, Cell
<1>2. Reserved(mem, list, List, l, n, q)
  <2> HIDE DEF n
  <2> QED
    BY <1>1, ReserveFacts DEF IInv
<1> HIDE DEF q
<1>3. /\ Sound(q.m, Q, List) /\ q.d.count = d.count /\ q.d.cap >= n
      /\ \A k \in List : k # l => SameItems(mem, q.m, list[k])
      /\ Contents(q.m, q.d) = t
  BY <1>2 DEF Reserved, Items
<1>4. Q[l] = q.d /\ (\A k \in List : k # l => Q[k] = list[k]) /\ Q \in [List -> ListType]
  BY <1>1, <1>3, SMTT(30) DEF Sound
<1> HIDE DEF Q
<1>5. w = [q EXCEPT !.d.count = n] /\ q = [m |-> q.m, d |-> q.d]
  BY <1>3 DEF Widened, q, Reserve
<1>6. w = [m |-> q.m, d |-> e]
  BY <1>5
<1>7. e.count = n /\ e.ptr = q.d.ptr
  <2>1. q.d = [ptr |-> q.d.ptr, count |-> q.d.count, cap |-> q.d.cap, arena |-> q.d.arena]
    BY <1>4, ListFacts
  <2> QED
    BY <2>1
<1>8. i \in 0..d.count
  <2>1. i \in 0..e.count - 1
    <3>1. Holds(w.m, w.d, {i} \cup i..d.count) /\ w.d = e
      BY <1>6 DEF Insert, InsertStays
    <3> HIDE DEF w, e, d
    <3> QED
      BY <3>1 DEF Holds
  <2> QED
    BY <1>1, <1>7, <2>1
<1>9. /\ s \in Seq(Cell) /\ Len(s) = n - i /\ s[1] = v
      /\ \A j \in 2..n - i : s[j] = t[i + j - 1]
  <2> DEFINE u == SubSeq(t, i + 1, d.count)
  <2>1. /\ u \in Seq(Cell) /\ Len(u) = d.count - i
        /\ \A j \in 1..d.count - i : u[j] = t[i + j]
    <3>1. \A j \in i + 1..d.count : t[j] \in Cell
      BY <1>1, <1>8, ElementOfSeq
    <3>2. /\ u \in Seq(Cell) /\ Len(u) = IF i + 1 <= d.count THEN d.count - (i + 1) + 1 ELSE 0
          /\ \A j \in 1..d.count - (i + 1) + 1 : u[j] = t[i + 1 + j - 1]
      BY <1>1, <3>1, SubSeqProperties
    <3>3. \A j \in 1..d.count - i : i + 1 + j - 1 = i + j
      BY <1>1
    <3> HIDE DEF u
    <3> QED
      BY <1>1, <1>8, <3>2, <3>3
  <2>2. /\ <<v>> \o u \in Seq(Cell) /\ Len(<<v>> \o u) = 1 + Len(u)
        /\ \A j \in 1..1 + Len(u) : (<<v>> \o u)[j] = IF j <= 1 THEN <<v>>[j] ELSE u[j - 1]
    BY <1>1, <2>1, OneItem, ConcatProperties, SMTT(30)
  <2>3. \A j \in 2..n - i : (j - 1) \in 1..d.count - i /\ i + (j - 1) = i + j - 1
    BY <1>1, <1>8
  <2> HIDE DEF u
  <2>4. s = <<v>> \o u
    BY DEF u
  <2> HIDE DEF s, t
  <2> QED
    BY <1>1, <1>8, <2>1, <2>2, <2>3, <2>4
<1> HIDE DEF s, e
<1>10. q.d.cap \in Nat /\ q.d.ptr # Nowhere /\ i + Len(s) = n
  <2>1. q.d.cap \in Nat /\ (q.d.cap > 0 => q.d.ptr # Nowhere)
    <3>1. IsList(q.m, Q[l])
      BY <1>3, SoundList
    <3> QED
      BY <1>4, <3>1 DEF IsList
  <2> QED
    BY <1>1, <1>3, <1>8, <1>9, <2>1
<1>11. /\ Sound(m, [Q EXCEPT ![l] = e], List)
       /\ \A k \in List : k # l => SameItems(q.m, m, Q[k])
       /\ \A j \in 1..n : j \in i + 1..i + Len(s) => Contents(m, e)[j] = s[j - i]
       /\ \A j \in 1..n : j \in 1..q.d.count /\ j \notin i + 1..i + Len(s) =>
            Contents(m, e)[j] = Contents(q.m, q.d)[j]
  <2>1. i + Len(s) <= Q[l].cap /\ n <= Q[l].cap /\ i \in Nat
    BY <1>1, <1>3, <1>4, <1>8, <1>10
  <2>2. n \in Nat /\ s \in Seq(Cell) /\ Sound(q.m, Q, List) /\ Q[l].ptr # Nowhere
    BY <1>1, <1>3, <1>4, <1>9, <1>10
  <2> HIDE DEF n, m
  <2>3. Written(q.m, WriteItems(q.m, Q[l], i, s), List, Q, l, [Q[l] EXCEPT !.count = n], i, s, n)
    BY <2>1, <2>2, WrittenFacts
  <2>4. Written(q.m, m, List, Q, l, e, i, s, n)
    BY <1>4, <2>3 DEF m, e
  <2> QED
    BY <1>4, <2>4 DEF Written
<1>12. [Q EXCEPT ![l] = e] = [list EXCEPT ![l] = e]
  BY <1>1 DEF Q
<1>13. Does(l, m, e)
  <2>1. w.m = q.m /\ w.d = e /\ WriteItems(w.m, w.d, i, s) = m
    BY <1>6, <1>7 DEF WriteItems
  <2> HIDE DEF w, m
  <2> QED
    BY <2>1 DEF Insert, w, s
<1> HIDE DEF m
<1>14. IInv' /\ Changes(l, Contents(m, e))
  <2>1. \A k \in List : k # l => SameItems(mem, m, list[k])
    BY <1>3, <1>4, <1>11, SameAgain
  <2> QED
    BY <1>11, <1>12, <1>13, <2>1, DoesStep
<1>15. Contents(m, e) = Store!InsertAt(t, i + 1, v)
  <2> DEFINE u == SubSeq(t, 1, i)
             x == Store!InsertAt(t, i + 1, v)
  <2>1. u \in Seq(Cell) /\ Len(u) = i /\ \A j \in 1..i : u[j] = t[j]
    <3>1. \A j \in 1..i : t[j] \in Cell
      BY <1>1, <1>8, ElementOfSeq
    <3>2. /\ u \in Seq(Cell) /\ Len(u) = IF 1 <= i THEN i - 1 + 1 ELSE 0
          /\ \A j \in 1..i - 1 + 1 : u[j] = t[1 + j - 1]
      BY <1>1, <3>1, SubSeqProperties
    <3> HIDE DEF u
    <3> QED
      BY <1>1, <1>8, <3>2
  <2>2. x = u \o s
    <3>1. (i + 1) - 1 = i /\ Len(t) = d.count
      BY <1>1
    <3>2. x = (SubSeq(t, 1, (i + 1) - 1) \o <<v>>) \o SubSeq(t, i + 1, Len(t))
      BY DEF Store!InsertAt
    <3>3. x = (u \o <<v>>) \o SubSeq(t, i + 1, d.count)
      BY <3>1, <3>2
    <3>4. SubSeq(t, i + 1, d.count) \in Seq(Cell)
      <4>1. \A j \in i + 1..d.count : t[j] \in Cell
        BY <1>1, <1>8, ElementOfSeq
      <4> QED
        BY <1>1, <4>1, SubSeqProperties
    <3>5. <<v>> \in Seq(Cell) /\ u \in Seq(Cell)
      BY <1>1, <2>1, OneItem
    <3> DEFINE y == SubSeq(t, i + 1, d.count)
               z == <<v>>
    <3>6. s = z \o y /\ x = (u \o z) \o y /\ y \in Seq(Cell) /\ z \in Seq(Cell)
      BY <3>3, <3>4, <3>5 DEF s
    <3> HIDE DEF u, x, y, z
    <3>7. (u \o z) \o y = u \o (z \o y)
      BY <3>5, <3>6, ConcatAssociative
    <3> QED
      BY <3>6, <3>7
  <2>3. /\ x \in Seq(Cell) /\ Len(x) = n
        /\ \A j \in 1..n : x[j] = IF j <= i THEN t[j] ELSE s[j - i]
    <3> HIDE DEF u, x
    <3>1. /\ x \in Seq(Cell) /\ Len(x) = i + Len(s)
          /\ \A j \in 1..i + Len(s) : x[j] = IF j <= i THEN u[j] ELSE s[j - i]
      BY <1>9, <2>1, <2>2, ConcatProperties, ZenonT(30)
    <3> QED
      BY <1>8, <1>10, <2>1, <3>1
  <2> HIDE DEF x
  <2>4. x = [j \in 1..n |-> x[j]]
    BY <1>1, <2>3
  <2>5. Contents(m, e) = [j \in 1..n |-> Contents(m, e)[j]]
    BY <1>7 DEF Contents
  <2>6. ASSUME NEW j \in 1..n PROVE Contents(m, e)[j] = x[j]
    <3>1. CASE j <= i
      <4>1. j \in 1..q.d.count /\ j \notin i + 1..i + Len(s)
        BY <1>1, <1>3, <1>8, <3>1
      <4> QED
        BY <1>3, <1>11, <2>3, <3>1, <4>1
    <3>2. CASE ~(j <= i)
      <4>1. j \in i + 1..i + Len(s)
        BY <1>1, <1>8, <1>10, <3>2
      <4> QED
        BY <1>11, <2>3, <3>2, <4>1
    <3> QED
      BY <3>1, <3>2
  <2> HIDE DEF n
  <2> QED
    BY <2>4, <2>5, <2>6 DEF x
<1>16. i + 1 \in 1..Len(t) + 1
  BY <1>1, <1>8
<1> QED
  BY <1>14, <1>15, <1>16


(* remove() with the index of an item. *)
LEMMA RemoveStep ==
  ASSUME IInv, NEW l \in List, NEW i \in Int, Remove(l, i)
  PROVE  /\ IInv' /\ i + 1 \in 1..Len(Items(l))
         /\ Changes(l, Store!RemoveAt(Items(l), i + 1))
<1> DEFINE d == list[l]
           n == d.count - 1
           t == Items(l)
           s == [k \in 1..d.count - i |-> Read(mem[d.ptr.mem], d.ptr, i + k)]
           e == [d EXCEPT !.count = n]
           m == WriteItems(mem, d, i, s)
<1>1. /\ d \in ListType /\ Placed(mem, d) /\ d.count \in Nat /\ d.cap \in Nat /\ d.count <= d.cap
      /\ (d.cap > 0 => d.ptr # Nowhere)
      /\ t \in Seq(Cell) /\ Len(t) = d.count
      /\ \A j \in 1..d.count : t[j] = Read(mem[d.ptr.mem], d.ptr, j - 1)
      /\ MemoryOK(mem) /\ list \in [List -> ListType]
  BY ListItems DEF IInv, Sound
<1>2. i \in 0..d.count - 1 /\ Has(mem[d.ptr.mem], d.ptr, d.count) /\ Does(l, m, e)
  BY DEF Remove, RemoveStays, Holds
<1>3. n \in Nat /\ d.ptr # Nowhere
  BY <1>1, <1>2
<1> HIDE DEF m
<1>4. \A j \in 1..d.count - i : j < d.count - i => s[j] = t[i + j + 1]
  <2> SUFFICES ASSUME NEW j \in 1..d.count - i, j < d.count - i PROVE s[j] = t[i + j + 1]
    OBVIOUS
  <2>1. i + j + 1 \in 1..d.count /\ (i + j + 1) - 1 = i + j
    BY <1>1, <1>2
  <2>2. s[j] = Read(mem[d.ptr.mem], d.ptr, i + j)
    OBVIOUS
  <2> HIDE DEF s, t
  <2> QED
    BY <1>1, <2>1, <2>2
<1>5. s \in Seq(Cell) /\ Len(s) = d.count - i
  <2>1. ASSUME NEW k \in 1..d.count - i PROVE Read(mem[d.ptr.mem], d.ptr, i + k) \in Cell
    <3>1. CASE i + k < d.cap
      <4>1. i + k \in 0..d.cap - 1
        BY <1>1, <1>2, <3>1, SMTT(30)
      <4> HIDE DEF d
      <4> QED
        BY <1>1, <1>3, <4>1, PlacedFacts
    <3>2. CASE ~(i + k < d.cap)
      <4>1. i + k = d.count
        BY <1>1, <1>2, <3>2
      <4>2. d.ptr.off + d.count \in DOMAIN Of(mem, d.ptr).cells
        BY <1>2 DEF Has, Of
      <4>3. Of(mem, d.ptr).cells \in [0..Of(mem, d.ptr).cap - 1 -> Cell]
        BY <1>1, <1>3, PlacedFacts
      <4> QED
        BY <4>1, <4>2, <4>3 DEF Read, Of
    <3> QED
      BY <3>1, <3>2
  <2>2. d.count - i \in Nat
    BY <1>1, <1>2
  <2> QED
    BY <2>1, <2>2
<1> HIDE DEF s
<1>6. /\ Sound(m, [list EXCEPT ![l] = e], List)
      /\ \A k \in List : k # l => SameItems(mem, m, list[k])
      /\ e.count = n
      /\ \A j \in 1..n : j \in i + 1..i + Len(s) => Contents(m, e)[j] = s[j - i]
      /\ \A j \in 1..n : j \in 1..d.count /\ j \notin i + 1..i + Len(s) =>
           Contents(m, e)[j] = Contents(mem, d)[j]
  <2>1. i + Len(s) <= d.cap /\ n <= d.cap /\ i \in Nat
    BY <1>1, <1>2, <1>5
  <2>2. n \in Nat /\ s \in Seq(Cell) /\ Sound(mem, list, List)
    BY <1>3, <1>5 DEF IInv
  <2> HIDE DEF n, e
  <2>3. Written(mem, WriteItems(mem, d, i, s), List, list, l, [d EXCEPT !.count = n], i, s, n)
    BY <1>3, <2>1, <2>2, WrittenFacts
  <2>4. Written(mem, m, List, list, l, e, i, s, n)
    BY <2>3 DEF m, e
  <2> QED
    BY <2>4 DEF Written
<1> HIDE DEF e
<1>7. IInv' /\ Changes(l, Contents(m, e))
  BY <1>2, <1>6, DoesStep
<1>8. Contents(m, e) = Store!RemoveAt(t, i + 1)
  <2> DEFINE u == SubSeq(t, 1, i)
             y == SubSeq(t, i + 2, d.count)
             x == Store!RemoveAt(t, i + 1)
  <2>1. u \in Seq(Cell) /\ Len(u) = i /\ \A j \in 1..i : u[j] = t[j]
    <3>1. \A j \in 1..i : t[j] \in Cell
      BY <1>1, <1>2, ElementOfSeq
    <3>2. /\ u \in Seq(Cell) /\ Len(u) = IF 1 <= i THEN i - 1 + 1 ELSE 0
          /\ \A j \in 1..i - 1 + 1 : u[j] = t[1 + j - 1]
      BY <1>1, <3>1, SubSeqProperties
    <3> HIDE DEF u
    <3> QED
      BY <1>1, <1>2, <3>2
  <2>2. y \in Seq(Cell) /\ Len(y) = n - i /\ \A j \in 1..n - i : y[j] = t[i + j + 1]
    <3>1. \A j \in i + 2..d.count : t[j] \in Cell
      BY <1>1, <1>2, ElementOfSeq
    <3>2. /\ y \in Seq(Cell) /\ Len(y) = IF i + 2 <= d.count THEN d.count - (i + 2) + 1 ELSE 0
          /\ \A j \in 1..d.count - (i + 2) + 1 : y[j] = t[i + 2 + j - 1]
      BY <1>1, <3>1, SubSeqProperties
    <3>3. \A j \in 1..n - i : j \in 1..d.count - (i + 2) + 1 /\ i + 2 + j - 1 = i + j + 1
      BY <1>1
    <3> HIDE DEF y
    <3> QED
      BY <1>1, <1>2, <3>2, <3>3
  <2>3. x = u \o y
    <3>1. (i + 1) - 1 = i /\ (i + 1) + 1 = i + 2 /\ Len(t) = d.count
      BY <1>1
    <3>2. x = SubSeq(t, 1, (i + 1) - 1) \o SubSeq(t, (i + 1) + 1, Len(t))
      BY DEF Store!RemoveAt
    <3> QED
      BY <3>1, <3>2
  <2>4. /\ x \in Seq(Cell) /\ Len(x) = n
        /\ \A j \in 1..n : x[j] = IF j <= i THEN t[j] ELSE y[j - i]
    <3> HIDE DEF u, x, y
    <3>1. /\ x \in Seq(Cell) /\ Len(x) = i + Len(y)
          /\ \A j \in 1..i + Len(y) : x[j] = IF j <= i THEN u[j] ELSE y[j - i]
      BY <2>1, <2>2, <2>3, ConcatProperties, ZenonT(30)
    <3> QED
      BY <1>1, <1>2, <2>1, <2>2, <3>1
  <2> HIDE DEF x, y
  <2>5. x = [j \in 1..n |-> x[j]] /\ Contents(m, e) = [j \in 1..n |-> Contents(m, e)[j]]
    BY <1>3, <1>6, <2>4 DEF Contents
  <2>6. ASSUME NEW j \in 1..n PROVE Contents(m, e)[j] = x[j]
    <3>1. CASE j <= i
      <4>1. j \in 1..d.count /\ j \notin i + 1..i + Len(s)
        BY <1>1, <1>2, <3>1
      <4> QED
        BY <1>6, <2>4, <3>1, <4>1 DEF Items
    <3>2. CASE ~(j <= i)
      <4>1. /\ j \in i + 1..i + Len(s) /\ j - i \in 1..d.count - i /\ j - i < d.count - i
            /\ j - i \in 1..n - i /\ i + (j - i) + 1 = j + 1
        BY <1>1, <1>2, <1>5, <3>2, SMTT(30)
      <4>2. s[j - i] = t[i + (j - i) + 1] /\ y[j - i] = t[i + (j - i) + 1]
        BY <1>4, <2>2, <4>1
      <4> QED
        BY <1>6, <2>4, <3>2, <4>1, <4>2
    <3> QED
      BY <3>1, <3>2
  <2> HIDE DEF n
  <2> QED
    BY <2>5, <2>6 DEF x
<1>9. i + 1 \in 1..Len(t)
  BY <1>1, <1>2
<1> QED
  BY <1>7, <1>8, <1>9

(* list[i] = v for an item. *)
LEMMA AssignStep ==
  ASSUME IInv, NEW l \in List, NEW i \in Int, NEW v \in Value, Assign(l, i, v)
  PROVE  /\ IInv' /\ i + 1 \in 1..Len(Items(l))
         /\ Changes(l, [Items(l) EXCEPT ![i + 1] = v])
<1> DEFINE d == list[l]
           t == Items(l)
           e == [d EXCEPT !.count = d.count]
           m == WriteItems(mem, d, i, <<v>>)
<1>1. /\ d \in ListType /\ d.count \in Nat /\ d.cap \in Nat /\ d.count <= d.cap
      /\ (d.cap > 0 => d.ptr # Nowhere)
      /\ t \in Seq(Cell) /\ Len(t) = d.count /\ t = [j \in 1..d.count |-> t[j]]
      /\ v \in Cell
  BY ListItems DEF Cell
<1>2. i \in 0..d.count - 1 /\ Does(l, m, d)
  BY DEF Assign, AssignStays, Holds
<1>3. d.ptr # Nowhere
  BY <1>1, <1>2
<1>4. e = d
  BY <1>1, ListFacts
<1> HIDE DEF m
<1>5. /\ Sound(m, [list EXCEPT ![l] = e], List)
      /\ \A k \in List : k # l => SameItems(mem, m, list[k])
      /\ \A j \in 1..d.count : j \in i + 1..i + Len(<<v>>) => Contents(m, e)[j] = <<v>>[j - i]
      /\ \A j \in 1..d.count : j \in 1..d.count /\ j \notin i + 1..i + Len(<<v>>) =>
           Contents(m, e)[j] = Contents(mem, d)[j]
  <2>1. i + Len(<<v>>) <= d.cap /\ d.count <= d.cap /\ i \in Nat /\ <<v>> \in Seq(Cell)
    BY <1>1, <1>2, OneItem
  <2> DEFINE s == <<v>>
             n == d.count
  <2>2. /\ n \in Nat /\ s \in Seq(Cell) /\ Sound(mem, list, List)
        /\ i \in Nat /\ i + Len(s) <= d.cap /\ n <= d.cap
    BY <1>1, <2>1 DEF IInv
  <2> HIDE DEF n, s, e
  <2>3. Written(mem, WriteItems(mem, d, i, s), List, list, l, [d EXCEPT !.count = n], i, s, n)
    BY <1>3, <2>2, WrittenFacts
  <2>4. Written(mem, m, List, list, l, e, i, s, n)
    BY <2>3 DEF m, e, n, s
  <2> HIDE DEF d
  <2> QED
    BY <2>4 DEF Written, n, s, d
<1> HIDE DEF e
<1>6. IInv' /\ Changes(l, Contents(m, d))
  BY <1>2, <1>4, <1>5, DoesStep
<1>7. Contents(m, d) = [t EXCEPT ![i + 1] = v]
  <2>1. Contents(m, d) = [j \in 1..d.count |-> Contents(m, d)[j]]
    BY DEF Contents
  <2>2. [t EXCEPT ![i + 1] = v] = [j \in 1..d.count |-> IF j = i + 1 THEN v ELSE t[j]]
    <3> HIDE DEF t
    <3> QED
      BY <1>1
  <2>3. ASSUME NEW j \in 1..d.count PROVE Contents(m, d)[j] = IF j = i + 1 THEN v ELSE t[j]
    <3>1. CASE j = i + 1
      <4>1. j \in i + 1..i + Len(<<v>>) /\ j - i = 1
        BY <1>1, <1>2, <3>1, OneItem
      <4> QED
        BY <1>1, <1>4, <1>5, <3>1, <4>1, OneItem
    <3>2. CASE j # i + 1
      <4>1. j \notin i + 1..i + Len(<<v>>)
        BY <1>1, <1>2, <3>2, OneItem
      <4> QED
        BY <1>4, <1>5, <3>2, <4>1 DEF Items
    <3> QED
      BY <3>1, <3>2
  <2> QED
    BY <2>1, <2>2, <2>3
<1>8. i + 1 \in 1..Len(t)
  BY <1>1, <1>2
<1> QED
  BY <1>6, <1>7, <1>8

-----------------------------------------------------------------------------
(* Lists that are made: the new one is number 0 until it takes its place.  *)

With(L, d) == [k \in 0..N |-> IF k = 0 THEN d ELSE L[k]]

LEMMA Numbers == /\ N \in Nat /\ 0 \in 0..N /\ 0 \notin List
                 /\ \A k \in List : k \in 0..N /\ k # 0 /\ k \in Nat
                 /\ \A k \in 0..N : k # 0 => k \in List
BY ListAssumption DEF List

LEMMA WithExcept == \A L, d, e : [With(L, d) EXCEPT ![0] = e] = With(L, e)
BY DEF With

(* An empty list shares nothing with the others, *)
LEMMA TakesPart ==
  ASSUME NEW L, NEW m, Sound(m, L, List), NEW struct \in {"from", "to"}
  PROVE  Sound(m, With(L, NewList(struct)), 0..N)
<1> DEFINE d == NewList(struct)
           W == With(L, d)
<1>1. d \in ListType /\ d.ptr = Nowhere /\ d.cap = 0 /\ d.count = 0
  BY Empties
<1>2. /\ MemoryOK(m) /\ \A k \in List : L[k] \in ListType /\ Placed(m, L[k])
      /\ \A j, k \in List : j # k => Distinct(L[j], L[k])
  BY DEF Sound
<1>3. W = [k \in 0..N |-> W[k]] /\ W[0] = d /\ \A k \in List : W[k] = L[k]
  BY Numbers DEF With
<1> HIDE DEF W, d
<1>4. \A k \in 0..N : k = 0 \/ k \in List
  BY Numbers
<1>5. Placed(m, d) /\ \A e : Distinct(d, e) /\ Distinct(e, d)
  BY <1>1 DEF Placed, Distinct
<1>6. \A k \in 0..N : W[k] \in ListType /\ Placed(m, W[k])
  BY <1>1, <1>2, <1>3, <1>4, <1>5
<1>7. \A j, k \in 0..N : j # k => Distinct(W[j], W[k])
  BY <1>2, <1>3, <1>4, <1>5
<1> QED
  BY <1>2, <1>3, <1>6, <1>7 DEF Sound, W, d

(* and may replace any of them. *)
LEMMA TakesOver ==
  ASSUME NEW L, L \in [List -> ListType], NEW m, NEW d, Sound(m, With(L, d), 0..N), NEW l \in List
  PROVE  Sound(m, [L EXCEPT ![l] = d], List)
<1> DEFINE W == With(L, d)
           K == [L EXCEPT ![l] = d]
<1>1. /\ MemoryOK(m) /\ \A k \in 0..N : W[k] \in ListType /\ Placed(m, W[k])
      /\ \A j, k \in 0..N : j # k => Distinct(W[j], W[k])
  BY DEF Sound
<1>2. W[0] = d /\ \A k \in List : W[k] = L[k]
  BY Numbers DEF With
<1>3. K = [k \in List |-> K[k]] /\ \A k \in List : K[k] = IF k = l THEN d ELSE L[k]
  OBVIOUS
<1> HIDE DEF W, K
<1>4. \A k \in List : K[k] \in ListType /\ Placed(m, K[k])
  BY <1>1, <1>2, <1>3, Numbers
<1>5. \A j, k \in List : j # k => Distinct(K[j], K[k])
  <2> SUFFICES ASSUME NEW j \in List, NEW k \in List, j # k PROVE Distinct(K[j], K[k])
    OBVIOUS
  <2>1. /\ j \in 0..N /\ k \in 0..N /\ 0 \in 0..N /\ j # 0 /\ k # 0
    BY Numbers
  <2>2. Distinct(W[j], W[k]) /\ Distinct(W[0], W[k]) /\ Distinct(W[j], W[0])
    BY <1>1, <2>1
  <2> QED
    BY <1>2, <1>3, <2>2
<1> QED
  BY <1>1, <1>3, <1>4, <1>5 DEF Sound, K

\* In memory n the new list d has become e, which has the items s behind those of d.
Grown(m, n, L, d, e, s) ==
  /\ Sound(n, With(L, e), 0..N) /\ e.count = d.count + Len(s) /\ e.arena = d.arena
  /\ \A k \in List : SameItems(m, n, L[k])
  /\ Contents(n, e) = Contents(m, d) \o s
  /\ e.ptr = d.ptr \/ e.ptr.mem = owner[d.arena]

LEMMA Grows ==
  ASSUME Owners, NEW L, NEW m, NEW d, Sound(m, With(L, d), 0..N), NEW s \in Seq(Cell)
  PROVE  Grown(m, AppendMany(m, d, s).m, L, d, AppendMany(m, d, s).d, s)
<1> DEFINE W == With(L, d)
           r == AppendMany(m, d, s)
<1>1. 0 \in 0..N /\ W[0] = d /\ \A k \in List : k \in 0..N /\ k # 0 /\ W[k] = L[k]
  BY Numbers DEF With
<1>2. Sound(m, W, 0..N)
  OBVIOUS
<1> DEFINE S == 0..N
           n == AppendMany(m, W[0], s).m
           e == AppendMany(m, W[0], s).d
<1>3. [W EXCEPT ![0] = e] = With(L, e)
  <2> HIDE DEF e
  <2> QED
    BY WithExcept
<1>4. Appended(m, n, S, W, 0, e, s)
  <2>1. 0 \in S
    BY <1>1
  <2> HIDE DEF S, W
  <2> QED
    BY <1>2, <2>1, AppendManyFacts DEF S
<1>5. n = r.m /\ e = r.d
  BY <1>1
<1> HIDE DEF W, n, e, r
<1>6. Grown(m, n, L, d, e, s)
  BY <1>1, <1>3, <1>4 DEF Appended, Grown
<1> QED
  BY <1>5, <1>6 DEF r


(* A list made from the items s. *)
LEMMA MadeFrom ==
  ASSUME Owners, NEW L, NEW m, Sound(m, L, List), NEW struct \in {"from", "to"}, NEW s \in Seq(Cell)
  PROVE  LET r == AppendMany(m, NewList(struct), s)
         IN  /\ Grown(m, r.m, L, NewList(struct), r.d, s)
             /\ Contents(r.m, r.d) = s /\ r.d.count = Len(s) /\ r.d.arena = struct
             /\ r.d.ptr = Nowhere \/ r.d.ptr.mem = owner[struct]
<1> DEFINE d == NewList(struct)
           r == AppendMany(m, d, s)
<1>1. d.ptr = Nowhere /\ d.count = 0 /\ d.arena = struct /\ Contents(m, d) = <<>>
  BY Empties, NoContents
<1>2. <<>> \o s = s /\ 0 + Len(s) = Len(s)
  BY ConcatEmptySeq
<1>3. Sound(m, With(L, d), 0..N)
  BY TakesPart
<1> HIDE DEF d
<1>4. Grown(m, r.m, L, d, r.d, s)
  BY <1>3, Grows
<1> HIDE DEF r
<1> QED
  BY <1>1, <1>2, <1>4 DEF Grown, r, d

(* j + k has the items of both. *)
LEMMA JoinedFacts ==
  ASSUME IInv, NEW j \in List, NEW k \in List
  PROVE  LET r == Joined(j, k)
         IN  /\ Sound(r.m, With(list, r.d), 0..N) /\ \A x \in List : SameItems(mem, r.m, list[x])
             /\ Contents(r.m, r.d) = Items(j) \o Items(k)
<1> DEFINE a == AppendMany(mem, NewList("from"), Items(j))
           r == Joined(j, k)
           s == Contents(a.m, list[k])
<1>1. /\ Owners /\ Sound(mem, list, List) /\ Items(j) \in Seq(Cell) /\ Items(k) \in Seq(Cell)
      /\ list[k] \in ListType /\ Placed(mem, list[k])
  BY ListItems DEF IInv
<1>2. /\ Grown(mem, a.m, list, NewList("from"), a.d, Items(j)) /\ Contents(a.m, a.d) = Items(j)
  BY <1>1, MadeFrom
<1>3. r = AppendMany(a.m, a.d, s)
  BY DEF Joined
<1> HIDE DEF a
<1>4. Sound(a.m, With(list, a.d), 0..N) /\ \A x \in List : SameItems(mem, a.m, list[x])
  BY <1>2 DEF Grown
<1>5. s = Items(k)
  BY <1>1, <1>4, KeptContents DEF Items
<1> HIDE DEF s
<1>6. Grown(a.m, r.m, list, a.d, r.d, s)
  BY <1>1, <1>3, <1>4, <1>5, Grows
<1> HIDE DEF r
<1>7. \A x \in List : SameItems(mem, r.m, list[x])
  <2> SUFFICES ASSUME NEW x \in List PROVE SameItems(mem, r.m, list[x])
    OBVIOUS
  <2>1. SameItems(mem, a.m, list[x]) /\ SameItems(a.m, r.m, list[x])
    BY <1>4, <1>6 DEF Grown
  <2> QED
    BY <2>1, SameAgain
<1> QED
  BY <1>2, <1>5, <1>6, <1>7 DEF Grown, r

LEMMA ConcatStep ==
  ASSUME IInv, NEW l \in List, NEW j \in List, NEW k \in List, Concat(l, j, k)
  PROVE  IInv' /\ Items(l) = <<>> /\ Changes(l, Items(j) \o Items(k))
<1> DEFINE r == Joined(j, k)
<1>1. /\ Sound(r.m, With(list, r.d), 0..N) /\ \A x \in List : SameItems(mem, r.m, list[x])
      /\ Contents(r.m, r.d) = Items(j) \o Items(k)
  BY JoinedFacts
<1>2. list[l].ptr = Nowhere /\ Does(l, r.m, r.d)
  BY DEF Concat
<1> HIDE DEF r
<1>3. list \in [List -> ListType]
  BY DEF IInv, Sound
<1>4. Sound(r.m, [list EXCEPT ![l] = r.d], List)
  BY <1>1, <1>3, TakesOver
<1>5. IInv' /\ Changes(l, Contents(r.m, r.d))
  BY <1>1, <1>2, <1>4, DoesStep
<1>6. Items(l) = <<>>
  <2>1. list[l].count \in Nat /\ list[l].count <= list[l].cap /\ list[l].cap = 0
    BY <1>2, ListItems DEF Placed
  <2>2. list[l].count = 0
    BY <2>1
  <2> QED
    BY <2>2, NoContents DEF Items
<1> QED
  BY <1>1, <1>5, <1>6


-----------------------------------------------------------------------------
(* A collection.                                                           *)

LEMMA ResetFacts ==
  ASSUME NEW a, ArenaOK(a)
  PROVE  ArenaOK(Reset(a)) /\ Reset(a).mem = a.mem
<1> DEFINE s == [b \in DOMAIN a.blocks |-> Emptied(a.blocks[b])]
           last == IF a.blocks = <<>> THEN 0 ELSE 1
           r == Reset(a)
<1>1. /\ a \in ArenaType /\ a.blocks \in Seq(BlockType) /\ Len(a.blocks) \in Nat /\ a.mem \in Memories
      /\ DOMAIN a.blocks = 1..Len(a.blocks)
  BY DEF ArenaOK, ArenaType
<1>2. ASSUME NEW b \in BlockType PROVE Emptied(b) \in BlockType /\ Emptied(b).count = 0
  <2> DEFINE e == Emptied(b)
             c == [k \in DOMAIN b.cells |-> Junk]
             x == [cap |-> b.cap, count |-> 0, cells |-> c]
  <2>1. /\ b.cap \in Nat /\ b.cells \in [0..b.cap - 1 -> Cell]
        /\ b = [cap |-> b.cap, count |-> b.count, cells |-> b.cells]
    BY BlockFacts
  <2>2. c \in [0..b.cap - 1 -> Cell] /\ 0 \in 0..b.cap
    BY <2>1 DEF Cell
  <2>3. e = [b EXCEPT !.count = 0, !.cells = c]
    BY DEF Emptied
  <2> HIDE DEF c, e
  <2>4. e = [cap |-> b.cap, count |-> 0, cells |-> c]
    BY <2>1, <2>3
  <2>5. e \in [cap : {b.cap}, count : 0..b.cap, cells : [0..b.cap - 1 -> Cell]]
    BY <2>2, <2>4
  <2> QED
    BY <2>1, <2>4, <2>5 DEF BlockType, e
<1>3. \A k \in 1..Len(a.blocks) : a.blocks[k] \in BlockType
  BY <1>1, ElementOfSeq
<1>4. /\ s \in Seq(BlockType) /\ Len(s) = Len(a.blocks)
      /\ \A k \in 1..Len(a.blocks) : s[k].count = 0
  <2>1. \A k \in 1..Len(a.blocks) : s[k] \in BlockType /\ s[k].count = 0
    BY <1>1, <1>2, <1>3
  <2>2. s = [k \in 1..Len(a.blocks) |-> s[k]]
    BY <1>1
  <2> DEFINE n == Len(a.blocks)
  <2> HIDE DEF s, n
  <2>3. n \in Nat /\ s \in [1..n -> BlockType]
    BY <1>1, <2>1, <2>2 DEF n
  <2>4. s \in Seq(BlockType) /\ DOMAIN s = 1..n
    BY <2>3, SeqDef
  <2>5. Len(s) = n
    BY <2>3, <2>4, LenProperties
  <2> QED
    BY <2>1, <2>4, <2>5 DEF n
<1>5. r = [mem |-> a.mem, blocks |-> s, last |-> last, ptr |-> Nowhere]
  <2>1. a = [mem |-> a.mem, blocks |-> a.blocks, last |-> a.last, ptr |-> a.ptr]
    BY <1>1 DEF ArenaType
  <2>2. r = [a EXCEPT !.blocks = s, !.last = last, !.ptr = Nowhere]
    BY DEF Reset
  <2> HIDE DEF r, s, last
  <2> QED
    BY <2>1, <2>2
<1>6. /\ last \in 0..Len(s) /\ last \in Nat /\ (last = 0 => s = <<>>)
  BY <1>1, <1>4, EmptySeq
<1> HIDE DEF r, s, last
<1>7. r \in ArenaType
  BY <1>1, <1>4, <1>5, <1>6 DEF ArenaType, Place
<1>8. \A b \in last + 1..Len(s) : s[b].count = 0
  BY <1>1, <1>4, <1>6
<1> QED
  BY <1>5, <1>6, <1>7, <1>8 DEF ArenaOK, r

\* The first k lists have been copied.
Carried(live, k, c) ==
  /\ Sound(c.m, c.list, List)
  /\ \A x \in List :
       /\ x <= k /\ x \in live =>
            /\ c.list[x].ptr = Nowhere \/ c.list[x].ptr.mem = owner["to"]
            /\ Contents(c.m, c.list[x]) = Items(x)
       /\ x <= k /\ x \notin live => c.list[x] = NewList("from")
       /\ ~(x <= k) => c.list[x] = list[x] /\ Contents(c.m, c.list[x]) = Items(x)

\* Memory n and lists K are m and L after list k has become d: the others keep
\* their items.
Becomes(m, n, L, K, k, d, s) ==
  /\ Sound(n, K, List) /\ K[k] = d /\ Contents(n, d) = s
  /\ \A x \in List : x # k => K[x] = L[x] /\ Contents(n, L[x]) = Contents(m, L[x])


(* A list that lets go of its place leaves the others what they have.     *)
LEMMA LetsGo ==
  ASSUME NEW m, NEW K, Sound(m, K, List), NEW d \in ListType,
         d.ptr # Nowhere => d.ptr.block \in 1..Len(m[d.ptr.mem].blocks),
         \A x \in List : Distinct(d, K[x])
  PROVE  /\ Sound(Left(m, d), K, List)
         /\ \A x \in List : Contents(Left(m, d), K[x]) = Contents(m, K[x])
<1> DEFINE n == Left(m, d)
<1>1. Sound(n, K, List) /\ \A x \in List : SameItems(m, n, K[x])
  BY LeftFacts
<1> HIDE DEF n
<1>2. \A x \in List : K[x] \in ListType /\ Placed(m, K[x])
  BY DEF Sound
<1>3. \A x \in List : Contents(n, K[x]) = Contents(m, K[x])
  BY <1>1, <1>2, KeptContents
<1> QED
  BY <1>1, <1>3 DEF n

(* A list that is copied, *)
LEMMA CopyLive ==
  ASSUME Owners, NEW L, NEW m, Sound(m, L, List), NEW k \in List
  PROVE  LET r == AppendMany(m, NewList("to"), Contents(m, L[k]))
         IN  /\ Becomes(m, Left(r.m, L[k]), L, [L EXCEPT ![k] = r.d], k, r.d, Contents(m, L[k]))
             /\ r.d.ptr = Nowhere \/ r.d.ptr.mem = owner["to"]
<1> DEFINE s == Contents(m, L[k])
           r == AppendMany(m, NewList("to"), s)
           K == [L EXCEPT ![k] = r.d]
           n == Left(r.m, L[k])
<1>1. s \in Seq(Cell) /\ L[k] \in ListType /\ L \in [List -> ListType]
  <2>1. IsList(m, L[k])
    BY SoundList
  <2> QED
    BY <2>1 DEF IsList, Sound
<1> HIDE DEF s
<1>2. /\ Grown(m, r.m, L, NewList("to"), r.d, s) /\ Contents(r.m, r.d) = s
      /\ r.d.ptr = Nowhere \/ r.d.ptr.mem = owner["to"]
  BY <1>1, MadeFrom
<1> HIDE DEF r
<1>3. Sound(r.m, With(L, r.d), 0..N) /\ \A x \in List : SameItems(m, r.m, L[x])
  BY <1>2 DEF Grown
<1>4. Sound(r.m, K, List)
  BY <1>1, <1>3, TakesOver
<1>5. /\ K[k] = r.d /\ \A x \in List : x # k => K[x] = L[x]
      /\ K \in [List -> ListType]
  BY <1>1, <1>4 DEF Sound
<1> HIDE DEF K
<1>6. /\ L[k].ptr # Nowhere => L[k].ptr.block \in 1..Len(r.m[L[k].ptr.mem].blocks)
      /\ \A x \in List : Distinct(L[k], K[x])
  <2> DEFINE W == With(L, r.d)
  <2>1. W[0] = r.d /\ \A x \in List : W[x] = L[x]
    BY Numbers DEF With
  <2>2. /\ \A x \in 0..N : Placed(r.m, W[x])
        /\ \A x, y \in 0..N : x # y => Distinct(W[x], W[y])
    BY <1>3 DEF Sound
  <2> HIDE DEF W
  <2>3. Placed(r.m, L[k]) /\ Distinct(L[k], r.d)
    BY <2>1, <2>2, Numbers
  <2>4. ASSUME NEW x \in List, x # k PROVE Distinct(L[k], L[x])
    BY <2>1, <2>2, <2>4, Numbers
  <2> QED
    BY <1>5, <2>3, <2>4 DEF Placed
<1>7. Sound(n, K, List) /\ \A x \in List : Contents(n, K[x]) = Contents(r.m, K[x])
  BY <1>1, <1>4, <1>6, LetsGo
<1> HIDE DEF n
<1>8. \A x \in List : Contents(r.m, L[x]) = Contents(m, L[x])
  <2>1. \A x \in List : L[x] \in ListType /\ Placed(m, L[x])
    BY DEF Sound
  <2> QED
    BY <1>3, <2>1, KeptContents
<1>9. Becomes(m, n, L, K, k, r.d, s)
  BY <1>2, <1>5, <1>7, <1>8 DEF Becomes
<1> QED
  BY <1>2, <1>9 DEF n, K, r, s

(* and one that is not. *)
LEMMA CopyDead ==
  ASSUME NEW L, NEW m, Sound(m, L, List), NEW k \in List
  PROVE  Becomes(m, Left(m, L[k]), L, [L EXCEPT ![k] = NewList("from")], k, NewList("from"), <<>>)
<1> DEFINE d == NewList("from")
           K == [L EXCEPT ![k] = d]
           n == Left(m, L[k])
<1>1. d \in ListType /\ d.ptr = Nowhere /\ d.cap = 0 /\ d.count = 0
  BY Empties
<1>2. Contents(n, d) = <<>>
  BY <1>1, NoContents
<1>3. Sound(m, K, List)
  <2> HIDE DEF d
  <2> QED
    BY <1>1, Forgets
<1>4. K[k] = d /\ \A x \in List : x # k => K[x] = L[x]
  BY DEF Sound
<1>5. /\ L[k] \in ListType
      /\ L[k].ptr # Nowhere => L[k].ptr.block \in 1..Len(m[L[k].ptr.mem].blocks)
      /\ \A x \in List : x # k => Distinct(L[k], L[x])
  BY DEF Sound, Placed
<1>6. \A x \in List : Distinct(L[k], K[x])
  <2>1. Distinct(L[k], d)
    BY <1>1 DEF Distinct
  <2> HIDE DEF K
  <2> QED
    BY <1>4, <1>5, <2>1
<1> HIDE DEF K, d
<1>7. Sound(n, K, List) /\ \A x \in List : Contents(n, K[x]) = Contents(m, K[x])
  BY <1>3, <1>5, <1>6, LetsGo
<1> HIDE DEF n
<1>8. Becomes(m, n, L, K, k, d, <<>>)
  BY <1>2, <1>4, <1>7 DEF Becomes
<1> QED
  BY <1>8 DEF n, K, d


(* One list more, *)
LEMMA CopyStep ==
  ASSUME IInv, NEW live, NEW k \in 1..N, NEW c, Carried(live, k - 1, c)
  PROVE  Carried(live, k, CopyNext(live, k, c))
<1> DEFINE L == c.list
           s == Contents(c.m, L[k])
           q == CopyNext(live, k, c)
<1>1. /\ Owners /\ k \in List /\ k \in Nat /\ N \in Nat
      /\ \A x \in List : x \in Nat /\ (x <= k <=> x <= k - 1 \/ x = k)
  BY Numbers DEF IInv, List
<1>2. /\ Sound(c.m, L, List) /\ L[k] = list[k] /\ s = Items(k)
  <2>1. ~(k <= k - 1)
    BY <1>1
  <2> QED
    BY <1>1, <2>1 DEF Carried
<1>3. \E d : /\ Becomes(c.m, q.m, L, q.list, k, d, IF k \in live THEN Items(k) ELSE <<>>)
             /\ k \in live => d.ptr = Nowhere \/ d.ptr.mem = owner["to"]
             /\ k \notin live => d = NewList("from")
  <2>1. CASE k \in live
    <3> DEFINE r == AppendMany(c.m, NewList("to"), s)
               n == Left(r.m, L[k])
               K == [L EXCEPT ![k] = r.d]
    <3>1. Becomes(c.m, n, L, K, k, r.d, s) /\ (r.d.ptr = Nowhere \/ r.d.ptr.mem = owner["to"])
      BY <1>1, <1>2, CopyLive
    <3>2. q = [m |-> n, list |-> K]
      BY <1>2, <2>1 DEF CopyNext
    <3> HIDE DEF r, n, K, q
    <3>3. q.m = n /\ q.list = K
      BY <3>2
    <3> QED
      BY <1>2, <2>1, <3>1, <3>3
  <2>2. CASE k \notin live
    <3> DEFINE d == NewList("from")
               n == Left(c.m, L[k])
               K == [L EXCEPT ![k] = d]
    <3>1. Becomes(c.m, n, L, K, k, d, <<>>)
      BY <1>1, <1>2, CopyDead
    <3>2. q = [m |-> n, list |-> K]
      BY <1>2, <2>2 DEF CopyNext
    <3> HIDE DEF n, K, q, d
    <3>3. q.m = n /\ q.list = K
      BY <3>2
    <3> QED
      BY <2>2, <3>1, <3>3 DEF d
  <2> QED
    BY <2>1, <2>2
<1> HIDE DEF q, L, s
<1>4. PICK d : /\ Becomes(c.m, q.m, L, q.list, k, d, IF k \in live THEN Items(k) ELSE <<>>)
               /\ k \in live => d.ptr = Nowhere \/ d.ptr.mem = owner["to"]
               /\ k \notin live => d = NewList("from")
  BY <1>3
<1>5. /\ Sound(q.m, q.list, List) /\ q.list[k] = d
      /\ k \in live => Contents(q.m, q.list[k]) = Items(k)
      /\ \A x \in List : x # k => q.list[x] = L[x] /\ Contents(q.m, q.list[x]) = Contents(c.m, L[x])
  BY <1>4 DEF Becomes
<1>6. ASSUME NEW x \in List
      PROVE  /\ x <= k /\ x \in live =>
                  /\ q.list[x].ptr = Nowhere \/ q.list[x].ptr.mem = owner["to"]
                  /\ Contents(q.m, q.list[x]) = Items(x)
             /\ x <= k /\ x \notin live => q.list[x] = NewList("from")
             /\ ~(x <= k) => q.list[x] = list[x] /\ Contents(q.m, q.list[x]) = Items(x)
  <2>1. CASE x = k
    <3>1. k <= k
      BY <1>1
    <3> QED
      BY <1>4, <1>5, <2>1, <3>1
  <2>2. CASE x # k
    <3>1. x <= k <=> x <= k - 1
      BY <1>1, <2>2
    <3>2. q.list[x] = L[x] /\ Contents(q.m, q.list[x]) = Contents(c.m, L[x])
      BY <1>5, <2>2
    <3> QED
      BY <3>1, <3>2 DEF Carried, L
  <2> QED
    BY <2>1, <2>2
<1> QED
  BY <1>5, <1>6 DEF Carried, q

(* The recursion over the lists has a solution, *)
LEMMA CopiedFacts ==
  ASSUME NEW live
  PROVE  \E f : /\ f = [k \in 0..N |-> IF k = 0 THEN [m |-> mem, list |-> list]
                                       ELSE CopyNext(live, k, f[k - 1])]
                /\ Copied(live) = f[N]
<1> DEFINE base == [m |-> mem, list |-> list]
           Solves(f, n) == f = [k \in 0..n |-> IF k = 0 THEN base ELSE CopyNext(live, k, f[k - 1])]
           S == {n \in 0..N : \E f : Solves(f, n)}
<1> HIDE DEF base
<1>1. N \in Nat /\ 0 \in S
  <2>1. Solves([k \in 0..0 |-> base], 0)
    OBVIOUS
  <2> HIDE DEF Solves
  <2> QED
    BY <2>1, Numbers
<1>2. ASSUME NEW n \in 0..N - 1, n \in S
      PROVE  n + 1 \in S
  <2>1. PICK f : Solves(f, n)
    BY <1>2
  <2> DEFINE g == [k \in 0..n + 1 |-> IF k = n + 1 THEN CopyNext(live, n + 1, f[n]) ELSE f[k]]
  <2>2. Solves(g, n + 1)
    <3>1. ASSUME NEW k \in 0..n + 1
          PROVE  g[k] = IF k = 0 THEN base ELSE CopyNext(live, k, g[k - 1])
      <4>1. CASE k = n + 1
        <5>1. k # 0 /\ k - 1 = n /\ n \in 0..n + 1 /\ n # n + 1
          BY <4>1
        <5>2. g[k] = CopyNext(live, n + 1, f[n]) /\ g[n] = f[n]
          BY <4>1, <5>1
        <5> HIDE DEF g
        <5> QED
          BY <4>1, <5>1, <5>2
      <4>2. CASE k \in 0..n
        <5>1. k # n + 1 /\ (k # 0 => k - 1 \in 0..n + 1 /\ k - 1 # n + 1)
          BY <4>2
        <5>2. g[k] = f[k] /\ (k # 0 => g[k - 1] = f[k - 1])
          BY <5>1
        <5>3. f[k] = IF k = 0 THEN base ELSE CopyNext(live, k, f[k - 1])
          BY <2>1, <4>2
        <5> HIDE DEF g
        <5> QED
          BY <5>2, <5>3
      <4> QED
        BY <4>1, <4>2
    <3> HIDE DEF g
    <3>2. g = [k \in 0..n + 1 |-> g[k]]
      BY DEF g
    <3> QED
      BY <3>1, <3>2
  <2> HIDE DEF Solves, g
  <2> QED
    BY <1>1, <2>2
<1>3. \E f : Solves(f, N)
  <2>1. 0..N \subseteq S
    <3> HIDE DEF S
    <3> QED
      BY <1>1, <1>2, UpTo
  <2> QED
    BY <1>1, <2>1
<1>4. Copied(live) = (CHOOSE f : Solves(f, N))[N]
  BY DEF Copied, base
<1>5. Solves(CHOOSE f : Solves(f, N), N)
  <2> HIDE DEF Solves
  <2> QED
    BY <1>3
<1> QED
  BY <1>4, <1>5 DEF base

(* which carries all of them. *)
LEMMA AllCarried ==
  ASSUME IInv, NEW live
  PROVE  Carried(live, N, Copied(live))
<1>1. PICK f : /\ f = [k \in 0..N |-> IF k = 0 THEN [m |-> mem, list |-> list]
                                      ELSE CopyNext(live, k, f[k - 1])]
               /\ Copied(live) = f[N]
  BY CopiedFacts
<1> DEFINE S == {k \in 0..N : Carried(live, k, f[k])}
<1>2. N \in Nat /\ 0 \in S
  <2>1. f[0] = [m |-> mem, list |-> list]
    BY <1>1, Numbers
  <2>2. f[0].m = mem /\ f[0].list = list
    BY <2>1
  <2>3. \A x \in List : ~(x <= 0)
    BY Numbers
  <2>4. Carried(live, 0, f[0])
    BY <2>2, <2>3 DEF Carried, IInv, Items
  <2> QED
    BY <2>4, Numbers
<1>3. ASSUME NEW k \in 0..N - 1, k \in S PROVE k + 1 \in S
  <2>1. /\ k + 1 \in 1..N /\ (k + 1) - 1 = k /\ k + 1 # 0 /\ k + 1 \in 0..N
    BY <1>2
  <2>2. f[k + 1] = CopyNext(live, k + 1, f[k])
    BY <1>1, <2>1
  <2>3. Carried(live, k, f[k])
    BY <1>3
  <2>4. Carried(live, k + 1, CopyNext(live, k + 1, f[k]))
    BY <2>1, <2>3, CopyStep
  <2> QED
    BY <2>1, <2>2, <2>4
<1>4. 0..N \subseteq S
  <2> HIDE DEF S
  <2> QED
    BY <1>2, <1>3, UpTo
<1> QED
  BY <1>1, <1>2, <1>4


(* A memory that no list has its place in can be reset. *)
LEMMA ResetKeeps ==
  ASSUME NEW m, NEW L, Sound(m, L, List), NEW name \in Memories, NEW n,
         n = [m EXCEPT ![name] = Reset(@)],
         \A x \in List : L[x].ptr # Nowhere => L[x].ptr.mem # name
  PROVE  Sound(n, L, List) /\ \A x \in List : Contents(n, L[x]) = Contents(m, L[x])
<1> DEFINE a == Reset(m[name])
<1>1. /\ MemoryOK(m) /\ \A x \in List : L[x] \in ListType /\ Placed(m, L[x])
  BY DEF Sound
<1>2. ArenaOK(a) /\ a.mem = name
  BY <1>1, ResetFacts DEF MemoryOK
<1>3. n = [m EXCEPT ![name] = a]
  OBVIOUS
<1> HIDE DEF a
<1>4. MemoryOK(n) /\ \A x \in Memories : x # name => n[x] = m[x]
  <2> DEFINE o == [m EXCEPT ![name] = a]
  <2>1. MemoryOK(m)
    BY <1>1
  <2>2. MemoryOK(o)
    BY <1>2, <2>1, MemoryFacts
  <2>3. \A x \in Memories : x # name => o[x] = m[x]
    BY <2>1 DEF MemoryOK
  <2> HIDE DEF o
  <2> QED
    BY <1>3, <2>2, <2>3 DEF o
<1>5. ASSUME NEW x \in List PROVE Placed(n, L[x]) /\ SameItems(m, n, L[x])
  <2>1. CASE L[x].ptr = Nowhere
    BY <1>1, <2>1 DEF Placed, SameItems
  <2>2. CASE L[x].ptr # Nowhere
    <3>1. L[x].ptr.mem \in Memories
      BY <1>1, <2>2, ListFacts
    <3>2. n[L[x].ptr.mem] = m[L[x].ptr.mem]
      BY <1>4, <2>2, <3>1
    <3> QED
      BY <1>1, <3>2 DEF Placed, SameItems, Of
  <2> QED
    BY <2>1, <2>2
<1>6. Sound(n, L, List)
  BY <1>4, <1>5 DEF Sound
<1>7. \A x \in List : Contents(n, L[x]) = Contents(m, L[x])
  BY <1>1, <1>5, KeptContents
<1> QED
  BY <1>6, <1>7

LEMMA CollectStep ==
  ASSUME IInv, NEW live \in SUBSET List, Collect(live)
  PROVE  /\ IInv'
         /\ \A k \in List : Contents(mem', list'[k]) = IF k \in live THEN Items(k) ELSE <<>>
<1> DEFINE c == Copied(live)
<1>1. Carried(live, N, c)
  BY AllCarried
<1>2. /\ list' = c.list /\ mem' = [c.m EXCEPT ![owner["from"]] = Reset(@)]
      /\ owner' = [from |-> owner["to"], to |-> owner["from"]]
  BY DEF Collect
<1> HIDE DEF c
<1>3. /\ owner["from"] \in Memories /\ owner["to"] \in Memories /\ owner["from"] # owner["to"]
  BY DEF IInv, Owners
<1>4. ASSUME NEW k \in List
      PROVE  /\ c.list[k].ptr = Nowhere \/ c.list[k].ptr.mem = owner["to"]
             /\ Contents(c.m, c.list[k]) = IF k \in live THEN Items(k) ELSE <<>>
  <2>1. k <= N
    BY Numbers DEF List
  <2>2. CASE k \in live
    BY <1>1, <2>1, <2>2 DEF Carried
  <2>3. CASE k \notin live
    <3>1. c.list[k] = NewList("from")
      BY <1>1, <2>1, <2>3 DEF Carried
    <3>2. c.list[k].ptr = Nowhere /\ c.list[k].count = 0
      BY <3>1, Empties
    <3> QED
      BY <2>3, <3>2, NoContents
  <2> QED
    BY <2>2, <2>3
<1>5. /\ Sound(mem', c.list, List)
      /\ \A k \in List : Contents(mem', c.list[k]) = Contents(c.m, c.list[k])
  <2>1. Sound(c.m, c.list, List)
    BY <1>1 DEF Carried
  <2>2. \A k \in List : c.list[k].ptr # Nowhere => c.list[k].ptr.mem # owner["from"]
    BY <1>3, <1>4
  <2> QED
    BY <1>2, <1>3, <2>1, <2>2, ResetKeeps
<1>6. Owners'
  BY <1>2, <1>3 DEF Owners
<1>7. Sound(mem', list', List)
  BY <1>2, <1>5
<1>8. \A k \in List : Contents(mem', list'[k]) = IF k \in live THEN Items(k) ELSE <<>>
  BY <1>2, <1>4, <1>5
<1> QED
  BY <1>6, <1>7, <1>8 DEF IInv

-----------------------------------------------------------------------------
(* All steps.                                                              *)

LEMMA InitSound == Init => IInv /\ \A l \in List : Items(l) = <<>>
<1> SUFFICES ASSUME Init PROVE IInv /\ \A l \in List : Items(l) = <<>>
  OBVIOUS
<1>1. /\ mem = [name \in Memories |-> ArenaOf(name)] /\ owner = [from |-> "A", to |-> "B"]
      /\ list = [l \in List |-> NewList("from")]
  BY DEF Init, Memories
<1>2. Owners
  BY <1>1 DEF Owners, Memories
<1>3. \A name \in Memories : ArenaOK(ArenaOf(name)) /\ ArenaOf(name).mem = name
  <2> SUFFICES ASSUME NEW name \in Memories PROVE ArenaOK(ArenaOf(name)) /\ ArenaOf(name).mem = name
    OBVIOUS
  <2>1. <<>> \in Seq(BlockType) /\ Len(<<>>) = 0
    OBVIOUS
  <2> QED
    BY <2>1 DEF ArenaOf, ArenaOK, ArenaType, Place
<1>4. MemoryOK(mem)
  BY <1>1, <1>3 DEF MemoryOK
<1> DEFINE d == NewList("from")
<1>5. d \in ListType /\ d.ptr = Nowhere /\ d.cap = 0 /\ d.count = 0
  BY Empties
<1>6. list \in [List -> ListType] /\ \A l \in List : list[l] = d
  BY <1>1, <1>5
<1> HIDE DEF d
<1>7. Sound(mem, list, List)
  BY <1>4, <1>5, <1>6 DEF Sound, Placed, Distinct
<1>8. \A l \in List : Items(l) = <<>>
  BY <1>5, <1>6, NoContents DEF Items
<1> QED
  BY <1>2, <1>7, <1>8 DEF IInv


LEMMA IndexIsInt == \A i \in Index : i \in Int
BY ListAssumption DEF Index

LEMMA FreshIsValue == \A v \in Fresh : v \in Value
BY DEF Fresh

\* What a step does: one list gets other items, or a collection.
ListTaken(l) ==
  \/ \E v \in Value :
       \/ Changes(l, Append(Items(l), v))
       \/ \E i \in 1..Len(Items(l)) + 1 : Changes(l, Store!InsertAt(Items(l), i, v))
       \/ \E i \in 1..Len(Items(l)) : Changes(l, [Items(l) EXCEPT ![i] = v])
  \/ \E i \in 1..Len(Items(l)) : Changes(l, Store!RemoveAt(Items(l), i))
  \/ Items(l) = <<>> /\ \E j, k \in List : Changes(l, Items(j) \o Items(k))

Swept == \E live \in SUBSET List :
  \A k \in List : Contents(mem', list'[k]) = IF k \in live THEN Items(k) ELSE <<>>

LEMMA NextStep ==
  ASSUME IInv, Next
  PROVE  IInv' /\ ((\E l \in List : ListTaken(l)) \/ Swept)
<1>1. ASSUME NEW l \in List, NEW v \in Fresh, AppendTo(l, v)
      PROVE  IInv' /\ ListTaken(l)
  BY <1>1, FreshIsValue, AppendToStep DEF ListTaken
<1>2. ASSUME NEW l \in List, NEW v \in Fresh, NEW i \in Index, Insert(l, i, v)
      PROVE  IInv' /\ ListTaken(l)
  <2>1. /\ IInv' /\ i + 1 \in 1..Len(Items(l)) + 1 /\ v \in Value
        /\ Changes(l, Store!InsertAt(Items(l), i + 1, v))
    BY <1>2, FreshIsValue, IndexIsInt, InsertStep
  <2> QED
    BY <2>1 DEF ListTaken
<1>3. ASSUME NEW l \in List, NEW v \in Fresh, NEW i \in Index, Assign(l, i, v)
      PROVE  IInv' /\ ListTaken(l)
  <2>1. /\ IInv' /\ i + 1 \in 1..Len(Items(l)) /\ v \in Value
        /\ Changes(l, [Items(l) EXCEPT ![i + 1] = v])
    BY <1>3, FreshIsValue, IndexIsInt, AssignStep
  <2> QED
    BY <2>1 DEF ListTaken
<1>4. ASSUME NEW l \in List, NEW i \in Index, Remove(l, i)
      PROVE  IInv' /\ ListTaken(l)
  <2>1. /\ IInv' /\ i + 1 \in 1..Len(Items(l))
        /\ Changes(l, Store!RemoveAt(Items(l), i + 1))
    BY <1>4, IndexIsInt, RemoveStep
  <2> QED
    BY <2>1 DEF ListTaken
<1>5. ASSUME NEW l \in List, NEW j \in List, NEW k \in List, Concat(l, j, k)
      PROVE  IInv' /\ ListTaken(l)
  BY <1>5, ConcatStep DEF ListTaken
<1>6. ASSUME NEW live \in SUBSET List, Collect(live)
      PROVE  IInv' /\ Swept
  BY <1>6, CollectStep DEF Swept
<1> QED
  BY <1>1, <1>2, <1>3, <1>4, <1>5, <1>6 DEF Next

LEMMA StaysStill ==
  ASSUME IInv, UNCHANGED vars
  PROVE  IInv' /\ \A k \in List : Contents(mem', list'[k]) = Items(k)
BY DEF IInv, Owners, vars, Items

LEMMA SoundNext == IInv /\ [Next]_vars => IInv'
BY NextStep, StaysStill

(* The memory of the lists is theirs alone.                                *)
LEMMA SoundApart == IInv => Apart
<1> SUFFICES ASSUME IInv PROVE Apart
  OBVIOUS
<1>1. MemoryOK(mem) /\ \A l, k \in List : l # k => Distinct(list[l], list[k])
  BY SMTT(30) DEF IInv, Sound
<1>2. ASSUME NEW l \in List, NEW p \in Region(l)
      PROVE  /\ p[2] \in DOMAIN mem[p[1]].blocks
             /\ p[3] < mem[p[1]].blocks[p[2]].count
             /\ p[3] \in DOMAIN mem[p[1]].blocks[p[2]].cells
  <2> DEFINE d == list[l]
             b == mem[d.ptr.mem].blocks[d.ptr.block]
  <2>1. PICK k \in 0..d.cap - 1 : p = <<d.ptr.mem, d.ptr.block, d.ptr.off + k>>
    BY <1>2 DEF Region
  <2>2. d \in ListType /\ Placed(mem, d) /\ d.ptr # Nowhere
    BY <2>1, ListItems, SMTT(30)
  <2>3. /\ d.ptr.off \in Nat /\ d.cap \in Nat \ {0} /\ ArenaOK(mem[d.ptr.mem])
        /\ d.ptr.block \in 1..Len(mem[d.ptr.mem].blocks)
        /\ b.cap \in Nat /\ b.count \in 0..b.cap /\ b.cells \in [0..b.cap - 1 -> Cell]
        /\ d.ptr.off + d.cap <= b.count
    <3> HIDE DEF d
    <3> QED
      BY <1>1, <2>2, PlacedFacts DEF Of
  <2>4. DOMAIN mem[d.ptr.mem].blocks = 1..Len(mem[d.ptr.mem].blocks)
    <3> DEFINE a == mem[d.ptr.mem]
    <3>1. ArenaOK(a)
      BY <2>3
    <3> HIDE DEF a
    <3>2. a.blocks \in Seq(BlockType)
      BY <3>1 DEF ArenaOK, ArenaType
    <3>3. DOMAIN a.blocks = 1..Len(a.blocks)
      BY <3>2, LenProperties
    <3> QED
      BY <3>3 DEF a
  <2>5. p[1] = d.ptr.mem /\ p[2] = d.ptr.block /\ p[3] = d.ptr.off + k
    BY <2>1
  <2> DEFINE off == d.ptr.off
             cap == d.cap
             top == b.cap
             full == b.count
  <2>6. off + k < full /\ off + k \in 0..top - 1
    <3>1. /\ off \in Nat /\ cap \in Nat /\ top \in Nat /\ full \in 0..top /\ off + cap <= full
          /\ k \in 0..cap - 1
      BY <2>3
    <3> HIDE DEF off, cap, top, full
    <3> QED
      BY <3>1, SMTT(30)
  <2> HIDE DEF d
  <2> QED
    BY <2>3, <2>4, <2>5, <2>6
<1>3. ASSUME NEW l \in List, NEW m \in List, l # m
      PROVE  Region(l) \cap Region(m) = {}
  <2> DEFINE d == list[l]
             e == list[m]
  <2> SUFFICES ASSUME NEW p \in Region(l), p \in Region(m) PROVE FALSE
    OBVIOUS
  <2>1. PICK j \in 0..d.cap - 1 : p = <<d.ptr.mem, d.ptr.block, d.ptr.off + j>>
    BY DEF Region
  <2>2. PICK k \in 0..e.cap - 1 : p = <<e.ptr.mem, e.ptr.block, e.ptr.off + k>>
    BY DEF Region
  <2>3. /\ d \in ListType /\ d.cap \in Nat /\ d.ptr # Nowhere
        /\ e \in ListType /\ e.cap \in Nat /\ e.ptr # Nowhere
    BY <2>1, <2>2, ListItems
  <2>4. Distinct(d, e)
    BY <1>1, <1>3
  <2> HIDE DEF d, e
  <2>5. d.ptr.off \in Nat /\ e.ptr.off \in Nat
    BY <2>3, ListFacts
  <2>6. d.ptr.mem = e.ptr.mem /\ d.ptr.block = e.ptr.block /\ d.ptr.off + j = e.ptr.off + k
    BY <2>1, <2>2
  <2>7. d.ptr.off + d.cap <= e.ptr.off \/ e.ptr.off + e.cap <= d.ptr.off
    BY <2>3, <2>4, <2>6 DEF Distinct
  <2> QED
    BY <2>3, <2>5, <2>6, <2>7
<1> QED
  BY <1>2, <1>3 DEF Apart

(* No two lists share memory (cplus.h: da_reserve, arena_alloc,            *)
(* arena_realloc, arena_reset), for any number of lists.                   *)
THEOREM ListsApart == Spec => []Apart
<1>1. Init => IInv
  BY InitSound
<1>2. IInv /\ [Next]_vars => IInv'
  BY SoundNext
<1>3. IInv => Apart
  BY SoundApart
<1> QED
  BY <1>1, <1>2, <1>3, PTL DEF Spec


(* The place behind the last is in the list that append() makes room in.   *)
LEMMA AppendHolds ==
  ASSUME IInv, NEW l \in List
  PROVE  AppendStays(l)
<1> DEFINE r == AppendMany(mem, list[l], <<Junk>>)
           L == [list EXCEPT ![l] = r.d]
           n == list[l].count
<1>1. <<Junk>> \in Seq(Cell) /\ Len(<<Junk>>) = 1 /\ Owners /\ Sound(mem, list, List)
  BY OneItem DEF Cell, IInv
<1>2. Appended(mem, r.m, List, list, l, r.d, <<Junk>>)
  BY <1>1, AppendManyFacts
<1>3. n \in Nat /\ list \in [List -> ListType]
  BY ListItems DEF IInv, Sound
<1> HIDE DEF r
<1>4. Sound(r.m, L, List) /\ r.d.count = n + 1 /\ L[l] = r.d
  BY <1>1, <1>2, <1>3 DEF Appended
<1>5. MemoryOK(r.m) /\ r.d \in ListType /\ Placed(r.m, r.d)
  BY <1>4 DEF Sound
<1>6. n \in 0..r.d.count - 1
  BY <1>3, <1>4
<1>7. r.d.count <= r.d.cap /\ Has(r.m[r.d.ptr.mem], r.d.ptr, n)
  BY <1>5, <1>6, HoldsFacts
<1>8. Holds(r.m, r.d, {n})
  BY <1>6, <1>7 DEF Holds
<1> QED
  BY <1>8 DEF AppendStays, r

LEMMA ConcatHolds ==
  ASSUME IInv, NEW j \in List, NEW k \in List
  PROVE  ConcatStays(j, k)
<1> DEFINE r == Joined(j, k)
           W == With(list, r.d)
<1>1. Sound(r.m, W, 0..N)
  BY JoinedFacts
<1>2. W[0] = r.d /\ 0 \in 0..N
  BY Numbers DEF With
<1> HIDE DEF r, W
<1>3. MemoryOK(r.m) /\ r.d \in ListType /\ Placed(r.m, r.d)
  BY <1>1, <1>2 DEF Sound
<1>4. Holds(r.m, r.d, 0..r.d.count - 1)
  BY <1>3, HoldsFacts DEF Holds
<1> QED
  BY <1>4 DEF ConcatStays, r

LEMMA AssignHolds ==
  ASSUME IInv, NEW l \in List, NEW i \in Int, Permitted(l, i)
  PROVE  AssignStays(l, i) <=> i # list[l].count
<1> DEFINE d == list[l]
<1>1. MemoryOK(mem) /\ d \in ListType /\ Placed(mem, d) /\ d.count \in Nat
  BY ListItems DEF IInv, Sound
<1>2. i >= 0 /\ i <= d.count
  BY DEF Permitted
<1> HIDE DEF d
<1>3. ASSUME i # d.count PROVE Holds(mem, d, {i})
  <2>1. i \in 0..d.count - 1
    BY <1>1, <1>2, <1>3
  <2> QED
    BY <1>1, <2>1, HoldsFacts DEF Holds
<1>4. ASSUME Holds(mem, d, {i}) PROVE i # d.count
  <2>1. i \in 0..d.count - 1
    BY <1>4 DEF Holds
  <2> QED
    BY <1>1, <2>1
<1> QED
  BY <1>3, <1>4 DEF AssignStays, d

LEMMA InsertHolds ==
  ASSUME IInv, NEW l \in List, NEW i \in Int
  PROVE  InsertStays(l, i) <=> i \in 0..list[l].count
<1> DEFINE d == list[l]
           n == d.count + 1
           q == Reserve(mem, d, n)
           e == [q.d EXCEPT !.count = n]
           w == Widened(l)
           Q == [list EXCEPT ![l] = q.d]
<1>1. d.count \in Nat /\ n \in Nat /\ list \in [List -> ListType]
  BY ListItems DEF IInv, Sound
<1>2. Reserved(mem, list, List, l, n, q)
  <2> HIDE DEF n
  <2> QED
    BY <1>1, ReserveFacts DEF IInv
<1> HIDE DEF q
<1>3. Sound(q.m, Q, List) /\ q.d.cap >= n /\ Q[l] = q.d
  BY <1>1, <1>2 DEF Reserved
<1>4. MemoryOK(q.m) /\ q.d \in ListType /\ Placed(q.m, q.d)
  BY <1>3 DEF Sound
<1>5. w = [q EXCEPT !.d.count = n] /\ q = [m |-> q.m, d |-> q.d]
  <2>1. q = [m |-> q.m, d |-> q.d]
    <3> HIDE DEF n, d
    <3> QED
      BY DEF q, Reserve
  <2>2. w = [q EXCEPT !.d.count = q.d.count + 1] /\ q.d.count = d.count
    BY <1>2 DEF Widened, q, Reserved
  <2> HIDE DEF w
  <2> QED
    BY <2>1, <2>2
<1>6. w.m = q.m /\ w.d = e
  BY <1>5
<1>7. e = [ptr |-> q.d.ptr, count |-> n, cap |-> q.d.cap, arena |-> q.d.arena]
  <2>1. q.d = [ptr |-> q.d.ptr, count |-> q.d.count, cap |-> q.d.cap, arena |-> q.d.arena]
    BY <1>4, ListFacts
  <2> QED
    BY <2>1
<1> HIDE DEF w, e
<1>8. e \in ListType /\ e.count = n /\ Placed(q.m, e)
  <2>1. e.ptr = q.d.ptr /\ e.count = n /\ e.cap = q.d.cap
    BY <1>7
  <2>2. e \in ListType
    BY <1>1, <1>4, <1>7 DEF ListType
  <2> QED
    BY <1>3, <1>4, <2>1, <2>2 DEF Placed
<1>9. ASSUME i \in 0..d.count PROVE Holds(q.m, e, {i} \cup i..d.count)
  <2>1. \A k \in {i} \cup i..d.count : k \in 0..e.count - 1
    BY <1>1, <1>8, <1>9
  <2>2. \A k \in 0..e.count - 1 : e.count <= e.cap /\ Has(q.m[e.ptr.mem], e.ptr, k)
    BY <1>4, <1>8, HoldsFacts
  <2> QED
    BY <2>1, <2>2 DEF Holds
<1>10. ASSUME Holds(q.m, e, {i} \cup i..d.count) PROVE i \in 0..d.count
  <2>1. i \in 0..e.count - 1
    BY <1>10 DEF Holds
  <2> QED
    BY <1>1, <1>8, <2>1
<1> QED
  BY <1>6, <1>9, <1>10 DEF InsertStays, w

LEMMA RemoveHolds ==
  ASSUME IInv, NEW l \in List, NEW i \in Int
  PROVE  RemoveStays(l, i) <=> i \in 0..list[l].count - 1 /\ ~AtBlockEnd(list[l])
<1> DEFINE d == list[l]
<1>1. /\ MemoryOK(mem) /\ d \in ListType /\ Placed(mem, d) /\ d.count \in Nat /\ d.cap \in Nat
      /\ d.count <= d.cap /\ (d.cap > 0 => d.ptr # Nowhere)
  BY ListItems DEF IInv, Sound
<1> HIDE DEF d
<1>2. i \in 0..d.count - 1 <=> Holds(mem, d, {i})
  BY <1>1, HoldsFacts DEF Holds
<1>3. ASSUME i \in 0..d.count - 1, d.count # d.cap PROVE Has(mem[d.ptr.mem], d.ptr, d.count)
  <2>1. d.count \in 0..d.cap - 1 /\ d.ptr # Nowhere
    BY <1>1, <1>3
  <2> QED
    BY <1>1, <2>1, PlacedFacts
<1> QED
  BY <1>2, <1>3 DEF RemoveStays, AtBlockEnd, d

(* What touches memory that is no item of the list: the assignment behind  *)
(* the last item, insert() and remove() with an index out of range, and    *)
(* remove() from a full list at the end of its block, and nothing else     *)
(* (eval.c:477, stdlib.c:225, 288, cplus.h:289).                           *)
THEOREM TouchesItemsOnly == Spec => []Inside
<1>1. Init => IInv
  BY InitSound
<1>2. IInv /\ [Next]_vars => IInv'
  BY SoundNext
<1>3. IInv => Inside
  <2> SUFFICES ASSUME IInv PROVE Inside
    OBVIOUS
  <2>1. \A i \in Index : i \in Int
    BY IndexIsInt
  <2>2. ASSUME NEW l \in List
        PROVE  /\ AppendStays(l) /\ \A k \in List : ConcatStays(l, k)
               /\ \A i \in Index : Permitted(l, i) => (AssignStays(l, i) <=> i # list[l].count)
               /\ \A i \in Index : InsertStays(l, i) <=> i \in 0..list[l].count
               /\ \A i \in Index : RemoveStays(l, i) <=> /\ i \in 0..list[l].count - 1
                                                         /\ ~AtBlockEnd(list[l])
    BY <2>1, AppendHolds, ConcatHolds, AssignHolds, InsertHolds, RemoveHolds
  <2> QED
    BY <2>2 DEF Inside
<1> QED
  BY <1>1, <1>2, <1>3, PTL DEF Spec

-----------------------------------------------------------------------------
(* The sequences of SeqStore.                                              *)

\* The sequences, as SeqStore has them.
Sequences == [l \in List |-> Items(l)]

LEMMA ChangesPuts ==
  ASSUME NEW l \in List, NEW s, Changes(l, s)
  PROVE  Store!Put(l, s)
<1>1. \A k \in List : Items(k)' = IF k = l THEN s ELSE Items(k)
  BY DEF Changes, Items
<1>2. Sequences' = [Sequences EXCEPT ![l] = s]
  BY <1>1 DEF Sequences
<1> QED
  BY <1>2 DEF Store!Put, Sequences

LEMMA TakenIsStore ==
  ASSUME NEW l \in List, ListTaken(l)
  PROVE  Store!Next
<1>1. \A k \in List : Sequences[k] = Items(k)
  BY DEF Sequences
<1> QED
  BY <1>1, ChangesPuts DEF ListTaken, Store!Next, Sequences

LEMMA SweptIsStore == Swept => Store!Next
<1> SUFFICES ASSUME NEW live \in SUBSET List,
                    \A k \in List : Contents(mem', list'[k]) = IF k \in live THEN Items(k) ELSE <<>>
             PROVE  Store!Next
  BY DEF Swept
<1>1. Sequences' = [k \in List |-> IF k \in live THEN Sequences[k] ELSE <<>>]
  BY DEF Sequences, Items
<1>2. \E alive \in SUBSET List :
        [l \in List |-> Items(l)]' = [k \in List |-> IF k \in alive THEN [l \in List |-> Items(l)][k]
                                                   ELSE <<>>]
  BY <1>1 DEF Sequences
<1> QED
  BY <1>2 DEF Store!Next

(* As long as none of those calls is made, each list is a sequence of its  *)
(* own: every step is one of SeqStore, or changes none.                    *)
THEOREM ListsAreSequences == Spec => Keeps
<1>1. Init => IInv /\ Store!Init
  BY InitSound DEF Store!Init
<1>2. IInv /\ [Next]_vars => IInv'
  BY SoundNext
<1>3. IInv /\ [Next]_vars => [Store!Next]_Sequences
  <2>1. IInv /\ Next => Store!Next
    BY NextStep, TakenIsStore, SweptIsStore
  <2>2. IInv /\ UNCHANGED vars => UNCHANGED Sequences
    BY StaysStill DEF Sequences, Items
  <2> QED
    BY <2>1, <2>2
<1> QED
  BY <1>1, <1>2, <1>3, PTL DEF Spec, Keeps, Store!Spec, Sequences
=============================================================================
