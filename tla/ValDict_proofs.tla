--------------------------- MODULE ValDict_proofs ---------------------------
(***************************************************************************)
(* The dictionary, for any keys, hashes, contents and values and any       *)
(* initial capacity: its nodes are where their hashes say, through every   *)
(* rehash and every collection; a collection loses no key; and while keys  *)
(* do not change the table is a map.                                       *)
(***************************************************************************)
EXTENDS ValDict, SequenceTheorems, WellFoundedInduction, TLAPS

-----------------------------------------------------------------------------
(* Induction over the naturals, from the order on them being well-founded. *)

(* A set of naturals that is not empty has a least member. *)
LEMMA LeastNat ==
  ASSUME NEW T, T \subseteq Nat, T # {}
  PROVE  \E x \in T : \A y \in T : x <= y
<1> DEFINE R == {ss \in Nat \X Nat : ss[1] < ss[2]}
<1>1. IsWellFoundedOn(R, Nat)
  BY NatLessThanWellFounded DEF OpToRel
<1>2. \A x, y \in T : ~(x <= y) => <<y, x>> \in R
  OBVIOUS
<1> HIDE DEF R
<1>3. PICK x \in T : \A y \in T : <<y, x>> \notin R
  BY <1>1, WFMin
<1> QED
  BY <1>2, <1>3

(* What holds of 0 and of the next one of whatever it holds of, up to n. *)
LEMMA UpTo ==
  ASSUME NEW n \in Nat, NEW S, 0 \in S, \A k \in 0..n - 1 : k \in S => k + 1 \in S
  PROVE  0..n \subseteq S
<1> SUFFICES ASSUME (0..n) \ S # {} PROVE FALSE
  OBVIOUS
<1> DEFINE T == (0..n) \ S
<1>1. T \subseteq Nat /\ T # {}
  OBVIOUS
<1>2. PICK k \in T : \A y \in T : k <= y
  <2> HIDE DEF T
  <2> QED
    BY <1>1, LeastNat
<1>3. k # 0 /\ k - 1 \in 0..n - 1 /\ (k - 1) + 1 = k
  BY <1>2
<1>4. k - 1 \in S
  BY <1>2, <1>3
<1> QED
  BY <1>2, <1>3, <1>4

(* A function is defined by its first value and by what makes the next one. *)
Follows(f, n, base, F) == f[0] = base /\ \A k \in 1..n : f[k] = F[<<k, f[k - 1]>>]

LEMMA Recur ==
  ASSUME NEW n \in Nat, NEW X, NEW base \in X, NEW F, F \in [(1..n) \X X -> X]
  PROVE  \E f \in [0..n -> X] : Follows(f, n, base, F)
<1> DEFINE makes(f, k) == f[0] = base /\ \A j \in 1..k : f[j] = F[<<j, f[j - 1]>>]
           S == {k \in 0..n : \E f \in [0..k -> X] : makes(f, k)}
<1>1. 0 \in S
  <2> DEFINE f == [j \in 0..0 |-> base]
  <2>1. f \in [0..0 -> X] /\ makes(f, 0)
    OBVIOUS
  <2> HIDE DEF f, makes
  <2> QED
    BY <2>1
<1>2. ASSUME NEW k \in 0..n - 1, k \in S PROVE k + 1 \in S
  <2>0. k + 1 \in 0..n /\ k \in Nat
    OBVIOUS
  <2>1. PICK f \in [0..k -> X] : makes(f, k)
    BY <1>2
  <2> DEFINE new == F[<<k + 1, f[k]>>]
             g == [j \in 0..k + 1 |-> IF j = k + 1 THEN new ELSE f[j]]
  <2>2. new \in X
    <3>1. f[k] \in X /\ k + 1 \in 1..n
      OBVIOUS
    <3> QED
      BY <3>1
  <2> HIDE DEF new
  <2>3. g \in [0..k + 1 -> X]
    BY <2>2
  <2>4. /\ g[0] = f[0] /\ g[k + 1] = new /\ g[k] = f[k]
        /\ \A j \in 1..k : g[j] = f[j] /\ g[j - 1] = f[j - 1]
    OBVIOUS
  <2> HIDE DEF g
  <2>5. makes(g, k + 1)
    <3>1. ASSUME NEW j \in 1..k + 1 PROVE g[j] = F[<<j, g[j - 1]>>]
      <4>1. CASE j = k + 1
        <5>1. j - 1 = k
          BY <2>0, <4>1
        <5> QED
          BY <2>4, <4>1, <5>1 DEF new
      <4>2. CASE j # k + 1
        <5>1. j \in 1..k
          BY <2>0, <4>2
        <5> QED
          BY <2>1, <2>4, <5>1
      <4> QED
        BY <4>1, <4>2
    <3> QED
      BY <2>1, <2>4, <3>1
  <2> HIDE DEF makes
  <2> QED
    BY <2>0, <2>3, <2>5
<1>3. 0..n \subseteq S
  <2> HIDE DEF S
  <2> QED
    BY <1>1, <1>2, UpTo
<1>4. n \in S
  BY <1>3
<1> QED
  BY <1>4 DEF Follows

LEMMA MinFacts ==
  ASSUME NEW S, S \subseteq Nat, S # {}
  PROVE  Min(S) \in S
<1>1. \E x \in S : \A y \in S : x <= y
  BY LeastNat
<1> QED
  BY <1>1 DEF Min

-----------------------------------------------------------------------------
(* Keys.                                                                   *)

Contents == content \in [Lists \cup Strings -> Content]

LEMMA HashFacts ==
  ASSUME Contents, NEW k \in Key, NEW n \in Nat \ {0}
  PROVE  Hash(k) \in Nat /\ Hash(k) % n \in 0..n - 1
<1>1. Hash(k) \in Nat
  <2>1. CASE k \in Lists
    BY <2>1 DEF Hash, ListHash
  <2>2. CASE k \notin Lists /\ k \in Strings
    <3>1. content[k] \in Content
      BY <2>2 DEF Contents
    <3> QED
      BY <2>2, <3>1, DictAssumption DEF Hash
  <2>3. CASE k \notin Lists /\ k \notin Strings
    BY <2>3, DictAssumption DEF Hash, Key
  <2> QED
    BY <2>1, <2>2, <2>3
<1> QED
  BY <1>1

(* Equal keys have equal hashes, but for the zeros. *)
LEMMA EqualKeys ==
  ASSUME NEW k \in Key, NEW q \in Key \ Zeros, Same(k, q)
  PROVE  /\ Hash(k) = Hash(q) /\ k \notin Zeros
         /\ q \in Steady => k \in Steady
<1>1. CASE q \in Lists
  <2>1. k \in Lists
    BY <1>1, DictAssumption DEF Same, Class, Key
  <2> QED
    BY <1>1, <2>1, DictAssumption DEF Hash, ListHash, Steady
<1>2. CASE q \in Strings
  <2>1. k \in Strings /\ content[k] = content[q]
    BY <1>2, DictAssumption DEF Same, Class, Key
  <2> QED
    BY <1>2, <2>1, DictAssumption DEF Hash, Steady, Key
<1>3. CASE q \in Plain
  <2>1. k = q
    BY <1>3, DictAssumption DEF Same, Class, Key
  <2> QED
    BY <1>3, <2>1
<1> QED
  BY <1>1, <1>2, <1>3 DEF Key

-----------------------------------------------------------------------------
(* Chains: the function from buckets to the nodes in them.                 *)

Chains(n) == [0..n - 1 -> Seq(Node)]

\* The node x is in one of the chains.
Within(a, n, x) == \E i \in 0..n - 1 : \E j \in 1..Len(a[i]) : a[i][j] = x

\* Nodes with a key of K are where its hash says.
Placed(a, n, K) ==
  \A i \in 0..n - 1 : \A j \in 1..Len(a[i]) :
    a[i][j].key \in K => Hash(a[i][j].key) % n = i

\* No chain has two nodes with equal keys.
Alone(a, n) ==
  \A i \in 0..n - 1 : \A j, l \in 1..Len(a[i]) : Same(a[i][j].key, a[i][l].key) => j = l

\* No node of the chain that belongs to key k has an equal key.
Fresh(a, n, k) == \A j \in 1..Len(a[Hash(k) % n]) : ~Same(a[Hash(k) % n][j].key, k)

LEMMA InChain ==
  ASSUME NEW n \in Nat, NEW a \in Chains(n), NEW i \in 0..n - 1
  PROVE  a[i] \in Seq(Node) /\ Len(a[i]) \in Nat /\ \A j \in 1..Len(a[i]) : a[i][j] \in Node
BY ElementOfSeq, LenProperties DEF Chains

(* A sequence with one more at its head. *)
LEMMA HeadFacts ==
  ASSUME NEW S, NEW s \in Seq(S), NEW e \in S
  PROVE  LET u == <<e>> \o s
         IN  /\ u \in Seq(S) /\ Len(u) = Len(s) + 1 /\ Len(s) \in Nat /\ u[1] = e
             /\ \A j \in 1..Len(s) : u[j + 1] = s[j]
             /\ \A j \in 2..Len(u) : j - 1 \in 1..Len(s) /\ u[j] = s[j - 1]
<1>1. <<e>> \in Seq(S) /\ Len(<<e>>) = 1 /\ <<e>>[1] = e
  OBVIOUS
<1>2. /\ <<e>> \o s \in Seq(S) /\ Len(<<e>> \o s) = 1 + Len(s)
      /\ \A i \in 1..1 + Len(s) : (<<e>> \o s)[i] = IF i <= 1 THEN <<e>>[i] ELSE s[i - 1]
  BY <1>1, ConcatProperties
<1>3. Len(s) \in Nat
  BY LenProperties
<1> DEFINE u == <<e>> \o s
<1> HIDE DEF u
<1>4. \A i \in 1..1 + Len(s) : u[i] = IF i <= 1 THEN <<e>>[i] ELSE s[i - 1]
  BY <1>2 DEF u
<1>5. Len(u) = Len(s) + 1 /\ u[1] = e
  BY <1>1, <1>2, <1>3, <1>4 DEF u
<1>6. ASSUME NEW j \in 1..Len(s) PROVE u[j + 1] = s[j]
  BY <1>3, <1>4
<1>7. ASSUME NEW j \in 2..Len(u) PROVE j - 1 \in 1..Len(s) /\ u[j] = s[j - 1]
  BY <1>3, <1>4, <1>5
<1> QED
  BY <1>2, <1>3, <1>5, <1>6, <1>7 DEF u

\* From a to b: node e is the new head of chain h.
Headed(a, b, n, h, e) ==
  /\ h \in 0..n - 1 /\ b \in Chains(n)
  /\ \A i \in 0..n - 1 : i # h => b[i] = a[i]
  /\ Len(a[h]) \in Nat /\ Len(b[h]) = Len(a[h]) + 1 /\ b[h][1] = e
  /\ \A j \in 1..Len(a[h]) : b[h][j + 1] = a[h][j]
  /\ \A j \in 2..Len(b[h]) : j - 1 \in 1..Len(a[h]) /\ b[h][j] = a[h][j - 1]

LEMMA PushStep ==
  ASSUME Contents, NEW n \in Nat \ {0}, NEW a \in Chains(n), NEW e \in Node
  PROVE  Headed(a, Push(a, n, e), n, Hash(e.key) % n, e)
<1> DEFINE h == Hash(e.key) % n
           c == <<e>> \o a[h]
           b == Push(a, n, e)
<1>1. h \in 0..n - 1
  BY HashFacts DEF Node
<1> HIDE DEF h
<1>2. a[h] \in Seq(Node)
  BY <1>1, InChain
<1>3. /\ c \in Seq(Node) /\ Len(c) = Len(a[h]) + 1 /\ c[1] = e /\ Len(a[h]) \in Nat
      /\ \A j \in 1..Len(a[h]) : c[j + 1] = a[h][j]
      /\ \A j \in 2..Len(c) : j - 1 \in 1..Len(a[h]) /\ c[j] = a[h][j - 1]
  BY <1>2, HeadFacts
<1>4. b = [a EXCEPT ![h] = c]
  BY DEF Push, h
<1> HIDE DEF b, c
<1>5. b \in Chains(n) /\ b[h] = c /\ \A i \in 0..n - 1 : i # h => b[i] = a[i]
  BY <1>1, <1>3, <1>4 DEF Chains
<1>6. Headed(a, b, n, h, e)
  BY <1>1, <1>3, <1>5 DEF Headed
<1> QED
  BY <1>6 DEF b, h

LEMMA PushPlaced ==
  ASSUME Contents, NEW n \in Nat \ {0}, NEW a \in Chains(n), NEW e \in Node, NEW K,
         Placed(a, n, K)
  PROVE  Placed(Push(a, n, e), n, K)
<1> DEFINE b == Push(a, n, e)
           h == Hash(e.key) % n
<1>0. Headed(a, b, n, h, e)
  BY PushStep
<1>2. e.key \in K => Hash(e.key) % n = h
  OBVIOUS
<1> HIDE DEF b, h
<1>1. /\ h \in 0..n - 1 /\ b \in Chains(n)
      /\ \A i \in 0..n - 1 : i # h => b[i] = a[i]
      /\ Len(a[h]) \in Nat /\ Len(b[h]) = Len(a[h]) + 1 /\ b[h][1] = e
      /\ \A j \in 1..Len(a[h]) : b[h][j + 1] = a[h][j]
      /\ \A j \in 2..Len(b[h]) : j - 1 \in 1..Len(a[h]) /\ b[h][j] = a[h][j - 1]
  BY <1>0 DEF Headed
<1>3. ASSUME NEW i \in 0..n - 1, NEW j \in 1..Len(b[i]), b[i][j].key \in K
      PROVE  Hash(b[i][j].key) % n = i
  <2>1. CASE i # h
    BY <1>1, <1>3, <2>1 DEF Placed
  <2>2. CASE i = h /\ j = 1
    BY <1>1, <1>2, <1>3, <2>2
  <2>3. CASE i = h /\ j # 1
    <3>1. j \in 2..Len(b[h])
      BY <1>1, <2>3, InChain
    <3>2. j - 1 \in 1..Len(a[h]) /\ b[i][j] = a[h][j - 1]
      BY <1>1, <2>3, <3>1
    <3>3. Hash(a[h][j - 1].key) % n = h
      BY <1>1, <1>3, <3>2 DEF Placed
    <3> QED
      BY <2>3, <3>2, <3>3
  <2> QED
    BY <2>1, <2>2, <2>3
<1> QED
  BY <1>3 DEF Placed, b

LEMMA PushWithin ==
  ASSUME Contents, NEW n \in Nat \ {0}, NEW a \in Chains(n), NEW e \in Node, NEW x
  PROVE  Within(Push(a, n, e), n, x) <=> Within(a, n, x) \/ x = e
<1> DEFINE b == Push(a, n, e)
           h == Hash(e.key) % n
<1>0. Headed(a, b, n, h, e)
  BY PushStep
<1> HIDE DEF b, h
<1>1. /\ h \in 0..n - 1 /\ b \in Chains(n)
      /\ \A i \in 0..n - 1 : i # h => b[i] = a[i]
      /\ Len(a[h]) \in Nat /\ Len(b[h]) = Len(a[h]) + 1 /\ b[h][1] = e
      /\ \A j \in 1..Len(a[h]) : b[h][j + 1] = a[h][j]
      /\ \A j \in 2..Len(b[h]) : j - 1 \in 1..Len(a[h]) /\ b[h][j] = a[h][j - 1]
  BY <1>0 DEF Headed
<1>2. Len(a[h]) \in Nat /\ Len(b[h]) \in Nat
  BY <1>1, InChain
<1>3. ASSUME Within(b, n, x) PROVE Within(a, n, x) \/ x = e
  <2>1. PICK i \in 0..n - 1 : \E j \in 1..Len(b[i]) : b[i][j] = x
    BY <1>3 DEF Within
  <2>2. PICK j \in 1..Len(b[i]) : b[i][j] = x
    BY <2>1
  <2>3. CASE i # h
    BY <1>1, <2>2, <2>3 DEF Within
  <2>4. CASE i = h /\ j = 1
    BY <1>1, <2>2, <2>4
  <2>5. CASE i = h /\ j # 1
    <3>1. j \in 2..Len(b[h])
      BY <1>2, <2>5
    <3> QED
      BY <1>1, <2>2, <2>5, <3>1 DEF Within
  <2> QED
    BY <2>3, <2>4, <2>5
<1>4. ASSUME Within(a, n, x) PROVE Within(b, n, x)
  <2>1. PICK i \in 0..n - 1 : \E j \in 1..Len(a[i]) : a[i][j] = x
    BY <1>4 DEF Within
  <2>2. PICK j \in 1..Len(a[i]) : a[i][j] = x
    BY <2>1
  <2>3. CASE i # h
    BY <1>1, <2>2, <2>3 DEF Within
  <2>4. CASE i = h
    <3>1. j + 1 \in 1..Len(b[h]) /\ b[h][j + 1] = x
      BY <1>1, <1>2, <2>2, <2>4
    <3> QED
      BY <1>1, <3>1 DEF Within
  <2> QED
    BY <2>3, <2>4
<1>5. ASSUME x = e PROVE Within(b, n, x)
  <2>1. 1 \in 1..Len(b[h])
    BY <1>1, <1>2
  <2> QED
    BY <1>1, <1>5, <2>1 DEF Within
<1> QED
  BY <1>3, <1>4, <1>5 DEF b

LEMMA PushAlone ==
  ASSUME Contents, NEW n \in Nat \ {0}, NEW a \in Chains(n), NEW e \in Node,
         Alone(a, n), Fresh(a, n, e.key)
  PROVE  Alone(Push(a, n, e), n)
<1> DEFINE b == Push(a, n, e)
           h == Hash(e.key) % n
<1>0. Headed(a, b, n, h, e)
  BY PushStep
<1>2. \A j \in 1..Len(a[h]) : ~Same(a[h][j].key, e.key) /\ ~Same(e.key, a[h][j].key)
  BY DEF Fresh, Same
<1> HIDE DEF b, h
<1>1. /\ h \in 0..n - 1 /\ b \in Chains(n)
      /\ \A i \in 0..n - 1 : i # h => b[i] = a[i]
      /\ Len(a[h]) \in Nat /\ Len(b[h]) = Len(a[h]) + 1 /\ b[h][1] = e
      /\ \A j \in 1..Len(a[h]) : b[h][j + 1] = a[h][j]
      /\ \A j \in 2..Len(b[h]) : j - 1 \in 1..Len(a[h]) /\ b[h][j] = a[h][j - 1]
  BY <1>0 DEF Headed
<1>3. ASSUME NEW i \in 0..n - 1, NEW j \in 1..Len(b[i]), NEW l \in 1..Len(b[i]),
             Same(b[i][j].key, b[i][l].key)
      PROVE  j = l
  <2>1. CASE i # h
    BY <1>1, <1>3, <2>1 DEF Alone
  <2>2. CASE i = h
    <3>1. \A k \in 1..Len(b[h]) : k # 1 => k \in 2..Len(b[h])
      BY <1>1, InChain
    <3>2. CASE j = 1 /\ l # 1
      BY <1>1, <1>2, <1>3, <2>2, <3>1, <3>2
    <3>3. CASE j # 1 /\ l = 1
      BY <1>1, <1>2, <1>3, <2>2, <3>1, <3>3
    <3>4. CASE j # 1 /\ l # 1
      <4>1. j - 1 \in 1..Len(a[h]) /\ l - 1 \in 1..Len(a[h])
        BY <1>1, <2>2, <3>1, <3>4
      <4>2. Same(a[h][j - 1].key, a[h][l - 1].key)
        BY <1>1, <1>3, <2>2, <3>1, <3>4
      <4>3. j - 1 = l - 1
        BY <1>1, <4>1, <4>2 DEF Alone
      <4> QED
        BY <4>3
    <3> QED
      BY <3>2, <3>3, <3>4
  <2> QED
    BY <2>1, <2>2
<1> QED
  BY <1>3 DEF Alone, b

-----------------------------------------------------------------------------
(* The nodes of a table one after the other, as ht_foreach_node visits     *)
(* them.                                                                   *)

AllOf(a, n) == FlattenSeq([i \in 1..n |-> a[i - 1]])

\* g[i] are the nodes of the first i chains.
FirstChains(g, a, n) ==
  /\ g \in [0..n -> Seq(Node)] /\ g[0] = <<>>
  /\ \A i \in 0..n - 1 : g[i + 1] = g[i] \o a[i]

LEMMA AllOfFacts ==
  ASSUME NEW n \in Nat, NEW a \in Chains(n)
  PROVE  \E g : FirstChains(g, a, n) /\ AllOf(a, n) = g[n]
<1> DEFINE s == [i \in 1..n |-> a[i - 1]]
           F == [p \in (1..n) \X Seq(Node) |-> p[2] \o s[p[1]]]
           flat(f) == f = [i \in 1..n |-> IF i = 1 THEN s[i] ELSE f[i - 1] \o s[i]]
<1>1. Len(s) = n /\ \A i \in 1..n : s[i] = a[i - 1] /\ s[i] \in Seq(Node)
  <2>1. \A i \in 1..n : s[i] = a[i - 1] /\ s[i] \in Seq(Node)
    BY InChain
  <2>2. s \in [1..n -> Seq(Node)]
    BY InChain
  <2> HIDE DEF s
  <2>3. Len(s) = n
    <3>1. s \in Seq(Seq(Node)) /\ DOMAIN s = 1..n
      BY <2>2, SeqDef
    <3> QED
      BY <3>1, LenProperties
  <2> QED
    BY <2>1, <2>3
<1> HIDE DEF s
<1>2. F \in [(1..n) \X Seq(Node) -> Seq(Node)]
  <2>1. ASSUME NEW p \in (1..n) \X Seq(Node) PROVE p[2] \o s[p[1]] \in Seq(Node)
    BY <1>1, ConcatProperties
  <2> QED
    BY <2>1
<1>3. \A k \in 1..n : \A x \in Seq(Node) : F[<<k, x>>] = x \o s[k]
  OBVIOUS
<1>4. <<>> \in Seq(Node)
  OBVIOUS
<1> HIDE DEF F
<1>50. PICK g \in [0..n -> Seq(Node)] : Follows(g, n, <<>>, F)
  BY <1>2, <1>4, Recur
<1>5. g[0] = <<>> /\ \A k \in 1..n : g[k] = F[<<k, g[k - 1]>>]
  BY <1>50 DEF Follows
<1>6. \A k \in 1..n : k - 1 \in 0..n /\ g[k - 1] \in Seq(Node) /\ g[k] = g[k - 1] \o s[k]
  <2>1. \A k \in 1..n : k - 1 \in 0..n /\ g[k - 1] \in Seq(Node)
    OBVIOUS
  <2> QED
    BY <1>3, <1>5, <2>1
<1>7. FirstChains(g, a, n)
  <2>1. ASSUME NEW i \in 0..n - 1 PROVE g[i + 1] = g[i] \o a[i]
    <3>1. i + 1 \in 1..n /\ (i + 1) - 1 = i
      OBVIOUS
    <3> QED
      BY <1>1, <1>6, <3>1
  <2> QED
    BY <1>5, <2>1 DEF FirstChains
<1>8. n = 0 => AllOf(a, n) = g[n]
  BY <1>1, <1>5 DEF AllOf, FlattenSeq, s
<1>9. ASSUME n # 0 PROVE AllOf(a, n) = g[n]
  <2> DEFINE h == [i \in 1..n |-> g[i]]
             f == CHOOSE x : flat(x)
  <2>1. flat(h)
    <3>1. ASSUME NEW i \in 1..n PROVE h[i] = IF i = 1 THEN s[i] ELSE h[i - 1] \o s[i]
      <4>1. CASE i = 1
        <5>0. g[1] = g[1 - 1] \o s[1] /\ s[1] \in Seq(Node)
          BY <1>1, <1>6, <4>1
        <5>01. 1 - 1 = 0 /\ g[0] = <<>>
          BY <1>5
        <5>02. g[1 - 1] = <<>>
          BY <5>01
        <5>1. g[1] = <<>> \o s[1] /\ s[1] \in Seq(Node)
          BY <5>0, <5>02
        <5> QED
          BY <4>1, <5>1
      <4>2. CASE i # 1
        <5>1. i - 1 \in 1..n
          BY <4>2
        <5> QED
          BY <1>6, <4>2, <5>1
      <4> QED
        BY <4>1, <4>2
    <3> HIDE DEF h
    <3>2. h = [i \in 1..n |-> h[i]]
      BY DEF h
    <3> QED
      BY <3>1, <3>2
  <2>2. flat(f)
    <3> HIDE DEF flat, h
    <3> QED
      BY <2>1
  <2>3. AllOf(a, n) = f[n]
    BY <1>1, <1>9 DEF AllOf, FlattenSeq, s
  <2> HIDE DEF f, h
  <2>4. \A i \in 1..n : f[i] = IF i = 1 THEN s[i] ELSE f[i - 1] \o s[i]
    BY <2>2
  <2> HIDE DEF flat
  <2> DEFINE S == {i \in 0..n : i # 0 => f[i] = g[i]}
  <2>5. 0 \in S
    OBVIOUS
  <2>6. ASSUME NEW i \in 0..n - 1, i \in S PROVE i + 1 \in S
    <3>1. i + 1 \in 1..n /\ (i + 1) - 1 = i /\ i + 1 # 0
      OBVIOUS
    <3>2. g[i + 1] = g[i] \o s[i + 1] /\ s[i + 1] \in Seq(Node)
      BY <1>1, <1>6, <3>1
    <3>5. SUFFICES f[i + 1] = g[i + 1]
      OBVIOUS
    <3> HIDE DEF S
    <3>3. CASE i = 0
      <4>1. f[i + 1] = s[i + 1]
        BY <2>4, <3>1, <3>3
      <4>2. <<>> \o s[i + 1] = s[i + 1]
        BY <3>2
      <4> QED
        BY <1>5, <3>2, <3>3, <4>1, <4>2
    <3>4. CASE i # 0
      <4>0. i + 1 # 1 /\ f[(i + 1) - 1] = f[i]
        BY <3>1, <3>4
      <4>3. f[i + 1] = IF i + 1 = 1 THEN s[i + 1] ELSE f[(i + 1) - 1] \o s[i + 1]
        BY <2>4, <3>1
      <4>1. f[i + 1] = f[i] \o s[i + 1]
        BY <4>0, <4>3
      <4>2. f[i] = g[i]
        BY <2>6, <3>4 DEF S
      <4> QED
        BY <3>1, <3>2, <4>1, <4>2
    <3> QED
      BY <3>3, <3>4
  <2>7. 0..n \subseteq S
    <3> HIDE DEF S
    <3> QED
      BY <2>5, <2>6, UpTo
  <2>8. n \in S
    BY <2>7
  <2> QED
    BY <1>9, <2>3, <2>8
<1> QED
  BY <1>7, <1>8, <1>9

\* The node x is in the sequence.
Among(s, x) == \E p \in 1..Len(s) : s[p] = x

\* No two nodes of a sequence have equal keys.
Distinct(s) == \A p, q \in 1..Len(s) : Same(s[p].key, s[q].key) => p = q

LEMMA ConcatFacts ==
  ASSUME NEW s \in Seq(Node), NEW u \in Seq(Node)
  PROVE  /\ s \o u \in Seq(Node) /\ Len(s) \in Nat /\ Len(u) \in Nat
         /\ Len(s \o u) = Len(s) + Len(u)
         /\ \A p \in 1..Len(s) : (s \o u)[p] = s[p]
         /\ \A p \in 1..Len(u) : (s \o u)[Len(s) + p] = u[p]
         /\ \A p \in 1..Len(s \o u) :
              p \in 1..Len(s) \/ (p - Len(s) \in 1..Len(u) /\ (s \o u)[p] = u[p - Len(s)])
<1>1. /\ s \o u \in Seq(Node) /\ Len(s \o u) = Len(s) + Len(u)
      /\ \A i \in 1..Len(s) + Len(u) :
           (s \o u)[i] = IF i <= Len(s) THEN s[i] ELSE u[i - Len(s)]
  BY ConcatProperties
<1>2. Len(s) \in Nat /\ Len(u) \in Nat
  BY LenProperties
<1> DEFINE w == s \o u
           ls == Len(s)
           lu == Len(u)
<1> HIDE DEF w, ls, lu
<1>3. /\ w \in Seq(Node) /\ Len(w) = ls + lu /\ ls \in Nat /\ lu \in Nat
      /\ \A i \in 1..ls + lu : w[i] = IF i <= ls THEN s[i] ELSE u[i - ls]
  BY <1>1, <1>2 DEF w, ls, lu
<1>4. /\ \A p \in 1..ls : w[p] = s[p]
      /\ \A p \in 1..lu : w[ls + p] = u[p]
      /\ \A p \in 1..Len(w) : p \in 1..ls \/ (p - ls \in 1..lu /\ w[p] = u[p - ls])
  <2>1. ASSUME NEW p \in 1..lu PROVE w[ls + p] = u[p]
    <3>1. ls + p \in 1..ls + lu /\ ~(ls + p <= ls) /\ (ls + p) - ls = p
      BY <1>3
    <3> QED
      BY <1>3, <3>1
  <2>2. ASSUME NEW p \in 1..Len(w) PROVE p \in 1..ls \/ (p - ls \in 1..lu /\ w[p] = u[p - ls])
    <3>1. p \in 1..ls + lu
      BY <1>3
    <3>2. p \notin 1..ls => ~(p <= ls) /\ p - ls \in 1..lu
      BY <1>3, <3>1
    <3>3. w[p] = IF p <= ls THEN s[p] ELSE u[p - ls]
      BY <1>3, <3>1
    <3> QED
      BY <3>2, <3>3
  <2>3. ASSUME NEW p \in 1..ls PROVE w[p] = s[p]
    BY <1>3
  <2> QED
    BY <2>1, <2>2, <2>3
<1> QED
  BY <1>3, <1>4 DEF w, ls, lu

LEMMA ConcatAmong ==
  ASSUME NEW s \in Seq(Node), NEW u \in Seq(Node), NEW x
  PROVE  Among(s \o u, x) <=> Among(s, x) \/ Among(u, x)
<1> DEFINE w == s \o u
<1>1. /\ Len(s) \in Nat /\ Len(u) \in Nat
      /\ Len(w) = Len(s) + Len(u)
      /\ \A p \in 1..Len(s) : w[p] = s[p]
      /\ \A p \in 1..Len(u) : w[Len(s) + p] = u[p]
      /\ \A p \in 1..Len(w) : p \in 1..Len(s) \/ (p - Len(s) \in 1..Len(u) /\ w[p] = u[p - Len(s)])
  BY ConcatFacts
<1> HIDE DEF w
<1>2. ASSUME Among(w, x) PROVE Among(s, x) \/ Among(u, x)
  <2>1. PICK p \in 1..Len(w) : w[p] = x
    BY <1>2 DEF Among
  <2> QED
    BY <1>1, <2>1 DEF Among
<1>3. ASSUME Among(s, x) PROVE Among(w, x)
  <2>1. PICK p \in 1..Len(s) : s[p] = x
    BY <1>3 DEF Among
  <2>2. p \in 1..Len(w) /\ w[p] = x
    BY <1>1, <2>1
  <2> QED
    BY <2>2 DEF Among
<1>4. ASSUME Among(u, x) PROVE Among(w, x)
  <2>1. PICK p \in 1..Len(u) : u[p] = x
    BY <1>4 DEF Among
  <2>2. Len(s) + p \in 1..Len(w) /\ w[Len(s) + p] = x
    BY <1>1, <2>1
  <2> QED
    BY <2>2 DEF Among
<1> QED
  BY <1>2, <1>3, <1>4 DEF w

LEMMA ConcatDistinct ==
  ASSUME NEW s \in Seq(Node), NEW u \in Seq(Node), Distinct(s), Distinct(u),
         \A x, y \in Node : Among(s, x) /\ Among(u, y) => ~Same(x.key, y.key)
  PROVE  Distinct(s \o u)
<1> DEFINE w == s \o u
<1>1. /\ Len(s) \in Nat /\ Len(u) \in Nat
      /\ Len(w) = Len(s) + Len(u)
      /\ \A p \in 1..Len(s) : w[p] = s[p]
      /\ \A p \in 1..Len(w) : p \in 1..Len(s) \/ (p - Len(s) \in 1..Len(u) /\ w[p] = u[p - Len(s)])
  BY ConcatFacts
<1> HIDE DEF w
<1>2. \A p \in 1..Len(s) : s[p] \in Node /\ Among(s, s[p])
  BY ElementOfSeq DEF Among
<1>3. \A p \in 1..Len(u) : u[p] \in Node /\ Among(u, u[p])
  BY ElementOfSeq DEF Among
<1>4. \A x, y \in Node : Same(x.key, y.key) => Same(y.key, x.key)
  BY DEF Same
<1>5. ASSUME NEW p \in 1..Len(w), NEW q \in 1..Len(w), Same(w[p].key, w[q].key)
      PROVE  p = q
  <2>1. CASE p \in 1..Len(s) /\ q \in 1..Len(s)
    BY <1>1, <1>5, <2>1 DEF Distinct
  <2>2. CASE p \in 1..Len(s) /\ q \notin 1..Len(s)
    BY <1>1, <1>2, <1>3, <1>5, <2>2
  <2>3. CASE p \notin 1..Len(s) /\ q \in 1..Len(s)
    BY <1>1, <1>2, <1>3, <1>4, <1>5, <2>3
  <2>4. CASE p \notin 1..Len(s) /\ q \notin 1..Len(s)
    <3>1. p - Len(s) \in 1..Len(u) /\ q - Len(s) \in 1..Len(u)
      BY <1>1, <2>4
    <3>2. Same(u[p - Len(s)].key, u[q - Len(s)].key)
      BY <1>1, <1>5, <2>4
    <3>3. p - Len(s) = q - Len(s)
      BY <3>1, <3>2 DEF Distinct
    <3> QED
      BY <1>1, <3>3
  <2> QED
    BY <2>1, <2>2, <2>3, <2>4
<1> QED
  BY <1>5 DEF Distinct, w

(* The nodes visited are those in the chains. *)
LEMMA AllOfWithin ==
  ASSUME NEW n \in Nat, NEW a \in Chains(n)
  PROVE  /\ AllOf(a, n) \in Seq(Node)
         /\ \A x : Among(AllOf(a, n), x) <=> Within(a, n, x)
<1>1. PICK g : FirstChains(g, a, n) /\ AllOf(a, n) = g[n]
  BY AllOfFacts
<1>2. g \in [0..n -> Seq(Node)] /\ g[0] = <<>>
  BY <1>1 DEF FirstChains
<1>20. \A i \in 0..n - 1 : g[i + 1] = g[i] \o a[i]
  BY <1>1 DEF FirstChains
<1> SUFFICES ASSUME NEW x PROVE Among(g[n], x) <=> Within(a, n, x)
  BY <1>1, <1>2
<1> DEFINE S == {i \in 0..n : Among(g[i], x) <=> Within(a, i, x)}
<1>3. 0 \in S
  <2>1. ~Among(g[0], x)
    BY <1>2 DEF Among
  <2>2. ~Within(a, 0, x)
    BY DEF Within
  <2> QED
    BY <2>1, <2>2
<1>4. ASSUME NEW i \in 0..n - 1, i \in S PROVE i + 1 \in S
  <2>1. g[i] \in Seq(Node) /\ a[i] \in Seq(Node) /\ g[i + 1] = g[i] \o a[i]
    <3>1. a[i] \in Seq(Node)
      BY InChain
    <3>2. i \in 0..n
      OBVIOUS
    <3>3. g[i] \in Seq(Node)
      BY <1>2, <3>2
    <3>4. g[i + 1] = g[i] \o a[i]
      BY <1>20
    <3> QED
      BY <3>1, <3>3, <3>4
  <2>2. Among(g[i + 1], x) <=> Among(g[i], x) \/ Among(a[i], x)
    BY <2>1, ConcatAmong
  <2>3. Within(a, i + 1, x) <=> Within(a, i, x) \/ Among(a[i], x)
    <3>1. \A l : l \in 0..(i + 1) - 1 <=> l \in 0..i - 1 \/ l = i
      OBVIOUS
    <3> QED
      BY <3>1 DEF Within, Among
  <2> QED
    BY <1>4, <2>2, <2>3
<1>5. 0..n \subseteq S
  <2> HIDE DEF S
  <2> QED
    BY <1>3, <1>4, UpTo
<1>6. n \in S
  BY <1>5
<1> QED
  BY <1>6

(* No two of them have equal keys. *)
LEMMA AllOfDistinct ==
  ASSUME NEW n \in Nat, NEW a \in Chains(n), Zeros = {}, Placed(a, n, Key), Alone(a, n)
  PROVE  Distinct(AllOf(a, n))
<1>1. PICK g : FirstChains(g, a, n) /\ AllOf(a, n) = g[n]
  BY AllOfFacts
<1>2. g \in [0..n -> Seq(Node)] /\ g[0] = <<>>
  BY <1>1 DEF FirstChains
<1>20. \A i \in 0..n - 1 : g[i + 1] = g[i] \o a[i]
  BY <1>1 DEF FirstChains
<1> DEFINE S == {i \in 0..n : Distinct(g[i]) /\ \A x : Among(g[i], x) => Within(a, i, x)}
<1>3. 0 \in S
  BY <1>2 DEF Among, Distinct
<1>4. ASSUME NEW i \in 0..n - 1, i \in S PROVE i + 1 \in S
  <2>1. g[i] \in Seq(Node) /\ a[i] \in Seq(Node) /\ g[i + 1] = g[i] \o a[i]
    <3>1. a[i] \in Seq(Node)
      BY InChain
    <3>2. i \in 0..n
      OBVIOUS
    <3>3. g[i] \in Seq(Node)
      BY <1>2, <3>2
    <3>4. g[i + 1] = g[i] \o a[i]
      BY <1>20
    <3> QED
      BY <3>1, <3>3, <3>4
  <2>2. ASSUME NEW x, Among(g[i + 1], x) PROVE Within(a, i + 1, x)
    <3>1. Among(g[i], x) \/ Among(a[i], x)
      BY <2>1, <2>2, ConcatAmong
    <3>2. \A l : l \in 0..(i + 1) - 1 <=> l \in 0..i - 1 \/ l = i
      OBVIOUS
    <3> QED
      BY <1>4, <3>1, <3>2 DEF Within, Among
  <2>3. Distinct(a[i])
    BY DEF Distinct, Alone
  <2>4. ASSUME NEW x \in Node, NEW y \in Node, Among(g[i], x), Among(a[i], y), Same(x.key, y.key)
        PROVE  FALSE
    <3>1. Within(a, i, x)
      BY <1>4, <2>4
    <3>2. PICK l \in 0..i - 1 : \E j \in 1..Len(a[l]) : a[l][j] = x
      BY <3>1 DEF Within
    <3>3. x.key \in Key /\ y.key \in Key \ Zeros
      BY DEF Node
    <3>4. l \in 0..n - 1
      OBVIOUS
    <3>5. Hash(x.key) % n = l
      BY <3>2, <3>3, <3>4 DEF Placed
    <3>6. Hash(y.key) % n = i
      BY <2>4, <3>3 DEF Placed, Among
    <3>7. Hash(x.key) = Hash(y.key)
      BY <2>4, <3>3, EqualKeys
    <3> QED
      BY <3>5, <3>6, <3>7
  <2>5. Distinct(g[i + 1])
    <3>1. Distinct(g[i])
      BY <1>4
    <3> QED
      BY <2>1, <2>3, <2>4, <3>1, ConcatDistinct
  <2> QED
    BY <2>2, <2>5
<1>5. 0..n \subseteq S
  <2> HIDE DEF S
  <2> QED
    BY <1>3, <1>4, UpTo
<1>6. n \in S
  BY <1>5
<1> QED
  BY <1>1, <1>6

LEMMA LengthStep ==
  ASSUME NEW i \in Nat, NEW h \in Nat, NEW d \in Nat, NEW lf \in Nat, NEW la \in Nat,
         NEW lg, NEW lb,
         lg = IF i <= h THEN lf ELSE lf + d, lb = IF i = h THEN la + d ELSE la
  PROVE  lg + lb = IF i + 1 <= h THEN lf + la ELSE (lf + la) + d
OBVIOUS

(* Their number is the sum of the lengths of the chains. *)
LEMMA AllOfLength ==
  ASSUME NEW n \in Nat, NEW a \in Chains(n), NEW b \in Chains(n), NEW h \in 0..n - 1, NEW d \in Nat,
         \A i \in 0..n - 1 : Len(b[i]) = IF i = h THEN Len(a[i]) + d ELSE Len(a[i])
  PROVE  Len(AllOf(b, n)) = Len(AllOf(a, n)) + d
<1>1. PICK f : FirstChains(f, a, n) /\ AllOf(a, n) = f[n]
  BY AllOfFacts
<1>2. PICK g : FirstChains(g, b, n) /\ AllOf(b, n) = g[n]
  BY AllOfFacts
<1>3. f \in [0..n -> Seq(Node)] /\ f[0] = <<>>
  BY <1>1 DEF FirstChains
<1>30. \A i \in 0..n - 1 : f[i + 1] = f[i] \o a[i]
  BY <1>1 DEF FirstChains
<1>4. g \in [0..n -> Seq(Node)] /\ g[0] = <<>>
  BY <1>2 DEF FirstChains
<1>40. \A i \in 0..n - 1 : g[i + 1] = g[i] \o b[i]
  BY <1>2 DEF FirstChains
<1> DEFINE S == {i \in 0..n : Len(g[i]) = IF i <= h THEN Len(f[i]) ELSE Len(f[i]) + d}
<1>5. 0 \in S
  BY <1>3, <1>4
<1>6. ASSUME NEW i \in 0..n - 1, i \in S PROVE i + 1 \in S
  <2>1. f[i] \in Seq(Node) /\ a[i] \in Seq(Node) /\ f[i + 1] = f[i] \o a[i]
    <3>1. a[i] \in Seq(Node)
      BY InChain
    <3>2. i \in 0..n
      OBVIOUS
    <3>3. f[i] \in Seq(Node)
      BY <1>3, <3>2
    <3>4. f[i + 1] = f[i] \o a[i]
      BY <1>30
    <3> QED
      BY <3>1, <3>3, <3>4
  <2>2. g[i] \in Seq(Node) /\ b[i] \in Seq(Node) /\ g[i + 1] = g[i] \o b[i]
    <3>1. b[i] \in Seq(Node)
      BY InChain
    <3>2. i \in 0..n
      OBVIOUS
    <3>3. g[i] \in Seq(Node)
      BY <1>4, <3>2
    <3>4. g[i + 1] = g[i] \o b[i]
      BY <1>40
    <3> QED
      BY <3>1, <3>3, <3>4
  <2>3. Len(f[i + 1]) = Len(f[i]) + Len(a[i]) /\ Len(f[i]) \in Nat /\ Len(a[i]) \in Nat
    BY <2>1, ConcatFacts
  <2>4. Len(g[i + 1]) = Len(g[i]) + Len(b[i]) /\ Len(g[i]) \in Nat /\ Len(b[i]) \in Nat
    BY <2>2, ConcatFacts
  <2>5. Len(g[i]) = IF i <= h THEN Len(f[i]) ELSE Len(f[i]) + d
    BY <1>6
  <2>6. Len(b[i]) = IF i = h THEN Len(a[i]) + d ELSE Len(a[i])
    OBVIOUS
  <2>7. Len(g[i + 1]) = IF i + 1 <= h THEN Len(f[i + 1]) ELSE Len(f[i + 1]) + d
    <3>1. Len(g[i]) + Len(b[i]) = IF i + 1 <= h THEN Len(f[i]) + Len(a[i])
                                  ELSE (Len(f[i]) + Len(a[i])) + d
      <4> DEFINE lf == Len(f[i])
                 la == Len(a[i])
      <4>1. /\ lf \in Nat /\ la \in Nat /\ Len(g[i]) = IF i <= h THEN lf ELSE lf + d
            /\ Len(b[i]) = IF i = h THEN la + d ELSE la
        BY <2>3, <2>5, <2>6
      <4> HIDE DEF lf, la
      <4>2. Len(g[i]) + Len(b[i]) = IF i + 1 <= h THEN lf + la ELSE (lf + la) + d
        BY <4>1, LengthStep
      <4> QED
        BY <4>2 DEF lf, la
    <3> QED
      BY <2>3, <2>4, <3>1
  <2> QED
    BY <2>7
<1>7. 0..n \subseteq S
  <2> HIDE DEF S
  <2> QED
    BY <1>5, <1>6, UpTo
<1>8. n \in S /\ ~(n <= h)
  BY <1>7
<1> QED
  BY <1>1, <1>2, <1>8


-----------------------------------------------------------------------------
(* Moving nodes to new chains.                                             *)

LEMMA EmptyChains ==
  ASSUME NEW n \in Nat
  PROVE  LET a == Table(n).arr
         IN  /\ a \in Chains(n) /\ Placed(a, n, Key) /\ Alone(a, n)
             /\ \A x : ~Within(a, n, x)
             /\ Len(AllOf(a, n)) = 0
<1> DEFINE a == Table(n).arr
<1>1. a = [i \in 0..n - 1 |-> <<>>]
  BY DEF Table
<1> HIDE DEF a
<1>2. a \in Chains(n)
  BY <1>1 DEF Chains
<1>3. \A i \in 0..n - 1 : a[i] = <<>>
  BY <1>1
<1>4. \A i \in 0..n - 1 : \A j \in 1..Len(a[i]) : FALSE
  BY <1>3
<1>5. \A x : ~Within(a, n, x)
  BY <1>4 DEF Within
<1>6. Placed(a, n, Key) /\ Alone(a, n)
  BY <1>4 DEF Placed, Alone
<1>7. Len(AllOf(a, n)) = 0
  <2> DEFINE s == AllOf(a, n)
  <2>1. s \in Seq(Node) /\ \A x : ~Among(s, x)
    BY <1>2, <1>5, AllOfWithin
  <2> HIDE DEF s
  <2>2. Len(s) \in Nat
    BY <2>1, LenProperties
  <2>3. 1 \notin 1..Len(s)
    BY <2>1 DEF Among
  <2>4. Len(s) = 0
    BY <2>2, <2>3
  <2> QED
    BY <2>4 DEF s
<1> QED
  BY <1>2, <1>5, <1>6, <1>7 DEF a

\* The first k of the nodes are in the chains, each where its hash says.
Moves(a, n, nodes, k) ==
  /\ a \in Chains(n) /\ Placed(a, n, Key)
  /\ \A x : Within(a, n, x) <=> \E p \in 1..k : nodes[p] = x
  /\ Len(AllOf(a, n)) = k
  /\ Distinct(nodes) => Alone(a, n)

LEMMA MoveStep ==
  ASSUME Contents, NEW n \in Nat \ {0}, NEW nodes \in Seq(Node),
         NEW k \in 0..Len(nodes) - 1, NEW a, Moves(a, n, nodes, k)
  PROVE  Moves(Push(a, n, nodes[k + 1]), n, nodes, k + 1)
<1> DEFINE e == nodes[k + 1]
           b == Push(a, n, e)
           h == Hash(e.key) % n
<1>0. Len(nodes) \in Nat
  BY LenProperties
<1>1. k + 1 \in 1..Len(nodes) /\ k \in Nat
  BY <1>0
<1>2. e \in Node
  BY <1>1, ElementOfSeq
<1>3. /\ a \in Chains(n) /\ Placed(a, n, Key)
      /\ \A x : Within(a, n, x) <=> \E p \in 1..k : nodes[p] = x
      /\ Len(AllOf(a, n)) = k
      /\ Distinct(nodes) => Alone(a, n)
  BY DEF Moves
<1> HIDE DEF e
<1>4. Headed(a, b, n, h, e)
  BY <1>2, <1>3, PushStep
<1>5. Placed(b, n, Key)
  BY <1>2, <1>3, PushPlaced
<1>6. ASSUME NEW x PROVE Within(b, n, x) <=> \E p \in 1..k + 1 : nodes[p] = x
  <2>1. Within(b, n, x) <=> Within(a, n, x) \/ x = e
    BY <1>2, <1>3, PushWithin
  <2>2. \A p : p \in 1..k + 1 <=> p \in 1..k \/ p = k + 1
    BY <1>1
  <2> HIDE DEF b
  <2> QED
    BY <1>3, <2>1, <2>2 DEF e
<1>7. ASSUME Distinct(nodes) PROVE Alone(b, n)
  <2>1. Fresh(a, n, e.key)
    <3>1. ASSUME NEW j \in 1..Len(a[h]), Same(a[h][j].key, e.key) PROVE FALSE
      <4>1. h \in 0..n - 1
        BY <1>4 DEF Headed
      <4>2. Within(a, n, a[h][j])
        BY <4>1 DEF Within
      <4>3. PICK p \in 1..k : nodes[p] = a[h][j]
        BY <1>3, <4>2
      <4>4. p \in 1..Len(nodes) /\ p # k + 1
        BY <1>0, <1>1
      <4>5. Same(nodes[p].key, nodes[k + 1].key)
        BY <3>1, <4>3 DEF e
      <4> QED
        BY <1>1, <1>7, <4>4, <4>5 DEF Distinct
    <3> QED
      BY <3>1 DEF Fresh
  <2> QED
    BY <1>2, <1>3, <1>7, <2>1, PushAlone
<1>8. b \in Chains(n) /\ Len(AllOf(b, n)) = k + 1
  <2>1. /\ h \in 0..n - 1 /\ b \in Chains(n)
        /\ \A i \in 0..n - 1 : i # h => b[i] = a[i]
        /\ Len(b[h]) = Len(a[h]) + 1
    BY <1>4 DEF Headed
  <2> HIDE DEF b, h
  <2>2. \A i \in 0..n - 1 : Len(b[i]) = IF i = h THEN Len(a[i]) + 1 ELSE Len(a[i])
    BY <2>1
  <2>3. Len(AllOf(b, n)) = Len(AllOf(a, n)) + 1
    <3>1. n \in Nat /\ 1 \in Nat /\ a \in Chains(n) /\ b \in Chains(n) /\ h \in 0..n - 1
      BY <1>3, <2>1
    <3> QED
      BY <2>2, <3>1, AllOfLength
  <2> QED
    BY <1>3, <2>1, <2>3
<1> HIDE DEF b
<1>9. Moves(b, n, nodes, k + 1)
  BY <1>5, <1>6, <1>7, <1>8 DEF Moves
<1> QED
  BY <1>9 DEF b, e

LEMMA MovedFacts ==
  ASSUME Contents, NEW n \in Nat \ {0}, NEW nodes \in Seq(Node)
  PROVE  Moves(Moved(nodes, n), n, nodes, Len(nodes))
<1> DEFINE N == Len(nodes)
           base == Table(n).arr
           F == [p \in (1..N) \X Chains(n) |-> Push(p[2], n, nodes[p[1]])]
           runs(f) == f = [k \in 0..N |-> IF k = 0 THEN base ELSE Push(f[k - 1], n, nodes[k])]
           f == CHOOSE x : runs(x)
<1>0. N \in Nat
  BY LenProperties
<1>1. base \in Chains(n)
  BY EmptyChains
<1>2. F \in [(1..N) \X Chains(n) -> Chains(n)]
  <2>1. ASSUME NEW p \in (1..N) \X Chains(n) PROVE Push(p[2], n, nodes[p[1]]) \in Chains(n)
    <3>1. p[2] \in Chains(n) /\ nodes[p[1]] \in Node
      BY ElementOfSeq
    <3>2. Headed(p[2], Push(p[2], n, nodes[p[1]]), n, Hash(nodes[p[1]].key) % n, nodes[p[1]])
      BY <3>1, PushStep
    <3> QED
      BY <3>2 DEF Headed
  <2> QED
    BY <2>1, SMTT(30)
<1>3. \A k \in 1..N : \A x \in Chains(n) : F[<<k, x>>] = Push(x, n, nodes[k])
  OBVIOUS
<1> HIDE DEF F, base, N
<1>4. PICK g \in [0..N -> Chains(n)] : Follows(g, N, base, F)
  BY <1>0, <1>1, <1>2, Recur
<1>5. runs(g)
  <2>1. ASSUME NEW k \in 0..N
        PROVE  g[k] = IF k = 0 THEN base ELSE Push(g[k - 1], n, nodes[k])
    <3>1. CASE k = 0
      BY <1>4, <3>1 DEF Follows
    <3>2. CASE k # 0
      <4>1. k \in 1..N /\ k - 1 \in 0..N
        BY <1>0, <3>2
      <4>2. g[k] = F[<<k, g[k - 1]>>] /\ g[k - 1] \in Chains(n)
        BY <1>4, <4>1 DEF Follows
      <4> QED
        BY <1>3, <3>2, <4>1, <4>2
    <3> QED
      BY <3>1, <3>2
  <2>2. g = [k \in 0..N |-> g[k]]
    OBVIOUS
  <2> QED
    BY <2>1, <2>2
<1>6. runs(f)
  <2> HIDE DEF runs
  <2> QED
    BY <1>5
<1>7. Moved(nodes, n) = f[N]
  BY DEF Moved, N, base
<1> HIDE DEF f
<1>8. f[0] = base /\ \A k \in 1..N : f[k] = Push(f[k - 1], n, nodes[k])
  <2>1. \A k \in 0..N : f[k] = IF k = 0 THEN base ELSE Push(f[k - 1], n, nodes[k])
    BY <1>6
  <2>2. 0 \in 0..N /\ \A k \in 1..N : k \in 0..N /\ k # 0
    BY <1>0
  <2> HIDE DEF runs
  <2> QED
    BY <2>1, <2>2
<1> HIDE DEF runs
<1> DEFINE S == {k \in 0..N : Moves(f[k], n, nodes, k)}
<1>9. 0 \in S
  <2>1. Moves(base, n, nodes, 0)
    <3>1. /\ base \in Chains(n) /\ Placed(base, n, Key) /\ Alone(base, n)
          /\ \A x : ~Within(base, n, x)
          /\ Len(AllOf(base, n)) = 0
      BY EmptyChains DEF base
    <3> QED
      BY <3>1 DEF Moves
  <2> QED
    BY <1>0, <1>8, <2>1
<1>10. ASSUME NEW k \in 0..N - 1, k \in S PROVE k + 1 \in S
  <2>1. k + 1 \in 1..N /\ (k + 1) - 1 = k /\ k + 1 \in 0..N
    BY <1>0
  <2>2. f[k + 1] = Push(f[k], n, nodes[k + 1])
    BY <1>8, <2>1
  <2>3. Moves(Push(f[k], n, nodes[k + 1]), n, nodes, k + 1)
    BY <1>10, MoveStep DEF N
  <2> QED
    BY <2>1, <2>2, <2>3
<1>11. 0..N \subseteq S
  <2> HIDE DEF S
  <2> QED
    BY <1>0, <1>9, <1>10, UpTo
<1>12. N \in S
  BY <1>0, <1>11
<1> QED
  BY <1>7, <1>12 DEF N


-----------------------------------------------------------------------------
(* Tables.                                                                 *)

IsTable(t) ==
  /\ t.capacity \in Nat /\ t.arr \in Chains(t.capacity) /\ t.count \in Nat
  /\ t = [capacity |-> t.capacity, arr |-> t.arr, count |-> t.count]

\* The count is right and the chains are two long on average at most.
Sized(t) == IsTable(t) /\ t.count = Len(Nodes(t)) /\ t.count <= 2 * t.capacity

Holds(t, x)  == Within(t.arr, t.capacity, x)
InPlace(t, K) == Placed(t.arr, t.capacity, K)
Single(t) == Alone(t.arr, t.capacity)

\* Table u has the nodes of table t, in places as good as theirs.
Carries(t, u) ==
  /\ \A x : Holds(u, x) <=> Holds(t, x)
  /\ \A K : InPlace(t, K) => InPlace(u, K)
  /\ Zeros = {} /\ InPlace(t, Key) /\ Single(t) => Single(u)

LEMMA NodesOfTable == \A t : Nodes(t) = AllOf(t.arr, t.capacity)
BY DEF Nodes, AllOf

LEMMA TableMade ==
  ASSUME NEW n \in Nat, NEW a \in Chains(n), NEW c \in Nat
  PROVE  LET t == [capacity |-> n, arr |-> a, count |-> c]
         IN  IsTable(t) /\ t.capacity = n /\ t.arr = a /\ t.count = c
BY DEF IsTable

LEMMA PlacedAll ==
  ASSUME NEW n \in Nat, NEW a \in Chains(n), Placed(a, n, Key), NEW K
  PROVE  Placed(a, n, K)
<1>1. ASSUME NEW i \in 0..n - 1, NEW j \in 1..Len(a[i])
      PROVE  a[i][j].key \in Key
  <2>1. a[i][j] \in Node
    BY InChain
  <2> QED
    BY <2>1 DEF Node
<1> QED
  BY <1>1 DEF Placed

(* A new table, and what ValDict_add starts with. *)
LEMMA NewTable ==
  ASSUME NEW n \in Nat
  PROVE  LET t == Table(n)
         IN  /\ IsTable(t) /\ t.capacity = n /\ t.count = 0 /\ Sized(t) /\ InPlace(t, Key) /\ Single(t)
             /\ \A x : ~Holds(t, x)
<1> DEFINE a == Table(n).arr
           t == Table(n)
<1>1. /\ a \in Chains(n) /\ Placed(a, n, Key) /\ Alone(a, n)
      /\ \A x : ~Within(a, n, x)
      /\ Len(AllOf(a, n)) = 0
  BY EmptyChains
<1>2. t = [capacity |-> n, arr |-> a, count |-> 0]
  BY DEF Table
<1> HIDE DEF a, t
<1>3. IsTable(t) /\ t.capacity = n /\ t.arr = a /\ t.count = 0
  BY <1>1, <1>2, TableMade
<1>4. Sized(t)
  BY <1>1, <1>3, NodesOfTable DEF Sized
<1> QED
  BY <1>1, <1>3, <1>4 DEF Holds, InPlace, Single, t

Start(t) == IF t.capacity = 0 THEN Table(CP_HT_INIT_CAP) ELSE t

LEMMA StartFacts ==
  ASSUME NEW t, Sized(t)
  PROVE  /\ Sized(Start(t)) /\ Start(t).capacity \in Nat \ {0}
         /\ Carries(t, Start(t))
<1>1. CASE t.capacity = 0
  <2> DEFINE u == Table(CP_HT_INIT_CAP)
  <2>0. CP_HT_INIT_CAP \in Nat \ {0}
    BY DictAssumption
  <2>1. /\ IsTable(u) /\ u.capacity = CP_HT_INIT_CAP /\ Sized(u) /\ InPlace(u, Key) /\ Single(u)
        /\ \A x : ~Holds(u, x)
    BY <2>0, NewTable
  <2> HIDE DEF u
  <2>2. \A K : InPlace(u, K)
    BY <2>0, <2>1, PlacedAll DEF InPlace, IsTable
  <2>3. \A x : ~Holds(t, x)
    BY <1>1 DEF Holds, Within
  <2>4. Start(t) = u
    BY <1>1 DEF Start, u
  <2> QED
    BY <2>0, <2>1, <2>2, <2>3, <2>4 DEF Carries
<1>2. CASE t.capacity # 0
  BY <1>2 DEF Start, Carries, Sized, IsTable
<1> QED
  BY <1>1, <1>2

(* The table after it has grown, when it had to. *)
LEMMA RehashFacts ==
  ASSUME Contents, NEW t, IsTable(t), t.capacity # 0, t.count = Len(Nodes(t)),
         t.count <= 2 * t.capacity + 1
  PROVE  /\ Sized(Rehash(t)) /\ Rehash(t).capacity # 0
         /\ Carries(t, Rehash(t))
<1>1. t.capacity \in Nat \ {0} /\ t.arr \in Chains(t.capacity) /\ t.count \in Nat
  BY DEF IsTable
<1>2. CASE ~(t.count > t.capacity * 2)
  <2>1. Rehash(t) = t
    BY <1>2 DEF Rehash
  <2>2. t.count <= 2 * t.capacity
    BY <1>1, <1>2
  <2> QED
    BY <2>1, <2>2 DEF Carries, Sized
<1>3. CASE t.count > t.capacity * 2
  <2> DEFINE n == t.capacity * 3
             nodes == AllOf(t.arr, t.capacity)
             a == Moved(nodes, n)
             r == Rehash(t)
  <2>1. n \in Nat \ {0} /\ t.count <= 2 * n
    BY <1>1
  <2>2. nodes = Nodes(t) /\ t.count = Len(nodes)
    BY NodesOfTable
  <2>3. nodes \in Seq(Node) /\ \A x : Among(nodes, x) <=> Holds(t, x)
    BY <1>1, AllOfWithin DEF Holds
  <2>4. r = [capacity |-> n, arr |-> a, count |-> t.count]
    BY <1>3, <2>2 DEF Rehash, Grown
  <2>5. Zeros = {} /\ InPlace(t, Key) /\ Single(t) => Distinct(nodes)
    BY <1>1, AllOfDistinct DEF InPlace, Single
  <2> HIDE DEF n, nodes
  <2>6. Moves(a, n, nodes, Len(nodes))
    BY <2>1, <2>3, MovedFacts
  <2> HIDE DEF a, r
  <2>7. /\ a \in Chains(n) /\ Placed(a, n, Key)
        /\ \A x : Within(a, n, x) <=> \E p \in 1..Len(nodes) : nodes[p] = x
        /\ Len(AllOf(a, n)) = Len(nodes)
        /\ Distinct(nodes) => Alone(a, n)
    BY <2>6 DEF Moves
  <2>8. IsTable(r) /\ r.capacity = n /\ r.arr = a /\ r.count = t.count
    BY <1>1, <2>1, <2>4, <2>7, TableMade
  <2>9. Sized(r)
    BY <2>1, <2>2, <2>7, <2>8, NodesOfTable DEF Sized
  <2>10. \A x : Holds(r, x) <=> Holds(t, x)
    BY <2>3, <2>7, <2>8 DEF Holds, Among
  <2>11. \A K : InPlace(r, K)
    BY <2>1, <2>7, <2>8, PlacedAll DEF InPlace
  <2>12. Distinct(nodes) => Single(r)
    BY <2>7, <2>8 DEF Single
  <2>13. Carries(t, r)
    BY <2>5, <2>10, <2>11, <2>12 DEF Carries
  <2> QED
    BY <2>1, <2>8, <2>9, <2>13 DEF r
<1> QED
  BY <1>2, <1>3


-----------------------------------------------------------------------------
(* ValDict_add.                                                            *)

\* From t to r: node m of chain i gets the value v.
Overwritten(t, r, i, m, v) ==
  /\ IsTable(r) /\ r.capacity = t.capacity /\ r.count = t.count
  /\ i \in 0..t.capacity - 1 /\ m \in 1..Len(t.arr[i])
  /\ \A l \in 0..t.capacity - 1 :
       /\ Len(r.arr[l]) = Len(t.arr[l])
       /\ \A j \in 1..Len(t.arr[l]) :
            r.arr[l][j] = IF l = i /\ j = m THEN [key |-> t.arr[i][m].key, val |-> v]
                          ELSE t.arr[l][j]

LEMMA OverwriteStep ==
  ASSUME NEW t, IsTable(t), NEW i \in 0..t.capacity - 1, NEW m \in 1..Len(t.arr[i]),
         NEW v \in Value
  PROVE  Overwritten(t, [t EXCEPT !.arr[i][m].val = v], i, m, v)
<1> DEFINE c == t.arr[i]
           x == c[m]
           y == [key |-> x.key, val |-> v]
           d == [c EXCEPT ![m] = y]
           b == [t.arr EXCEPT ![i] = d]
           r == [t EXCEPT !.arr[i][m].val = v]
<1>1. /\ t.capacity \in Nat /\ t.arr \in Chains(t.capacity) /\ t.count \in Nat
      /\ t = [capacity |-> t.capacity, arr |-> t.arr, count |-> t.count]
  BY DEF IsTable
<1>2. c \in Seq(Node) /\ x \in Node
  BY <1>1, InChain
<1>3. y \in Node /\ [x EXCEPT !.val = v] = y
  BY <1>2 DEF Node
<1> HIDE DEF x, y
<1>4. /\ d \in Seq(Node) /\ Len(d) = Len(c)
      /\ \A j \in 1..Len(c) : d[j] = IF j = m THEN y ELSE c[j]
  BY <1>2, <1>3, ExceptSeq
<1>5. [t.arr EXCEPT ![i][m].val = v] = b
  BY <1>3 DEF x
<1> HIDE DEF d
<1>6. b \in Chains(t.capacity) /\ \A l \in 0..t.capacity - 1 : b[l] = IF l = i THEN d ELSE t.arr[l]
  BY <1>1, <1>4 DEF Chains
<1>7. r = [t EXCEPT !.arr = b]
  BY <1>5
<1> HIDE DEF b, r
<1>8. r = [capacity |-> t.capacity, arr |-> b, count |-> t.count]
  BY <1>1, <1>7
<1>9. IsTable(r) /\ r.capacity = t.capacity /\ r.arr = b /\ r.count = t.count
  BY <1>1, <1>6, <1>8, TableMade
<1>10. ASSUME NEW l \in 0..t.capacity - 1
       PROVE  /\ Len(b[l]) = Len(t.arr[l])
              /\ \A j \in 1..Len(t.arr[l]) : b[l][j] = IF l = i /\ j = m THEN y ELSE t.arr[l][j]
  <2>1. CASE l = i
    BY <1>4, <1>6, <2>1
  <2>2. CASE l # i
    BY <1>6, <2>2
  <2> QED
    BY <2>1, <2>2
<1>11. Overwritten(t, r, i, m, v)
  BY <1>9, <1>10 DEF Overwritten, y, x
<1> QED
  BY <1>11 DEF r

\* A node of the table has a key of class c.
HasClass(t, c) == \E x : Holds(t, x) /\ Class(x.key) = c

LEMMA OverwriteKeeps ==
  ASSUME NEW t, Sized(t), NEW r, NEW i, NEW m, NEW v, Overwritten(t, r, i, m, v)
  PROVE  /\ Sized(r)
         /\ \A K : InPlace(t, K) => InPlace(r, K)
         /\ Single(t) => Single(r)
         /\ \A c : HasClass(r, c) <=> HasClass(t, c)
<1>1. /\ IsTable(r) /\ r.capacity = t.capacity /\ r.count = t.count
      /\ i \in 0..t.capacity - 1 /\ m \in 1..Len(t.arr[i])
      /\ \A l \in 0..t.capacity - 1 : Len(r.arr[l]) = Len(t.arr[l])
  BY DEF Overwritten
<1>2. \A l \in 0..t.capacity - 1 : \A j \in 1..Len(t.arr[l]) : r.arr[l][j].key = t.arr[l][j].key
  BY DEF Overwritten
<1>3. IsTable(t) /\ t.count = Len(Nodes(t)) /\ t.count <= 2 * t.capacity
  BY DEF Sized
<1>4. t.capacity \in Nat /\ t.arr \in Chains(t.capacity) /\ r.arr \in Chains(t.capacity)
  BY <1>1, <1>3 DEF IsTable
<1>5. Sized(r)
  <2>1. \A l \in 0..t.capacity - 1 : Len(r.arr[l]) = IF l = i THEN Len(t.arr[l]) + 0 ELSE Len(t.arr[l])
    BY <1>1, <1>4, InChain
  <2>2. Len(AllOf(r.arr, t.capacity)) = Len(AllOf(t.arr, t.capacity)) + 0
    BY <1>1, <1>4, <2>1, AllOfLength
  <2>3. Len(AllOf(t.arr, t.capacity)) \in Nat
    BY <1>4, AllOfWithin, LenProperties
  <2> QED
    BY <1>1, <1>3, <2>2, <2>3, NodesOfTable DEF Sized
<1>6. ASSUME NEW K, InPlace(t, K) PROVE InPlace(r, K)
  <2>1. ASSUME NEW l \in 0..t.capacity - 1, NEW j \in 1..Len(t.arr[l]), r.arr[l][j].key \in K
        PROVE  Hash(r.arr[l][j].key) % t.capacity = l
    <3>1. r.arr[l][j].key = t.arr[l][j].key
      BY <1>2
    <3>2. t.arr[l][j].key \in K
      BY <2>1, <3>1
    <3>3. Hash(t.arr[l][j].key) % t.capacity = l
      BY <1>6, <3>2 DEF InPlace, Placed
    <3> QED
      BY <3>1, <3>3
  <2> QED
    BY <1>1, <2>1 DEF InPlace, Placed
<1>7. ASSUME Single(t) PROVE Single(r)
  BY <1>1, <1>2, <1>7 DEF Single, Alone
<1>8. ASSUME NEW c PROVE HasClass(r, c) <=> HasClass(t, c)
  <2>1. HasClass(t, c) <=> \E l \in 0..t.capacity - 1 : \E j \in 1..Len(t.arr[l]) : Class(t.arr[l][j].key) = c
    BY DEF HasClass, Holds, Within
  <2>2. HasClass(r, c) <=> \E l \in 0..t.capacity - 1 : \E j \in 1..Len(t.arr[l]) : Class(r.arr[l][j].key) = c
    <3>1. HasClass(r, c) <=> \E l \in 0..t.capacity - 1 : \E j \in 1..Len(r.arr[l]) : Class(r.arr[l][j].key) = c
      BY <1>1 DEF HasClass, Holds, Within
    <3> QED
      BY <1>1, <3>1
  <2>3. \A l \in 0..t.capacity - 1 : \A j \in 1..Len(t.arr[l]) :
          Class(r.arr[l][j].key) = Class(t.arr[l][j].key)
    BY <1>2
  <2> QED
    BY <2>1, <2>2, <2>3
<1> QED
  BY <1>5, <1>6, <1>7, <1>8

\* From t to r: node e has come to the head of its chain.
Inserted(t, e) == [t EXCEPT !.arr = Push(@, t.capacity, e), !.count = @ + 1]

LEMMA InsertFacts ==
  ASSUME Contents, NEW t, Sized(t), t.capacity # 0, NEW e \in Node
  PROVE  LET r == Inserted(t, e)
         IN  /\ IsTable(r) /\ r.capacity = t.capacity /\ r.count = Len(Nodes(r))
             /\ r.count <= 2 * r.capacity + 1
             /\ \A x : Holds(r, x) <=> Holds(t, x) \/ x = e
             /\ \A K : InPlace(t, K) => InPlace(r, K)
             /\ Single(t) /\ Fresh(t.arr, t.capacity, e.key) => Single(r)
<1> DEFINE n == t.capacity
           a == t.arr
           b == Push(a, n, e)
           r == Inserted(t, e)
           h == Hash(e.key) % n
<1>1. /\ n \in Nat \ {0} /\ a \in Chains(n) /\ t.count \in Nat
      /\ t = [capacity |-> n, arr |-> a, count |-> t.count]
      /\ t.count = Len(Nodes(t)) /\ t.count <= 2 * n
  BY DEF Sized, IsTable
<1>20. r = [t EXCEPT !.arr = b, !.count = t.count + 1]
  BY DEF Inserted
<1> HIDE DEF n, a
<1>2. r = [capacity |-> n, arr |-> b, count |-> t.count + 1]
  <2> DEFINE s == [t EXCEPT !.arr = b]
             c == t.count + 1
  <2>1. t = [capacity |-> n, arr |-> a, count |-> t.count]
    BY <1>1
  <2> HIDE DEF b
  <2>2. s = [capacity |-> n, arr |-> b, count |-> t.count]
    BY <2>1
  <2> HIDE DEF r, c
  <2>3. r = [s EXCEPT !.count = c]
    BY <1>20 DEF c
  <2> HIDE DEF s
  <2>4. r = [capacity |-> n, arr |-> b, count |-> c]
    BY <2>2, <2>3
  <2> QED
    BY <2>4 DEF c
<1>3. Headed(a, b, n, h, e)
  BY <1>1, PushStep
<1>4. \A K : Placed(a, n, K) => Placed(b, n, K)
  BY <1>1, PushPlaced
<1>5. \A x : Within(b, n, x) <=> Within(a, n, x) \/ x = e
  BY <1>1, PushWithin
<1>6. Alone(a, n) /\ Fresh(a, n, e.key) => Alone(b, n)
  BY <1>1, PushAlone
<1> HIDE DEF b, r
<1>7. b \in Chains(n)
  BY <1>3 DEF Headed
<1>8. IsTable(r) /\ r.capacity = n /\ r.arr = b /\ r.count = t.count + 1
  <2>1. t.count + 1 \in Nat /\ n \in Nat
    BY <1>1
  <2> QED
    BY <1>2, <1>7, <2>1, TableMade
<1>9. Len(AllOf(b, n)) = Len(AllOf(a, n)) + 1
  <2>1. /\ h \in 0..n - 1 /\ b \in Chains(n)
        /\ \A i \in 0..n - 1 : i # h => b[i] = a[i]
        /\ Len(b[h]) = Len(a[h]) + 1
    BY <1>3 DEF Headed
  <2> HIDE DEF h
  <2>2. \A i \in 0..n - 1 : Len(b[i]) = IF i = h THEN Len(a[i]) + 1 ELSE Len(a[i])
    BY <2>1
  <2>3. n \in Nat /\ 1 \in Nat /\ a \in Chains(n) /\ b \in Chains(n) /\ h \in 0..n - 1
    BY <1>1, <2>1
  <2> QED
    BY <2>2, <2>3, AllOfLength
<1>10. Nodes(t) = AllOf(a, n) /\ Nodes(r) = AllOf(b, n)
  BY <1>8, NodesOfTable DEF a, n
<1>11. r.count = Len(Nodes(r)) /\ r.count <= 2 * r.capacity + 1
  BY <1>1, <1>8, <1>9, <1>10
<1>12. /\ \A x : Holds(r, x) <=> Holds(t, x) \/ x = e
       /\ \A K : InPlace(t, K) => InPlace(r, K)
       /\ Single(t) /\ Fresh(t.arr, t.capacity, e.key) => Single(r)
  BY <1>4, <1>5, <1>6, <1>8 DEF Holds, InPlace, Single, a, n
<1> QED
  BY <1>8, <1>11, <1>12 DEF r, n


\* ValDict_add gives the value to node m of the chain, or puts a new node in it.
AddsTo(t, r, k, v) ==
  \E m : /\ Overwritten(t, r, Hash(k) % t.capacity, m, v)
         /\ Same(t.arr[Hash(k) % t.capacity][m].key, k)
AddsNew(t, r, k, v) ==
  /\ Fresh(t.arr, t.capacity, k)
  /\ r = Rehash(Inserted(t, [key |-> k, val |-> v]))

LEMMA AddCases ==
  ASSUME Contents, NEW t, Sized(t), NEW k \in Key, NEW v \in Value
  PROVE  AddsTo(Start(t), Add(t, k, v), k, v) \/ AddsNew(Start(t), Add(t, k, v), k, v)
<1> DEFINE u == Start(t)
           i == Hash(k) % u.capacity
           M == Matches(u, k)
           r == Add(t, k, v)
<1>1. IsTable(u) /\ u.capacity \in Nat \ {0} /\ u.arr \in Chains(u.capacity)
  BY StartFacts DEF Sized, IsTable
<1>2. i \in 0..u.capacity - 1
  BY <1>1, HashFacts
<1>3. M = {j \in 1..Len(u.arr[i]) : Same(u.arr[i][j].key, k)}
  BY <1>1 DEF Matches, Bucket
<1>4. r = IF M # {} THEN [u EXCEPT !.arr[i][Min(M)].val = v]
          ELSE Rehash(Inserted(u, [key |-> k, val |-> v]))
  BY DEF Add, Start, Inserted
<1> HIDE DEF u, M, r
<1>5. CASE M # {}
  <2>1. M \subseteq Nat
    BY <1>3
  <2>2. Min(M) \in M
    BY <1>5, <2>1, MinFacts
  <2>3. Min(M) \in 1..Len(u.arr[i]) /\ Same(u.arr[i][Min(M)].key, k)
    BY <1>3, <2>2
  <2> DEFINE m == Min(M)
  <2> HIDE DEF m, i
  <2>4. m \in 1..Len(u.arr[i]) /\ r = [u EXCEPT !.arr[i][m].val = v]
    BY <1>4, <1>5, <2>3 DEF m
  <2>5. Overwritten(u, r, i, m, v)
    BY <1>1, <1>2, <2>4, OverwriteStep
  <2>6. AddsTo(u, r, k, v)
    BY <2>3, <2>5 DEF AddsTo, m, i
  <2> QED
    BY <2>6 DEF u, r
<1>6. CASE M = {}
  <2>1. Fresh(u.arr, u.capacity, k)
    BY <1>3, <1>6 DEF Fresh
  <2>2. AddsNew(u, r, k, v)
    BY <1>4, <1>6, <2>1 DEF AddsNew
  <2> QED
    BY <2>2 DEF u, r
<1> QED
  BY <1>5, <1>6

LEMMA CarriesClass ==
  ASSUME NEW t, NEW u, Carries(t, u), NEW c
  PROVE  HasClass(u, c) <=> HasClass(t, c)
BY DEF Carries, HasClass

\* What holds of a table and stays so when something is added.
Proper(t) == InPlace(t, Key) /\ Single(t)

LEMMA AddKeeps ==
  ASSUME Contents, NEW t, Sized(t), NEW k \in Key, NEW v \in Value
  PROVE  /\ Sized(Add(t, k, v)) /\ Add(t, k, v).capacity # 0
         /\ \A K : InPlace(t, K) => InPlace(Add(t, k, v), K)
         /\ Zeros = {} /\ Proper(t) => Proper(Add(t, k, v))
         /\ \A c : HasClass(Add(t, k, v), c) <=> HasClass(t, c) \/ c = Class(k)
<1> DEFINE u == Start(t)
           r == Add(t, k, v)
           e == [key |-> k, val |-> v]
<1>1. Sized(u) /\ u.capacity \in Nat \ {0} /\ Carries(t, u)
  BY StartFacts
<1>2. AddsTo(u, r, k, v) \/ AddsNew(u, r, k, v)
  BY AddCases
<1>3. /\ \A K : InPlace(t, K) => InPlace(u, K)
      /\ Zeros = {} /\ Proper(t) => Proper(u)
      /\ \A c : HasClass(u, c) <=> HasClass(t, c)
  BY <1>1, CarriesClass DEF Carries, Proper
<1> HIDE DEF u, r
<1>4. CASE AddsTo(u, r, k, v)
  <2>1. PICK m : /\ Overwritten(u, r, Hash(k) % u.capacity, m, v)
                 /\ Same(u.arr[Hash(k) % u.capacity][m].key, k)
    BY <1>4 DEF AddsTo
  <2>2. /\ Sized(r)
        /\ \A K : InPlace(u, K) => InPlace(r, K)
        /\ Single(u) => Single(r)
        /\ \A c : HasClass(r, c) <=> HasClass(u, c)
    BY <1>1, <2>1, OverwriteKeeps
  <2>3. r.capacity # 0
    BY <1>1, <2>1 DEF Overwritten
  <2>4. HasClass(u, Class(k))
    BY <2>1 DEF HasClass, Holds, Within, Overwritten, Same
  <2> QED
    BY <1>3, <2>2, <2>3, <2>4 DEF Proper, r
<1>5. CASE AddsNew(u, r, k, v)
  <2> DEFINE q == Inserted(u, e)
  <2>1. e \in Node /\ e.key = k
    BY DEF Node
  <2>2. Fresh(u.arr, u.capacity, k) /\ r = Rehash(q)
    BY <1>5 DEF AddsNew
  <2> HIDE DEF e
  <2>3. /\ IsTable(q) /\ q.capacity = u.capacity /\ q.count = Len(Nodes(q))
        /\ q.count <= 2 * q.capacity + 1
        /\ \A x : Holds(q, x) <=> Holds(u, x) \/ x = e
        /\ \A K : InPlace(u, K) => InPlace(q, K)
        /\ Single(u) /\ Fresh(u.arr, u.capacity, e.key) => Single(q)
    BY <1>1, <2>1, InsertFacts
  <2> HIDE DEF q
  <2>4. Sized(r) /\ r.capacity # 0 /\ Carries(q, r)
    BY <1>1, <2>2, <2>3, RehashFacts
  <2>5. \A K : InPlace(u, K) => InPlace(r, K)
    BY <2>3, <2>4 DEF Carries
  <2>6. Zeros = {} /\ Proper(u) => Proper(r)
    BY <2>1, <2>2, <2>3, <2>4 DEF Carries, Proper
  <2>7. \A c : HasClass(r, c) <=> HasClass(q, c)
    BY <2>4, CarriesClass
  <2>8. \A c : HasClass(q, c) <=> HasClass(u, c) \/ c = Class(k)
    BY <2>1, <2>3 DEF HasClass
  <2> QED
    BY <1>3, <2>4, <2>5, <2>6, <2>7, <2>8 DEF r
<1> QED
  BY <1>2, <1>4, <1>5

\* The table has the value w for the keys of class c.
Entry(t, c, w) == \E x : Holds(t, x) /\ Class(x.key) = c /\ x.val = w

(* A node with a key equal to k is in the chain of k. *)
LEMMA InItsChain ==
  ASSUME NEW t, IsTable(t), Zeros = {}, InPlace(t, Key), NEW k \in Key,
         NEW i \in 0..t.capacity - 1, NEW j \in 1..Len(t.arr[i]), Same(t.arr[i][j].key, k)
  PROVE  Hash(k) % t.capacity = i
<1>1. t.arr[i][j] \in Node
  BY InChain DEF IsTable
<1>2. t.arr[i][j].key \in Key /\ k \in Key \ Zeros
  BY <1>1 DEF Node
<1>3. Hash(t.arr[i][j].key) % t.capacity = i
  BY <1>2 DEF InPlace, Placed
<1>4. Hash(t.arr[i][j].key) = Hash(k)
  BY <1>2, EqualKeys
<1> QED
  BY <1>3, <1>4

(* While keys do not change: the value added is that of its key, and the   *)
(* other keys keep theirs.                                                 *)
LEMMA AddEntry ==
  ASSUME Contents, NEW t, Sized(t), Zeros = {}, Proper(t), NEW k \in Key, NEW v \in Value,
         NEW c, NEW w
  PROVE  Entry(Add(t, k, v), c, w) <=> IF c = Class(k) THEN w = v ELSE Entry(t, c, w)
<1> DEFINE u == Start(t)
           r == Add(t, k, v)
           e == [key |-> k, val |-> v]
           i == Hash(k) % u.capacity
<1>1. Sized(u) /\ u.capacity \in Nat \ {0} /\ Carries(t, u)
  BY StartFacts
<1>2. AddsTo(u, r, k, v) \/ AddsNew(u, r, k, v)
  BY AddCases
<1>3. Proper(u) /\ (Entry(u, c, w) <=> Entry(t, c, w))
  BY <1>1 DEF Carries, Proper, Entry
<1> HIDE DEF u, r
<1>4. IsTable(u) /\ InPlace(u, Key) /\ Single(u)
  BY <1>1, <1>3 DEF Sized, Proper
<1>5. CASE AddsTo(u, r, k, v)
  <2>1. PICK m : Overwritten(u, r, i, m, v) /\ Same(u.arr[i][m].key, k)
    BY <1>5 DEF AddsTo
  <2>2. /\ r.capacity = u.capacity /\ i \in 0..u.capacity - 1 /\ m \in 1..Len(u.arr[i])
        /\ \A l \in 0..u.capacity - 1 :
             /\ Len(r.arr[l]) = Len(u.arr[l])
             /\ \A j \in 1..Len(u.arr[l]) :
                  r.arr[l][j] = IF l = i /\ j = m THEN [key |-> u.arr[i][m].key, val |-> v]
                                ELSE u.arr[l][j]
    BY <2>1 DEF Overwritten
  <2>3. \A l \in 0..u.capacity - 1 : \A j \in 1..Len(u.arr[l]) :
          Class(u.arr[l][j].key) = Class(k) <=> l = i /\ j = m
    <3>1. ASSUME NEW l \in 0..u.capacity - 1, NEW j \in 1..Len(u.arr[l]), Same(u.arr[l][j].key, k)
          PROVE  l = i /\ j = m
      <4>1. l = i
        BY <1>4, <3>1, InItsChain
      <4>2. Same(u.arr[i][j].key, u.arr[i][m].key)
        BY <2>1, <3>1, <4>1 DEF Same
      <4> QED
        BY <1>4, <2>2, <4>1, <4>2 DEF Single, Alone
    <3> QED
      BY <2>1, <3>1 DEF Same
  <2> HIDE DEF i
  <2>4. r.arr[i][m] = [key |-> u.arr[i][m].key, val |-> v] /\ Len(r.arr[i]) = Len(u.arr[i])
    BY <2>2
  <2>5. Class(u.arr[i][m].key) = Class(k)
    BY <2>1 DEF Same
  <2>6. CASE c = Class(k)
    <3>1. ASSUME Entry(r, c, w) PROVE w = v
      <4>1. PICK x : Holds(r, x) /\ Class(x.key) = c /\ x.val = w
        BY <3>1 DEF Entry
      <4>2. PICK l \in 0..u.capacity - 1 : \E j \in 1..Len(u.arr[l]) : r.arr[l][j] = x
        BY <2>2, <4>1 DEF Holds, Within
      <4>3. PICK j \in 1..Len(u.arr[l]) : r.arr[l][j] = x
        BY <4>2
      <4>4. CASE l = i /\ j = m
        BY <2>4, <4>1, <4>3, <4>4
      <4>5. CASE ~(l = i /\ j = m)
        <5>1. x = u.arr[l][j]
          BY <2>2, <4>3, <4>5
        <5> QED
          BY <2>3, <2>6, <4>1, <4>5, <5>1
      <4> QED
        BY <4>4, <4>5
    <3>2. Entry(r, c, v)
      <4> DEFINE x == r.arr[i][m]
      <4>1. Holds(r, x)
        BY <2>2, <2>4 DEF Holds, Within
      <4>2. Class(x.key) = c /\ x.val = v
        BY <2>4, <2>5, <2>6
      <4> HIDE DEF x
      <4> QED
        BY <4>1, <4>2 DEF Entry
    <3> QED
      BY <2>6, <3>1, <3>2 DEF r
  <2>7. CASE c # Class(k)
    <3>1. ASSUME NEW l \in 0..u.capacity - 1, NEW j \in 1..Len(u.arr[l])
          PROVE  Class(r.arr[l][j].key) = c /\ r.arr[l][j].val = w
                   <=> Class(u.arr[l][j].key) = c /\ u.arr[l][j].val = w
      <4>1. CASE l = i /\ j = m
        <5>1. Class(r.arr[l][j].key) = Class(k) /\ Class(u.arr[l][j].key) = Class(k)
          BY <2>4, <2>5, <4>1
        <5> QED
          BY <2>7, <5>1
      <4>2. CASE ~(l = i /\ j = m)
        BY <2>2, <4>2
      <4> QED
        BY <4>1, <4>2
    <3>2. Entry(u, c, w) <=> \E l \in 0..u.capacity - 1 : \E j \in 1..Len(u.arr[l]) :
                               Class(u.arr[l][j].key) = c /\ u.arr[l][j].val = w
      BY DEF Entry, Holds, Within
    <3>3. Entry(r, c, w) <=> \E l \in 0..u.capacity - 1 : \E j \in 1..Len(u.arr[l]) :
                               Class(r.arr[l][j].key) = c /\ r.arr[l][j].val = w
      <4>1. Entry(r, c, w) <=> \E l \in 0..r.capacity - 1 : \E j \in 1..Len(r.arr[l]) :
                                 Class(r.arr[l][j].key) = c /\ r.arr[l][j].val = w
        BY DEF Entry, Holds, Within
      <4>2. r.capacity = u.capacity /\ \A l \in 0..u.capacity - 1 : Len(r.arr[l]) = Len(u.arr[l])
        BY <2>2
      <4> QED
        BY <4>1, <4>2
    <3>4. Entry(r, c, w) <=> Entry(u, c, w)
      BY <3>1, <3>2, <3>3
    <3> QED
      BY <1>3, <2>7, <3>4 DEF r
  <2> QED
    BY <2>6, <2>7
<1>6. CASE AddsNew(u, r, k, v)
  <2> DEFINE q == Inserted(u, e)
  <2>1. e \in Node /\ e.key = k /\ e.val = v
    BY DEF Node
  <2>2. Fresh(u.arr, u.capacity, k) /\ r = Rehash(q)
    BY <1>6 DEF AddsNew
  <2> HIDE DEF e
  <2>3. /\ IsTable(q) /\ q.capacity = u.capacity /\ q.count = Len(Nodes(q))
        /\ q.count <= 2 * q.capacity + 1
        /\ \A x : Holds(q, x) <=> Holds(u, x) \/ x = e
    BY <1>1, <2>1, InsertFacts
  <2> HIDE DEF q
  <2>4. Carries(q, r)
    BY <1>1, <2>2, <2>3, RehashFacts
  <2>5. \A x : Holds(r, x) <=> Holds(u, x) \/ x = e
    BY <2>3, <2>4 DEF Carries
  <2>6. ASSUME NEW x, Holds(u, x), Class(x.key) = Class(k) PROVE FALSE
    <3>1. PICK l \in 0..u.capacity - 1 : \E j \in 1..Len(u.arr[l]) : u.arr[l][j] = x
      BY <2>6 DEF Holds, Within
    <3>2. PICK j \in 1..Len(u.arr[l]) : u.arr[l][j] = x
      BY <3>1
    <3>3. Same(u.arr[l][j].key, k)
      BY <2>6, <3>2 DEF Same
    <3>4. i = l
      BY <1>4, <3>3, InItsChain
    <3> QED
      BY <2>2, <3>3, <3>4 DEF Fresh
  <2>7. Entry(r, c, w) <=> IF c = Class(k) THEN w = v ELSE Entry(u, c, w)
    BY <2>1, <2>5, <2>6 DEF Entry
  <2> QED
    BY <1>3, <2>7 DEF r
<1> QED
  BY <1>2, <1>5, <1>6


-----------------------------------------------------------------------------
(* The copy that a collection makes.                                       *)

\* The first k of the nodes have been added.
Fills(r, nodes, k) ==
  /\ Sized(r) /\ InPlace(r, Key)
  /\ \A c : HasClass(r, c) <=> \E p \in 1..k : Class(nodes[p].key) = c
  /\ Zeros = {} => Proper(r)
  /\ Zeros = {} /\ Distinct(nodes) =>
       \A c, w : Entry(r, c, w) <=> \E p \in 1..k : Class(nodes[p].key) = c /\ nodes[p].val = w

LEMMA FillStart ==
  ASSUME NEW nodes PROVE Fills(Table(0), nodes, 0)
<1> DEFINE t == Table(0)
<1>1. Sized(t) /\ InPlace(t, Key) /\ Single(t) /\ \A x : ~Holds(t, x)
  BY NewTable
<1> HIDE DEF t
<1>2. \A c : ~HasClass(t, c) /\ \A w : ~Entry(t, c, w)
  BY <1>1 DEF HasClass, Entry
<1>3. \A p \in 1..0 : FALSE
  OBVIOUS
<1>4. Fills(t, nodes, 0)
  BY <1>1, <1>2, <1>3 DEF Fills, Proper
<1> QED
  BY <1>4 DEF t

LEMMA FillStep ==
  ASSUME Contents, NEW nodes \in Seq(Node), NEW k \in 0..Len(nodes) - 1, NEW t,
         Fills(t, nodes, k)
  PROVE  Fills(Add(t, nodes[k + 1].key, nodes[k + 1].val), nodes, k + 1)
<1> DEFINE e == nodes[k + 1]
           q == e.key
           v == e.val
           r == Add(t, q, v)
<1>0. Len(nodes) \in Nat
  BY LenProperties
<1>1. k + 1 \in 1..Len(nodes) /\ k \in Nat
  BY <1>0
<1>2. e \in Node
  BY <1>1, ElementOfSeq
<1>3. q \in Key /\ v \in Value
  BY <1>2 DEF Node
<1> HIDE DEF q, v
<1>4. /\ Sized(t) /\ InPlace(t, Key)
      /\ \A c : HasClass(t, c) <=> \E p \in 1..k : Class(nodes[p].key) = c
      /\ Zeros = {} => Proper(t)
      /\ Zeros = {} /\ Distinct(nodes) =>
           \A c, w : Entry(t, c, w) <=> \E p \in 1..k : Class(nodes[p].key) = c /\ nodes[p].val = w
  BY DEF Fills
<1>5. /\ Sized(r)
      /\ \A K : InPlace(t, K) => InPlace(r, K)
      /\ Zeros = {} /\ Proper(t) => Proper(r)
      /\ \A c : HasClass(r, c) <=> HasClass(t, c) \/ c = Class(q)
  BY <1>3, <1>4, AddKeeps
<1>6. ASSUME Zeros = {}, Distinct(nodes), NEW c, NEW w
      PROVE  Entry(r, c, w) <=> IF c = Class(q) THEN w = v ELSE Entry(t, c, w)
  BY <1>3, <1>4, <1>6, AddEntry
<1> HIDE DEF r
<1>7. \A p : p \in 1..k + 1 <=> p \in 1..k \/ p = k + 1
  BY <1>1
<1>8. q = nodes[k + 1].key /\ v = nodes[k + 1].val
  BY DEF q, v
<1> HIDE DEF e
<1>9. \A c : HasClass(r, c) <=> \E p \in 1..k + 1 : Class(nodes[p].key) = c
  BY <1>4, <1>5, <1>7, <1>8
<1>10. ASSUME Zeros = {}, Distinct(nodes), NEW c, NEW w
       PROVE  Entry(r, c, w) <=> \E p \in 1..k + 1 : Class(nodes[p].key) = c /\ nodes[p].val = w
  <2>1. CASE c = Class(q)
    <3>1. ASSUME NEW p \in 1..k, Class(nodes[p].key) = c PROVE FALSE
      <4>1. p \in 1..Len(nodes) /\ p # k + 1
        BY <1>0, <1>1
      <4>2. Same(nodes[p].key, nodes[k + 1].key)
        BY <1>8, <2>1, <3>1 DEF Same
      <4> QED
        BY <1>1, <1>10, <4>1, <4>2 DEF Distinct
    <3>2. Entry(r, c, w) <=> w = v
      BY <1>6, <1>10, <2>1
    <3> QED
      BY <1>7, <1>8, <2>1, <3>1, <3>2
  <2>2. CASE c # Class(q)
    <3>1. Entry(r, c, w) <=> Entry(t, c, w)
      BY <1>6, <1>10, <2>2
    <3>2. Entry(t, c, w) <=> \E p \in 1..k : Class(nodes[p].key) = c /\ nodes[p].val = w
      BY <1>4, <1>10
    <3> QED
      BY <1>7, <1>8, <2>2, <3>1, <3>2
  <2> QED
    BY <2>1, <2>2
<1>11. Fills(r, nodes, k + 1)
  BY <1>4, <1>5, <1>9, <1>10 DEF Fills
<1> QED
  BY <1>11 DEF r, q, v, e

TableSet == UNION {[capacity : {n}, arr : Chains(n), count : Nat] : n \in Nat}

LEMMA TablesAreSet == ASSUME NEW t, IsTable(t) PROVE t \in TableSet
<1>1. /\ t.capacity \in Nat /\ t.arr \in Chains(t.capacity) /\ t.count \in Nat
      /\ t = [capacity |-> t.capacity, arr |-> t.arr, count |-> t.count]
  BY DEF IsTable
<1>2. t \in [capacity : {t.capacity}, arr : Chains(t.capacity), count : Nat]
  BY <1>1
<1> QED
  BY <1>1, <1>2 DEF TableSet

LEMMA FilledFacts ==
  ASSUME Contents, NEW nodes \in Seq(Node)
  PROVE  Fills(Filled(nodes), nodes, Len(nodes))
<1> DEFINE N == Len(nodes)
           X == {t \in TableSet : Sized(t)}
           F == [p \in (1..N) \X X |-> Add(p[2], nodes[p[1]].key, nodes[p[1]].val)]
           runs(f) == f = [k \in 0..N |-> IF k = 0 THEN Table(0)
                                          ELSE Add(f[k - 1], nodes[k].key, nodes[k].val)]
           f == CHOOSE x : runs(x)
<1>0. N \in Nat
  BY LenProperties
<1>1. Table(0) \in X
  <2>1. Sized(Table(0)) /\ IsTable(Table(0))
    BY NewTable
  <2> QED
    BY <2>1, TablesAreSet
<1>2. \A k \in 1..N : \A t \in X : Add(t, nodes[k].key, nodes[k].val) \in X
  <2>1. ASSUME NEW k \in 1..N, NEW t \in X
        PROVE  Add(t, nodes[k].key, nodes[k].val) \in X
    <3> DEFINE r == Add(t, nodes[k].key, nodes[k].val)
    <3>1. nodes[k] \in Node
      BY ElementOfSeq
    <3>2. nodes[k].key \in Key /\ nodes[k].val \in Value /\ Sized(t)
      BY <3>1 DEF Node
    <3>3. Sized(r)
      BY <3>2, AddKeeps
    <3> HIDE DEF r
    <3>4. r \in TableSet
      BY <3>3, TablesAreSet DEF Sized
    <3>5. r \in X
      BY <3>3, <3>4
    <3> QED
      BY <3>5 DEF r
  <2> QED
    BY <2>1
<1> HIDE DEF X, N
<1>3. F \in [(1..N) \X X -> X]
  BY <1>2
<1>4. \A k \in 1..N : \A t \in X : F[<<k, t>>] = Add(t, nodes[k].key, nodes[k].val)
  OBVIOUS
<1> HIDE DEF F
<1>5. PICK g \in [0..N -> X] : Follows(g, N, Table(0), F)
  BY <1>0, <1>1, <1>3, Recur
<1>6. runs(g)
  <2>1. ASSUME NEW k \in 0..N
        PROVE  g[k] = IF k = 0 THEN Table(0) ELSE Add(g[k - 1], nodes[k].key, nodes[k].val)
    <3>1. CASE k = 0
      BY <1>5, <3>1 DEF Follows
    <3>2. CASE k # 0
      <4>1. k \in 1..N /\ k - 1 \in 0..N
        BY <1>0, <3>2
      <4>2. g[k] = F[<<k, g[k - 1]>>] /\ g[k - 1] \in X
        BY <1>5, <4>1 DEF Follows
      <4> QED
        BY <1>4, <3>2, <4>1, <4>2
    <3> QED
      BY <3>1, <3>2
  <2>2. g = [k \in 0..N |-> g[k]]
    OBVIOUS
  <2> QED
    BY <2>1, <2>2
<1>7. runs(f)
  <2> HIDE DEF runs
  <2> QED
    BY <1>6
<1>8. Filled(nodes) = f[N]
  BY DEF Filled, N
<1> HIDE DEF f
<1>9. f[0] = Table(0) /\ \A k \in 1..N : f[k] = Add(f[k - 1], nodes[k].key, nodes[k].val)
  <2>1. \A k \in 0..N : f[k] = IF k = 0 THEN Table(0) ELSE Add(f[k - 1], nodes[k].key, nodes[k].val)
    BY <1>7
  <2>2. 0 \in 0..N /\ \A k \in 1..N : k \in 0..N /\ k # 0
    BY <1>0
  <2> HIDE DEF runs
  <2> QED
    BY <2>1, <2>2
<1> HIDE DEF runs
<1> DEFINE S == {k \in 0..N : Fills(f[k], nodes, k)}
<1>10. 0 \in S
  BY <1>0, <1>9, FillStart
<1>11. ASSUME NEW k \in 0..N - 1, k \in S PROVE k + 1 \in S
  <2>1. k + 1 \in 1..N /\ (k + 1) - 1 = k /\ k + 1 \in 0..N
    BY <1>0
  <2>2. f[k + 1] = Add(f[k], nodes[k + 1].key, nodes[k + 1].val)
    BY <1>9, <2>1
  <2>3. Fills(Add(f[k], nodes[k + 1].key, nodes[k + 1].val), nodes, k + 1)
    BY <1>11, FillStep DEF N
  <2> QED
    BY <2>1, <2>2, <2>3
<1>12. 0..N \subseteq S
  <2> HIDE DEF S
  <2> QED
    BY <1>0, <1>10, <1>11, UpTo
<1>13. N \in S
  BY <1>0, <1>12
<1> QED
  BY <1>8, <1>13 DEF N

\* The copy of a table: with the same keys, all of them in place; and with the
\* same values while keys do not change.
LEMMA CopyFacts ==
  ASSUME Contents, NEW t, Sized(t)
  PROVE  /\ Sized(Copy(t)) /\ InPlace(Copy(t), Key)
         /\ \A c : HasClass(Copy(t), c) <=> HasClass(t, c)
         /\ Zeros = {} /\ Proper(t) =>
              Proper(Copy(t)) /\ \A c, w : Entry(Copy(t), c, w) <=> Entry(t, c, w)
<1> DEFINE nodes == Nodes(t)
           r == Copy(t)
<1>1. t.capacity \in Nat /\ t.arr \in Chains(t.capacity)
  BY DEF Sized, IsTable
<1>2. nodes \in Seq(Node) /\ \A x : Among(nodes, x) <=> Holds(t, x)
  BY <1>1, NodesOfTable, AllOfWithin DEF Holds
<1>3. Zeros = {} /\ Proper(t) => Distinct(nodes)
  BY <1>1, NodesOfTable, AllOfDistinct DEF Proper, InPlace, Single
<1> HIDE DEF nodes
<1>4. Fills(r, nodes, Len(nodes))
  BY <1>2, FilledFacts DEF Copy, nodes
<1> HIDE DEF r
<1>5. /\ Sized(r) /\ InPlace(r, Key)
      /\ \A c : HasClass(r, c) <=> \E p \in 1..Len(nodes) : Class(nodes[p].key) = c
      /\ Zeros = {} => Proper(r)
      /\ Zeros = {} /\ Distinct(nodes) =>
           \A c, w : Entry(r, c, w)
                       <=> \E p \in 1..Len(nodes) : Class(nodes[p].key) = c /\ nodes[p].val = w
  BY <1>4 DEF Fills
<1>6. \A c : HasClass(t, c) <=> \E p \in 1..Len(nodes) : Class(nodes[p].key) = c
  BY <1>2 DEF HasClass, Among
<1>7. \A c, w : Entry(t, c, w)
                  <=> \E p \in 1..Len(nodes) : Class(nodes[p].key) = c /\ nodes[p].val = w
  BY <1>2 DEF Entry, Among
<1> QED
  BY <1>3, <1>5, <1>6, <1>7 DEF r


-----------------------------------------------------------------------------
(* ValDict_get.                                                            *)

LEMMA GetFacts ==
  ASSUME Contents, NEW t, IsTable(t), NEW k \in Key
  PROVE  /\ Get(t, k) \in Value \cup {Missing}
         /\ Get(t, k) # Missing <=> Matches(t, k) # {}
         /\ Get(t, k) # Missing => \E x : Holds(t, x) /\ Same(x.key, k) /\ x.val = Get(t, k)
<1>1. CASE Matches(t, k) = {}
  BY <1>1 DEF Get
<1>2. CASE Matches(t, k) # {}
  <2> DEFINE i == Hash(k) % t.capacity
             m == Min(Matches(t, k))
             x == t.arr[i][m]
  <2>1. t.capacity \in Nat \ {0}
    BY <1>2 DEF Matches, IsTable
  <2>2. i \in 0..t.capacity - 1
    BY <2>1, HashFacts
  <2>3. t.arr[i] \in Seq(Node) /\ Len(t.arr[i]) \in Nat
    BY <2>1, <2>2, InChain DEF IsTable
  <2>4. Matches(t, k) = {j \in 1..Len(t.arr[i]) : Same(t.arr[i][j].key, k)}
    BY <2>1 DEF Matches, Bucket
  <2>5. m \in Matches(t, k)
    <3>1. \A j \in 1..Len(t.arr[i]) : j \in Nat
      BY <2>3
    <3>2. Matches(t, k) \subseteq Nat
      BY <2>4, <3>1, Zenon
    <3> QED
      BY <1>2, <3>2, MinFacts
  <2>6. m \in 1..Len(t.arr[i]) /\ Same(x.key, k)
    BY <2>4, <2>5, Zenon
  <2>7. x \in Node
    BY <2>1, <2>2, <2>6, InChain DEF IsTable
  <2>8. Get(t, k) = x.val
    BY <1>2 DEF Get, Bucket
  <2>9. x.val \in Value /\ x.val # Missing
    BY <2>7, DictAssumption DEF Node
  <2>10. Holds(t, x)
    BY <2>2, <2>6 DEF Holds, Within
  <2> QED
    BY <1>2, <2>6, <2>8, <2>9, <2>10
<1> QED
  BY <1>1, <1>2

(* A node in the chain of a key that is equal to its own is found. *)
LEMMA GetFinds ==
  ASSUME Contents, NEW t, IsTable(t), NEW k \in Key,
         NEW i \in 0..t.capacity - 1, NEW j \in 1..Len(t.arr[i]),
         Hash(k) % t.capacity = i, Same(t.arr[i][j].key, k)
  PROVE  Get(t, k) # Missing
<1>1. t.capacity # 0
  BY DEF IsTable
<1>2. j \in Matches(t, k)
  BY <1>1 DEF Matches, Bucket
<1> QED
  BY <1>2, GetFacts

(* The keys that are found are those with an equal key in the table. *)
LEMMA FoundIff ==
  ASSUME Contents, NEW t, IsTable(t), InPlace(t, Steady), NEW k \in Steady \ Zeros
  PROVE  Get(t, k) # Missing <=> HasClass(t, Class(k))
<1>0. k \in Key \ Zeros
  BY DEF Steady
<1>1. ASSUME Get(t, k) # Missing PROVE HasClass(t, Class(k))
  BY <1>0, <1>1, GetFacts DEF HasClass, Same
<1>2. ASSUME HasClass(t, Class(k)) PROVE Get(t, k) # Missing
  <2>1. PICK i \in 0..t.capacity - 1 : \E j \in 1..Len(t.arr[i]) : Class(t.arr[i][j].key) = Class(k)
    BY <1>2 DEF HasClass, Holds, Within
  <2>2. PICK j \in 1..Len(t.arr[i]) : Class(t.arr[i][j].key) = Class(k)
    BY <2>1
  <2> DEFINE q == t.arr[i][j].key
  <2>3. t.arr[i][j] \in Node
    BY InChain DEF IsTable
  <2>4. q \in Key /\ Same(q, k)
    BY <2>2, <2>3 DEF Node, Same
  <2>5. Hash(q) = Hash(k) /\ q \in Steady
    BY <1>0, <2>4, EqualKeys
  <2>6. Hash(q) % t.capacity = i
    BY <2>5 DEF InPlace, Placed
  <2> QED
    BY <1>0, <2>4, <2>5, <2>6, GetFinds
<1> QED
  BY <1>1, <1>2

(* While keys do not change: a key has the value of the one node there is *)
(* for it.                                                                 *)
LEMMA EntryGet ==
  ASSUME Contents, NEW t, IsTable(t), Zeros = {}, Proper(t), NEW k \in Key, NEW w \in Value
  PROVE  Get(t, k) = w <=> Entry(t, Class(k), w)
<1>1. ASSUME Get(t, k) = w PROVE Entry(t, Class(k), w)
  <2>1. Get(t, k) # Missing
    BY <1>1, DictAssumption
  <2> QED
    BY <1>1, <2>1, GetFacts DEF Entry, Same
<1>2. ASSUME Entry(t, Class(k), w) PROVE Get(t, k) = w
  <2>1. PICK x : Holds(t, x) /\ Class(x.key) = Class(k) /\ x.val = w
    BY <1>2 DEF Entry
  <2>2. PICK i \in 0..t.capacity - 1 : \E j \in 1..Len(t.arr[i]) : t.arr[i][j] = x
    BY <2>1 DEF Holds, Within
  <2>3. PICK j \in 1..Len(t.arr[i]) : t.arr[i][j] = x
    BY <2>2
  <2>4. Same(t.arr[i][j].key, k)
    BY <2>1, <2>3 DEF Same
  <2>5. Hash(k) % t.capacity = i
    BY <2>4, InItsChain DEF Proper
  <2>6. t.capacity \in Nat \ {0} /\ Len(t.arr[i]) \in Nat
    BY InChain DEF IsTable
  <2> DEFINE M == Matches(t, k)
  <2>7. M = {l \in 1..Len(t.arr[i]) : Same(t.arr[i][l].key, k)}
    BY <2>5, <2>6 DEF Matches, Bucket
  <2> HIDE DEF M
  <2>8. M # {} /\ M \subseteq Nat
    BY <2>4, <2>6, <2>7
  <2>9. Min(M) \in M
    BY <2>8, MinFacts
  <2>10. Min(M) \in 1..Len(t.arr[i]) /\ Same(t.arr[i][Min(M)].key, t.arr[i][j].key)
    BY <2>4, <2>7, <2>9 DEF Same
  <2>11. Min(M) = j
    BY <2>10 DEF Proper, Single, Alone
  <2> QED
    BY <2>1, <2>3, <2>5, <2>8, <2>11 DEF Get, Bucket, M
<1> QED
  BY <1>1, <1>2


-----------------------------------------------------------------------------
(* The invariant: the nodes are where the hashes of their keys say, but    *)
(* those whose key may have changed its hash.                              *)

IInv == Contents /\ Sized(dict) /\ InPlace(dict, Steady)

LEMMA InitIInv == Init => IInv
<1> SUFFICES ASSUME Init PROVE IInv
  OBVIOUS
<1>1. /\ Sized(Table(0)) /\ InPlace(Table(0), Steady) /\ Contents
  <2>1. 0 \in Nat
    OBVIOUS
  <2>2. IsTable(Table(0)) /\ Sized(Table(0)) /\ InPlace(Table(0), Key)
    BY <2>1, NewTable
  <2>3. InPlace(Table(0), Steady)
    BY <2>2, PlacedAll DEF InPlace, IsTable
  <2> QED
    BY <2>2, <2>3 DEF Init, Contents
<1> QED
  BY <1>1 DEF Init, IInv

\* A table that takes the place of dict.
LEMMA NewDict ==
  ASSUME IInv, UNCHANGED content, Sized(dict'), InPlace(dict', Steady)
  PROVE  IInv'
<1>1. Contents'
  BY DEF IInv, Contents
<1>2. Sized(dict)'
  BY DEF Sized, IsTable, Nodes
<1>3. InPlace(dict, Steady)'
  BY DEF InPlace, Placed, Hash, ListHash
<1> QED
  BY <1>1, <1>2, <1>3 DEF IInv

LEMMA PutIInv ==
  ASSUME IInv, NEW k \in Key, NEW v \in Value, Put(k, v) PROVE IInv'
<1>1. Sized(Add(dict, k, v)) /\ InPlace(Add(dict, k, v), Steady)
  BY AddKeeps DEF IInv
<1> QED
  BY <1>1, NewDict DEF Put

LEMMA CollectedIInv ==
  ASSUME IInv, Collected PROVE IInv'
<1>1. Sized(Copy(dict)) /\ InPlace(Copy(dict), Key)
  BY CopyFacts DEF IInv
<1>2. InPlace(Copy(dict), Steady)
  BY <1>1, PlacedAll DEF InPlace, Sized, IsTable
<1> QED
  BY <1>1, <1>2, NewDict DEF Collected

(* What the program does to a key changes the hash of no steady key: the   *)
(* hash of a list is the same whatever it holds.                           *)
LEMMA SteadyHash ==
  ASSUME Contents, NEW k \in Mutated, NEW c \in Content, Mutate(k, c), NEW q \in Steady
  PROVE  Hash(q)' = Hash(q)
<1>1. CASE q \in Lists
  BY <1>1 DEF Hash, ListHash
<1>2. CASE q \notin Lists /\ q \notin Strings
  BY <1>2 DEF Hash
<1>3. CASE q \notin Lists /\ q \in Strings
  <2>1. k # q
    BY <1>3 DEF Steady
  <2>2. content'[q] = content[q]
    BY <1>3, <2>1 DEF Mutate, Contents
  <2> QED
    BY <1>3, <2>2 DEF Hash
<1> QED
  BY <1>1, <1>2, <1>3

LEMMA MutateIInv ==
  ASSUME IInv, NEW k \in Mutated, NEW c \in Content, Mutate(k, c) PROVE IInv'
<1>1. Contents'
  BY DictAssumption DEF IInv, Contents, Mutate
<1>2. Sized(dict)'
  BY DEF IInv, Sized, IsTable, Nodes, Mutate
<1>3. \A q \in Steady : Hash(q)' = Hash(q)
  BY SteadyHash DEF IInv
<1>4. InPlace(dict, Steady)'
  BY <1>3 DEF IInv, InPlace, Placed, Mutate
<1> QED
  BY <1>1, <1>2, <1>4 DEF IInv

LEMMA NextIInv == IInv /\ [Next]_vars => IInv'
<1> SUFFICES ASSUME IInv, [Next]_vars PROVE IInv'
  OBVIOUS
<1>1. CASE Next
  BY <1>1, PutIInv, MutateIInv, CollectedIInv DEF Next
<1>2. CASE UNCHANGED vars
  BY <1>2, NewDict DEF vars, IInv
<1> QED
  BY <1>1, <1>2

-----------------------------------------------------------------------------
(* The theorems.                                                           *)

(* The table is well formed and not too full: count is the number of its   *)
(* nodes, and a rehash keeps the chains at most two long on average.       *)
THEOREM TypeCorrect == Spec => []TypeOK
<1>1. IInv => TypeOK
  BY DEF IInv, Sized, IsTable, Chains, Contents, TypeOK
<1> QED
  BY <1>1, InitIInv, NextIInv, PTL DEF Spec

(* A key in the table that keeps its hash is in the chain of its hash and  *)
(* is found, through every rehash and every collection, and whatever the   *)
(* program does to the lists that are keys.                                *)
THEOREM StoredAreFound == Spec => []StoredIsFound
<1>1. IInv => StoredIsFound
  <2> SUFFICES ASSUME IInv,
                      NEW i \in 0..dict.capacity - 1, NEW j \in 1..Len(dict.arr[i]),
                      dict.arr[i][j].key \in Steady
               PROVE  /\ Hash(dict.arr[i][j].key) % dict.capacity = i
                      /\ Get(dict, dict.arr[i][j].key) # Missing
    BY DEF StoredIsFound
  <2> DEFINE k == dict.arr[i][j].key
  <2>1. Contents /\ IsTable(dict) /\ k \in Key /\ Same(k, k)
    BY DEF IInv, Sized, Steady, Same
  <2>2. Hash(k) % dict.capacity = i
    BY DEF IInv, InPlace, Placed
  <2> QED
    BY <2>1, <2>2, GetFinds
<1> QED
  BY <1>1, InitIInv, NextIInv, PTL DEF Spec

(* A collection loses no key that could be found, and finds none that      *)
(* could not, whatever the program did to its lists.                       *)
THEOREM CollectionsKeepKeys == Spec => CollectKeepsKeys
<1>1. ASSUME IInv, Collected, NEW k \in Steady \ Zeros
      PROVE  (Get(dict', k) = Missing) = (Get(dict, k) = Missing)
  <2>1. /\ Contents /\ IsTable(dict) /\ Sized(dict) /\ InPlace(dict, Steady)
        /\ dict' = Copy(dict)
    BY <1>1 DEF IInv, Sized, Collected
  <2>2. /\ Sized(Copy(dict)) /\ InPlace(Copy(dict), Key)
        /\ \A c : HasClass(Copy(dict), c) <=> HasClass(dict, c)
    BY <2>1, CopyFacts
  <2>3. IsTable(Copy(dict)) /\ InPlace(Copy(dict), Steady)
    BY <2>2, PlacedAll DEF InPlace, Sized, IsTable
  <2>4. Get(dict, k) # Missing <=> HasClass(dict, Class(k))
    BY <2>1, FoundIff
  <2>5. Get(Copy(dict), k) # Missing <=> HasClass(Copy(dict), Class(k))
    BY <2>1, <2>3, FoundIff
  <2> QED
    BY <2>1, <2>2, <2>4, <2>5
<1>2. IInv /\ [Next]_vars =>
        [Collected => \A k \in Steady \ Zeros :
           (Get(dict', k) = Missing) = (Get(dict, k) = Missing)]_vars
  BY <1>1
<1> QED
  BY <1>2, InitIInv, NextIInv, PTL DEF Spec, CollectKeepsKeys

\* A collection leaves every key of the table where it can be found.
Repairs ==
  Collected => \A i \in 1 .. Len(Nodes(dict')) : Get(dict', Nodes(dict')[i].key) # Missing

(* After a collection every key in the table can be found, also a string   *)
(* that was changed and could not be found before.                         *)
THEOREM CollectionsRepair == Spec => CollectRepairs
<1>1. ASSUME IInv, Collected, NEW i \in 1..Len(Nodes(dict'))
      PROVE  Get(dict', Nodes(dict')[i].key) # Missing
  <2> DEFINE t == Copy(dict)
  <2>1. Contents /\ dict' = t
    BY <1>1 DEF IInv, Collected
  <2>2. Sized(t) /\ InPlace(t, Key)
    BY <1>1, CopyFacts DEF IInv
  <2> HIDE DEF t
  <2>3. IsTable(t) /\ t.capacity \in Nat /\ t.arr \in Chains(t.capacity)
    BY <2>2 DEF Sized, IsTable
  <2> DEFINE x == Nodes(t)[i]
  <2>4. Holds(t, x)
    <3>1. Among(Nodes(t), x)
      BY <1>1, <2>1 DEF Among
    <3> QED
      BY <2>3, <3>1, NodesOfTable, AllOfWithin DEF Holds
  <2>5. PICK h \in 0..t.capacity - 1 : \E j \in 1..Len(t.arr[h]) : t.arr[h][j] = x
    BY <2>4 DEF Holds, Within
  <2>6. PICK j \in 1..Len(t.arr[h]) : t.arr[h][j] = x
    BY <2>5
  <2>7. x.key \in Key
    BY <2>3, <2>6, InChain DEF Node
  <2>8. Hash(x.key) % t.capacity = h
    BY <2>2, <2>6, <2>7 DEF InPlace, Placed
  <2>9. Same(t.arr[h][j].key, x.key)
    BY <2>6 DEF Same
  <2> QED
    BY <2>1, <2>3, <2>7, <2>8, <2>9, GetFinds
<1>2. IInv /\ [Next]_vars => [Repairs]_vars
  BY <1>1 DEF Repairs
<1>3. Spec => [][Repairs]_vars
  BY <1>2, InitIInv, NextIInv, PTL DEF Spec
<1> QED
  BY <1>3 DEF CollectRepairs, Repairs


-----------------------------------------------------------------------------
(* The dictionary as a map, while keys do not change.  The zeros are left  *)
(* out: they are equal, but their hashes differ.                           *)

MInv == IInv /\ Single(dict)

LEMMA MapProper ==
  ASSUME Mutated = {} PROVE MInv => Contents /\ Sized(dict) /\ IsTable(dict) /\ Proper(dict)
<1>1. Steady = Key
  BY DEF Steady
<1> QED
  BY <1>1 DEF MInv, IInv, Sized, Proper

LEMMA InitMInv == Init => MInv
<1> SUFFICES ASSUME Init PROVE MInv
  OBVIOUS
<1>1. 0 \in Nat
  OBVIOUS
<1>2. Single(Table(0))
  BY <1>1, NewTable
<1> QED
  BY <1>2, InitIInv DEF Init, MInv

LEMMA NewSingle ==
  ASSUME UNCHANGED content, Single(dict') PROVE Single(dict)'
BY DEF Single, Alone, Same, Class

LEMMA NextMInv ==
  ASSUME Zeros = {}, Mutated = {} PROVE MInv /\ [Next]_vars => MInv'
<1> SUFFICES ASSUME MInv, [Next]_vars PROVE MInv'
  OBVIOUS
<1>1. Contents /\ Sized(dict) /\ Proper(dict)
  BY MapProper
<1>2. IInv'
  BY NextIInv DEF MInv
<1>3. ASSUME NEW k \in Key, NEW v \in Value, Put(k, v) PROVE Single(dict)'
  <2>1. Single(Add(dict, k, v))
    BY <1>1, AddKeeps DEF Proper
  <2> QED
    BY <1>3, <2>1, NewSingle DEF Put
<1>4. ASSUME Collected PROVE Single(dict)'
  <2>1. Single(Copy(dict))
    BY <1>1, CopyFacts DEF Proper
  <2> QED
    BY <1>4, <2>1, NewSingle DEF Collected
<1>5. ASSUME UNCHANGED vars PROVE Single(dict)'
  BY <1>5, NewSingle DEF vars, MInv
<1> QED
  BY <1>2, <1>3, <1>4, <1>5 DEF Next, MInv

(* A lookup after a step that leaves the keys alone. *)
LEMMA GetNext ==
  ASSUME UNCHANGED content, NEW k \in Key PROVE Get(dict, k)' = Get(dict', k)
BY DEF Get, Bucket, Matches, Same, Class, Hash, ListHash

(* Tables with the same entries for a key give the same answer. *)
LEMMA SameAnswer ==
  ASSUME Contents, Zeros = {}, NEW t, IsTable(t), Proper(t), NEW u, IsTable(u), Proper(u),
         NEW k \in Key, \A w : Entry(u, Class(k), w) <=> Entry(t, Class(k), w)
  PROVE  Get(u, k) = Get(t, k)
<1>1. Get(t, k) \in Value \cup {Missing} /\ Get(u, k) \in Value \cup {Missing}
  BY GetFacts
<1>2. \A w \in Value : Get(u, k) = w <=> Get(t, k) = w
  BY EntryGet
<1> QED
  BY <1>1, <1>2, DictAssumption

(* After ValDict_add the key has the new value, and the keys that are not  *)
(* equal to it the value they had.                                         *)
LEMMA AddGet ==
  ASSUME Contents, Zeros = {}, NEW t, Sized(t), Proper(t), NEW k \in Key, NEW v \in Value,
         NEW q \in Key
  PROVE  Get(Add(t, k, v), q) = IF Class(q) = Class(k) THEN v ELSE Get(t, q)
<1> DEFINE u == Add(t, k, v)
<1>1. Sized(u) /\ Proper(u)
  BY AddKeeps
<1>2. \A w : Entry(u, Class(q), w) <=> IF Class(q) = Class(k) THEN w = v ELSE Entry(t, Class(q), w)
  BY AddEntry
<1> HIDE DEF u
<1>3. IsTable(t) /\ IsTable(u)
  BY <1>1 DEF Sized
<1>4. CASE Class(q) = Class(k)
  <2>1. Entry(u, Class(q), v)
    BY <1>2, <1>4
  <2> QED
    BY <1>1, <1>3, <1>4, <2>1, EntryGet DEF u
<1>5. CASE Class(q) # Class(k)
  <2>1. \A w : Entry(u, Class(q), w) <=> Entry(t, Class(q), w)
    BY <1>2, <1>5
  <2>2. Get(u, q) = Get(t, q)
    BY <1>1, <1>3, <2>1, SameAnswer
  <2> QED
    BY <1>5, <2>2 DEF u
<1> QED
  BY <1>4, <1>5

LEMMA CopyGet ==
  ASSUME Contents, Zeros = {}, NEW t, Sized(t), Proper(t), NEW q \in Key
  PROVE  Get(Copy(t), q) = Get(t, q)
<1> DEFINE u == Copy(t)
<1>1. /\ Sized(u) /\ Proper(u)
      /\ \A w : Entry(u, Class(q), w) <=> Entry(t, Class(q), w)
  BY CopyFacts
<1> HIDE DEF u
<1>2. IsTable(t) /\ IsTable(u)
  BY <1>1 DEF Sized
<1>3. Get(u, q) = Get(t, q)
  BY <1>1, <1>2, SameAnswer
<1> QED
  BY <1>3 DEF u

(* While keys do not change, a collection is invisible: it changes the     *)
(* answer to no lookup.                                                    *)
THEOREM CollectionsInvisible ==
  ASSUME Zeros = {}, Mutated = {} PROVE Spec => CollectInvisible
<1>1. ASSUME MInv, Collected, NEW k \in Key PROVE Get(dict', k) = Get(dict, k)
  BY <1>1, MapProper, CopyGet DEF Collected
<1>2. MInv /\ [Next]_vars => [Collected => \A k \in Key : Get(dict', k) = Get(dict, k)]_vars
  BY <1>1
<1> QED
  BY <1>2, InitMInv, NextMInv, PTL DEF Spec, CollectInvisible

(* While keys do not change, the table implements KeyMap: a lookup gives   *)
(* the value added last for an equal key, whatever chains, rehashes and    *)
(* collections there were in between.                                      *)
THEOREM DictIsMap ==
  ASSUME Zeros = {}, Mutated = {} PROVE Spec => IsMap
<1>1. Init => Map!Init
  <2> SUFFICES ASSUME Init PROVE Map!Init
    OBVIOUS
  <2>1. ASSUME NEW k \in Key PROVE Get(dict, k) = Missing
    <3>1. dict.capacity = 0
      BY DEF Init, Table
    <3> QED
      BY <3>1 DEF Get, Matches
  <2> QED
    BY <2>1 DEF Map!Init
<1>2. ASSUME MInv, NEW k \in Key, NEW v \in Value, Put(k, v) PROVE Map!Put(k, v)
  <2>0. dict' = Add(dict, k, v) /\ content' = content
    BY <1>2 DEF Put
  <2>1. \A q \in Key : Get(dict, q)' = IF Class(q) = Class(k) THEN v ELSE Get(dict, q)
    <3> SUFFICES ASSUME NEW q \in Key
                 PROVE  Get(dict, q)' = IF Class(q) = Class(k) THEN v ELSE Get(dict, q)
      OBVIOUS
    <3>1. Get(dict, q)' = Get(dict', q)
      BY <2>0, GetNext
    <3>2. Get(Add(dict, k, v), q) = IF Class(q) = Class(k) THEN v ELSE Get(dict, q)
      BY <1>2, MapProper, AddGet
    <3> QED
      BY <2>0, <3>1, <3>2
  <2>2. \A q \in Key : Class(q)' = Class(q)
    BY <2>0 DEF Class
  <2>3. [q \in Key |-> Get(dict, q)]'
          = [q \in Key |-> IF [l \in Key |-> Class(l)][q] = [l \in Key |-> Class(l)][k] THEN v
                           ELSE [l \in Key |-> Get(dict, l)][q]]
    BY <2>1
  <2>4. [q \in Key |-> Class(q)]' = [q \in Key |-> Class(q)]
    BY <2>2
  <2> QED
    BY <2>3, <2>4 DEF Map!Put
<1>3. ASSUME MInv, Collected \/ UNCHANGED vars
      PROVE  UNCHANGED <<[k \in Key |-> Class(k)], [k \in Key |-> Get(dict, k)]>>
  <2>0. content' = content
    BY <1>3 DEF Collected, vars
  <2>1. \A q \in Key : Get(dict, q)' = Get(dict, q)
    <3> SUFFICES ASSUME NEW q \in Key PROVE Get(dict, q)' = Get(dict, q)
      OBVIOUS
    <3>1. Get(dict, q)' = Get(dict', q)
      BY <2>0, GetNext
    <3>2. Get(Copy(dict), q) = Get(dict, q)
      BY <1>3, MapProper, CopyGet
    <3> QED
      BY <1>3, <3>1, <3>2 DEF Collected, vars
  <2>2. \A q \in Key : Class(q)' = Class(q)
    BY <2>0 DEF Class
  <2> QED
    BY <2>1, <2>2
<1>4. MInv /\ [Next]_vars
        => [Map!Next]_<<[k \in Key |-> Class(k)], [k \in Key |-> Get(dict, k)]>>
  BY <1>2, <1>3 DEF Next, Map!Next
<1> QED
  BY <1>1, <1>4, InitMInv, NextMInv, PTL DEF Spec, IsMap, Map!Spec

=============================================================================
