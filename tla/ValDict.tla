------------------------------- MODULE ValDict ------------------------------
(***************************************************************************)
(* The dictionary of the language: the hash table that HT_IMPL in          *)
(* 3dparty/cplus.h generates for ValDict, with the hash and the comparison *)
(* of src/eval.c, and what the collector does with a dictionary.           *)
(*                                                                         *)
(* Keys are of four sorts.  Plain keys (none, int, bool) are equal only to *)
(* themselves.  Zeros are the floats 0.0 and -0.0, which are equal and     *)
(* differ in their bits, from which a float is hashed.  Lists (and dicts)  *)
(* and strings are compared by content, which the program can change, by   *)
(* append() for one, also while they are keys.  A string is hashed by its  *)
(* content, and the hash of a list is 0: hash_combine computes a value     *)
(* that ValDict_hashf drops.                                               *)
(***************************************************************************)
EXTENDS Naturals, SequencesExt

CONSTANTS
  Plain, Zeros, Lists, Strings,   \* the keys the program uses
  Mutated,                        \* those it may change while they are in use
  Content,                        \* contents of lists and strings
  BitsHash, StrHash,              \* hashes of plain keys and zeros, of contents
  Value, Missing,
  CP_HT_INIT_CAP,                 \* 128 in the code
  MaxCount                        \* bound: nodes of the table

Key == Plain \cup Zeros \cup Lists \cup Strings

ASSUME DictAssumption ==
  /\ BitsHash \in [Plain \cup Zeros -> Nat] /\ StrHash \in [Content -> Nat]
  /\ CP_HT_INIT_CAP \in Nat \ {0} /\ MaxCount \in Nat
  /\ Missing \notin Value
  /\ Mutated \subseteq Lists \cup Strings
  /\ Plain \cap Zeros = {} /\ Lists \cap Strings = {}
  /\ (Plain \cup Zeros) \cap (Lists \cup Strings) = {}

VARIABLES
  dict,        \* [capacity, arr, count]; a chain is a sequence, its head first
  content      \* what each list and string holds at present

vars == <<dict, content>>

Node  == [key : Key, val : Value]
Table(n) == [capacity |-> n, arr |-> [i \in 0 .. n - 1 |-> <<>>], count |-> 0]

(* slip: the hash of a list depends on what it holds *)
ListHashContent(k) == StrHash[content[k]]

(* ValDict_hashf *)
ListHash(k) == 0
Hash(k) == IF k \in Lists THEN ListHash(k)
           ELSE IF k \in Strings THEN StrHash[content[k]]
           ELSE BitsHash[k]

(* ValDict_compare finds keys of one class equal. *)
Class(k) == IF k \in Zeros THEN <<"float", "0">>
            ELSE IF k \in Lists THEN <<"list", content[k]>>
            ELSE IF k \in Strings THEN <<"string", content[k]>>
            ELSE <<"plain", k>>
Same(a, b) == Class(a) = Class(b)

(* ht_foreach_node: bucket after bucket, every chain from its head *)
Nodes(t) == FlattenSeq([i \in 1 .. t.capacity |-> t.arr[i - 1]])

Bucket(t, k) == t.arr[Hash(k) % t.capacity]
Matches(t, k) == IF t.capacity = 0 THEN {}
                 ELSE {i \in 1 .. Len(Bucket(t, k)) : Same(Bucket(t, k)[i].key, k)}

(* ValDict_get: the first node of the chain with an equal key *)
Get(t, k) == IF Matches(t, k) = {} THEN Missing ELSE Bucket(t, k)[Min(Matches(t, k))].val

(* The new node, or one that is moved, becomes the head of its chain. *)
Push(arr, n, node) == [arr EXCEPT ![Hash(node.key) % n] = <<node>> \o @]

(* The loop of ValDict_add over the nodes of the old table. *)
Moved(nodes, n) ==
  LET arr[k \in 0 .. Len(nodes)] ==
        IF k = 0 THEN Table(n).arr ELSE Push(arr[k - 1], n, nodes[k])
  IN  arr[Len(nodes)]

Grown(t, n) == [capacity |-> n, arr |-> Moved(Nodes(t), n), count |-> t.count]

(* slips: grown too late, nodes left in the bucket of the old capacity *)
RehashLate(t) == IF t.count > t.capacity * 3 THEN Grown(t, t.capacity * 3) ELSE t

RehashInPlace(t) ==
  IF t.count > t.capacity * 2
  THEN [capacity |-> t.capacity * 3, count |-> t.count,
        arr |-> [j \in 0 .. t.capacity * 3 - 1 |-> IF j < t.capacity THEN t.arr[j] ELSE <<>>]]
  ELSE t

(* Above two nodes a bucket the table grows threefold; the nodes are moved *)
(* in the order of ht_foreach_node.                                        *)
Rehash(t) == IF t.count > t.capacity * 2 THEN Grown(t, t.capacity * 3) ELSE t

(* ValDict_add *)
Add(t, k, v) ==
  LET u == IF t.capacity = 0 THEN Table(CP_HT_INIT_CAP) ELSE t
      i == Hash(k) % u.capacity
  IN  IF Matches(u, k) # {}
      THEN [u EXCEPT !.arr[i][Min(Matches(u, k))].val = v]
      ELSE Rehash([u EXCEPT !.arr = Push(@, u.capacity, [key |-> k, val |-> v]),
                            !.count = @ + 1])

(* A new table with the given nodes, added one after the other *)
Filled(nodes) ==
  LET new[k \in 0 .. Len(nodes)] ==
        IF k = 0 THEN Table(0) ELSE Add(new[k - 1], nodes[k].key, nodes[k].val)
  IN  new[Len(nodes)]

(* slip: only the head of every chain is copied *)
CopyHeads(t) == Filled(SelectSeq(Nodes(t), LAMBDA node : Bucket(t, node.key)[1] = node))

(* slip: every node is moved to the head of a chain of the same index *)
CopyChains(t) == [t EXCEPT !.arr = [i \in DOMAIN t.arr |-> Reverse(t.arr[i])]]

(* The sweep: a new table gets the nodes of the old one. *)
Copy(t) == Filled(Nodes(t))

-----------------------------------------------------------------------------

Init ==
  /\ dict = Table(0)
  /\ content \in [Lists \cup Strings -> Content]

(* A dictionary literal, or d[k] = v *)
Put(k, v) ==
  /\ dict.count < MaxCount
  /\ dict' = Add(dict, k, v)
  /\ UNCHANGED content

(* append(), remove(), insert(), or an assignment to an item of the key *)
Mutate(k, c) ==
  /\ content' = [content EXCEPT ![k] = c]
  /\ UNCHANGED dict

(* eval_collect_garbage, when the dictionary survives *)
Collected == dict' = Copy(dict) /\ UNCHANGED content

Next ==
  \/ \E k \in Key, v \in Value : Put(k, v)
  \/ \E k \in Mutated, c \in Content : Mutate(k, c)
  \/ Collected

Spec == Init /\ [][Next]_vars

-----------------------------------------------------------------------------

TypeOK ==
  /\ dict.capacity \in Nat /\ dict.arr \in [0 .. dict.capacity - 1 -> Seq(Node)]
  /\ dict.count = Len(Nodes(dict))
  /\ dict.count <= 2 * dict.capacity
  /\ content \in [Lists \cup Strings -> Content]

(* Keys whose hash stays what it was when they were added, and that no key *)
(* with a changing hash can become equal to                                *)
Steady == Key \ (IF Mutated \cap Strings = {} THEN {} ELSE Strings)

(* A key in the table is where its hash says, and so can be found, through  *)
(* every rehash and every collection, and even after the program has        *)
(* changed a list that is a key.  (A string that is a key and is changed    *)
(* is not found any more.)                                                  *)
StoredIsFound ==
  \A i \in 0 .. dict.capacity - 1 : \A j \in 1 .. Len(dict.arr[i]) :
    LET k == dict.arr[i][j].key
    IN  k \in Steady => Hash(k) % dict.capacity = i /\ Get(dict, k) # Missing

Map == INSTANCE KeyMap WITH
         class <- [k \in Key |-> Class(k)],
         m     <- [k \in Key |-> Get(dict, k)]

(* While keys do not change the table is a map: a lookup gives the value   *)
(* added last for an equal key, whatever chains, rehashes and collections  *)
(* there were in between.  (Zeros are excluded by the runs: hashed by their*)
(* bits, they are one key in a small table and two in a large one.)        *)
IsMap == Map!Spec

(* A collection is invisible: it changes the answer to no lookup.  Holds   *)
(* while keys do not change (of two keys that have become equal the one    *)
(* added first gets the upper hand).                                       *)
CollectInvisible ==
  [][Collected => \A k \in Key : Get(dict', k) = Get(dict, k)]_vars

(* A collection loses no key that could be found, and finds none that could *)
(* not, whatever the program did to its lists.                              *)
CollectKeepsKeys ==
  [][Collected => \A k \in Steady \ Zeros :
       (Get(dict', k) = Missing) = (Get(dict, k) = Missing)]_vars

(* After a collection every key in the table can be found, also a string   *)
(* that was changed and could not be found before.                         *)
CollectRepairs ==
  [][Collected => \A i \in 1 .. Len(Nodes(dict')) : Get(dict', Nodes(dict')[i].key) # Missing]_vars
=============================================================================
