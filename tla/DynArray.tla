------------------------------ MODULE DynArray ------------------------------
(***************************************************************************)
(* Lists in memory: the dynamic array of 3dparty/cplus.h with its items in *)
(* an arena, under the operations that eval.c and stdlib.c do on lists.    *)
(*                                                                         *)
(* All lists grow from the arenas of the collector, gc.from and gc.to.  A  *)
(* list keeps a pointer to one of the two structs, and the structs swap the*)
(* memories "A" and "B" at the end of a collection.  The assertions of the *)
(* header are compiled out.  A call that touches memory which is no item of*)
(* the list has no step: what it does is undefined.  Where there are such  *)
(* calls is what the property Inside says.                                 *)
(***************************************************************************)
EXTENDS Arena, FiniteSetsExt, Functions

CONSTANTS
  N,               \* the lists are 1..N, in the order of gc.objs
  Value, Marked,   \* what the lists hold
  CP_DA_INIT_CAP,
  MaxLen,          \* bound: items of a list
  MaxBlocks        \* bound: blocks of an arena

List == 1..N

ASSUME ListAssumption ==
  /\ N \in Nat /\ Marked \in Value /\ CP_DA_INIT_CAP \in Nat \ {0} /\ Junk \notin Value
  /\ MaxLen \in Nat

VARIABLES
  mem,     \* the arenas with their memory
  owner,   \* the memory of gc.from and gc.to
  list     \* the lists: items (ptr), count, capacity (cap), arena

vars == <<mem, owner, list>>

NewList(struct) == [ptr |-> Nowhere, count |-> 0, cap |-> 0, arena |-> struct]

Contents(m, d) == [k \in 1..d.count |-> Read(m[d.ptr.mem], d.ptr, k - 1)]
Items(l) == Contents(mem, list[l])

-----------------------------------------------------------------------------
(* da_reserve, da_append_many                                              *)

\* What da_reserve doubles cap to, in as many turns of its loop.
Doublings(cap, n) ==
  LET twice[turn \in 0..n] == IF turn = 0 THEN IF cap = 0 THEN CP_DA_INIT_CAP ELSE cap
                              ELSE 2 * twice[turn - 1]
  IN  twice
Doubled(cap, n) ==
  LET caps == Doublings(cap, n) IN caps[Min({turn \in 0..n : n <= caps[turn]})]

\* slip: a full list is taken to have room for one more.
CapacityLate(cap, n) == IF n <= cap + 1 /\ cap # 0 THEN cap ELSE Doubled(cap, n)

Capacity(cap, n) == IF n <= cap THEN cap ELSE Doubled(cap, n)

\* The memory after list d has moved away or is no more.
Left(m, d) == IF d.ptr = Nowhere THEN m
              ELSE [m EXCEPT ![d.ptr.mem] = Lose(@, d.ptr, d.cap)]

\* The memory and list d after da_reserve(&d, n).
Reserve(m, d, n) ==
  LET to  == owner[d.arena]
      cap == Capacity(d.cap, n)
      a   == IF d.ptr = Nowhere THEN Alloc(m[to], cap) ELSE Realloc(m[to], d.ptr, d.cap, cap)
      new == [m EXCEPT ![to] = Write(a, a.ptr, 0, Contents(m, d))]
  IN  IF cap = d.cap THEN [m |-> m, d |-> d]
      ELSE [m |-> IF a.ptr = d.ptr THEN [m EXCEPT ![to] = a] ELSE Left(new, d),
            d |-> [d EXCEPT !.ptr = a.ptr, !.cap = cap]]

AppendMany(m, d, s) ==
  LET r == Reserve(m, d, d.count + Len(s))
  IN  IF s = <<>> THEN r
      ELSE [m |-> [r.m EXCEPT ![r.d.ptr.mem] = Write(@, r.d.ptr, d.count, s)],
            d |-> [r.d EXCEPT !.count = @ + Len(s)]]

-----------------------------------------------------------------------------
(* Operations.  The places one writes have to be items of the list in its  *)
(* memory.                                                                 *)

Holds(m, d, places) == \A k \in places :
  k \in 0..d.count - 1 /\ d.count <= d.cap /\ Has(m[d.ptr.mem], d.ptr, k)

Room(m) == \A name \in DOMAIN m : Len(m[name].blocks) <= MaxBlocks

Does(l, m, d) == /\ Room(m) /\ mem' = m /\ list' = [list EXCEPT ![l] = d]
                 /\ UNCHANGED owner

WriteItems(m, d, from, s) == [m EXCEPT ![d.ptr.mem] = Write(@, d.ptr, from, s)]

\* append() (stdlib.c:199) and the list literal.
AppendStays(l) ==
  LET r == AppendMany(mem, list[l], <<Junk>>) IN Holds(r.m, r.d, {list[l].count})
AppendTo(l, v) ==
  LET r == AppendMany(mem, list[l], <<v>>)
  IN  list[l].count < MaxLen /\ AppendStays(l) /\ Does(l, r.m, r.d)

\* insert(): da_insert with any index.
Widened(l) == LET r == Reserve(mem, list[l], list[l].count + 1)
              IN  [r EXCEPT !.d.count = @ + 1]
InsertStays(l, i) == Holds(Widened(l).m, Widened(l).d, {i} \cup i..list[l].count)
Insert(l, i, v) ==
  LET r == Widened(l)
      s == <<v>> \o SubSeq(Items(l), i + 1, list[l].count)
  IN  list[l].count < MaxLen /\ InsertStays(l, i) /\ Does(l, WriteItems(r.m, r.d, i, s), r.d)

\* remove(): da_remove_ordered with any index.  It moves one item too many,
\* which only has to be in the memory of the block: the count leaves it out.
RemoveStays(l, i) ==
  LET d == list[l] IN Holds(mem, d, {i}) /\ Has(mem[d.ptr.mem], d.ptr, d.count)
Remove(l, i) ==
  LET d == list[l]
      s == [k \in 1..d.count - i |-> Read(mem[d.ptr.mem], d.ptr, i + k)]
  IN  RemoveStays(l, i) /\ Does(l, WriteItems(mem, d, i, s), [d EXCEPT !.count = @ - 1])

\* list[i] = v, with the range check of eval.c:477.
Permitted(l, i) == i >= 0 /\ i <= list[l].count
AssignStays(l, i) == Holds(mem, list[l], {i})
Assign(l, i, v) == /\ Permitted(l, i) /\ AssignStays(l, i)
                   /\ Does(l, WriteItems(mem, list[l], i, <<v>>), list[l])

\* l = j + k: a new list.
Joined(j, k) == LET r == AppendMany(mem, NewList("from"), Items(j))
                IN  AppendMany(r.m, r.d, Contents(r.m, list[k]))
ConcatStays(j, k) == LET r == Joined(j, k) IN Holds(r.m, r.d, 0..r.d.count - 1)
Concat(l, j, k) ==
  LET r == Joined(j, k)
  IN  /\ list[l].ptr = Nowhere /\ list[j].count + list[k].count <= MaxLen
      /\ ConcatStays(j, k) /\ Does(l, r.m, r.d)

-----------------------------------------------------------------------------
(* eval_collect_garbage: the lists that are live are copied to gc.to.      *)

\* Of list k, when those before it have been copied: the lists and their memory.
CopyNext(live, k, done) ==
  LET r == AppendMany(done.m, NewList("to"), Contents(done.m, list[k]))
  IN  IF k \in live
      THEN [m |-> Left(r.m, list[k]), list |-> [done.list EXCEPT ![k] = r.d]]
      ELSE [m |-> Left(done.m, list[k]), list |-> [done.list EXCEPT ![k] = NewList("from")]]

Copied(live) ==
  LET upTo[k \in 0..N] == IF k = 0 THEN [m |-> mem, list |-> list]
                          ELSE CopyNext(live, k, upTo[k - 1])
  IN  upTo[N]

\* slip: the memories are swapped first, and the new one is reset.
CollectSwapsFirst(live) ==
  LET c == Copied(live)
  IN  /\ Room(c.m) /\ list' = c.list
      /\ mem' = [c.m EXCEPT ![owner["to"]] = Reset(@)]
      /\ owner' = [from |-> owner["to"], to |-> owner["from"]]

Collect(live) ==
  LET c == Copied(live)
  IN  /\ Room(c.m) /\ list' = c.list
      /\ mem' = [c.m EXCEPT ![owner["from"]] = Reset(@)]
      /\ owner' = [from |-> owner["to"], to |-> owner["from"]]

-----------------------------------------------------------------------------
Init == /\ mem = [name \in {"A", "B"} |-> ArenaOf(name)]
        /\ owner = [from |-> "A", to |-> "B"]
        /\ list = [l \in List |-> NewList("from")]

Index == -1..MaxLen + 1

\* No operation looks at a value: following one marked item shows where each of
\* them goes.
Fresh == IF \E l \in List : Marked \in Range(Items(l)) THEN Value \ {Marked} ELSE Value

Next ==
  \/ \E l \in List :
       \/ \E v \in Fresh : \/ AppendTo(l, v)
                          \/ \E i \in Index : Insert(l, i, v) \/ Assign(l, i, v)
       \/ \E i \in Index : Remove(l, i)
       \/ \E j, k \in List : Concat(l, j, k)
  \/ \E live \in SUBSET List : Collect(live)

Spec == Init /\ [][Next]_vars

-----------------------------------------------------------------------------
\* The memory of a list lies in the part of a block that is given out, and no
\* two lists share memory: through growth in place, moves to new blocks,
\* collections, and growth from the arena that was reset last.
Region(l) == {<<list[l].ptr.mem, list[l].ptr.block, list[l].ptr.off + k>> : k \in 0..list[l].cap - 1}
Apart ==
  /\ \A l \in List : \A p \in Region(l) :
       /\ p[2] \in DOMAIN mem[p[1]].blocks
       /\ p[3] < mem[p[1]].blocks[p[2]].count
       /\ p[3] \in DOMAIN mem[p[1]].blocks[p[2]].cells
  /\ \A l, m \in List : l # m => Region(l) \cap Region(m) = {}

\* Memory that is no item of the list is touched by three calls only: the
\* assignment to the item behind the last (eval.c:477), insert() and remove()
\* with an index out of range (stdlib.c:225, 288), and remove() from a list
\* that is full at the end of its block (cplus.h:289).
AtBlockEnd(d) == d.count = d.cap /\ ~Has(mem[d.ptr.mem], d.ptr, d.count)
Inside == \A l \in List :
  LET n == list[l].count
  IN  /\ AppendStays(l) /\ \A k \in List : ConcatStays(l, k)
      /\ \A i \in Index : Permitted(l, i) => (AssignStays(l, i) <=> i # n)
      /\ \A i \in Index : InsertStays(l, i) <=> i \in 0..n
      /\ \A i \in Index : RemoveStays(l, i) <=> i \in 0..n - 1 /\ ~AtBlockEnd(list[l])

\* As long as none of those calls is made each list is a sequence of its own.
Store == INSTANCE SeqStore WITH seq <- [l \in List |-> Items(l)]
Keeps == Store!Spec
=============================================================================
