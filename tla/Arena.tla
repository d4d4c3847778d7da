------------------------------- MODULE Arena --------------------------------
(***************************************************************************)
(* The arena allocator of 3dparty/cplus.h: arena_alloc, arena_realloc and  *)
(* arena_reset, as functions of an arena.                                  *)
(*                                                                         *)
(* An arena owns the blocks that can be reached from "first" by "next";    *)
(* "last" is the one that is filled.  Sizes are counted in items, whose    *)
(* size is a multiple of the alignment.  "ptr" is last_ptr, what was given *)
(* out last; last_sz is never read.                                        *)
(***************************************************************************)
EXTENDS Integers, Sequences

CONSTANTS
  CP_ARENA_INIT_CAP,
  Junk               \* what memory holds before it is written

ASSUME ArenaAssumption == CP_ARENA_INIT_CAP \in Nat \ {0}

Nowhere == [mem |-> "none", block |-> 0, off |-> 0]      \* NULL

ArenaOf(name) == [mem |-> name, blocks |-> <<>>, last |-> 0, ptr |-> Nowhere]

Larger(m, n) == IF m > n THEN m ELSE n

LastBlock(a) == a.blocks[a.last]
Free(a) == LastBlock(a).cap - LastBlock(a).count

Block(cap) == [cap |-> cap, count |-> 0, cells |-> [k \in 0..cap - 1 |-> Junk]]

\* a->last->next = newb; a->last = newb: blocks that followed a->last, which
\* arena_reset has left there, are lost.
NewBlock(a, cap) ==
  [a EXCEPT !.blocks = Append(SubSeq(@, 1, a.last), Block(cap)), !.last = @ + 1]

\* The next "size" items of the block that is filled.
Take(a, size) ==
  [a EXCEPT !.blocks[a.last].count = @ + size,
            !.ptr = [mem |-> a.mem, block |-> a.last, off |-> LastBlock(a).count]]

\* What is given out is the ptr of the result, here and below.
Alloc(a, size) ==
  Take(IF a.blocks = <<>> THEN NewBlock(a, Larger(CP_ARENA_INIT_CAP, size))
       ELSE IF Free(a) < size
       THEN NewBlock(a, Larger(2 * LastBlock(a).cap, size))
       ELSE a,
       size)

\* slip: what grows is taken for the last that was given out.
ReallocAny(a, ptr, old, size) ==
  IF a.blocks # <<>> /\ size - old <= Free(a)
  THEN [a EXCEPT !.blocks[a.last].count = @ + size - old, !.ptr = ptr]
  ELSE Alloc(a, size)

\* What was given out last grows where it is, or gives its place back and moves
\* to a new block; anything else gets new memory and leaves the old one unused.
Realloc(a, ptr, old, size) ==
  IF ptr # a.ptr THEN Alloc(a, size)
  ELSE IF size - old <= Free(a)
  THEN [a EXCEPT !.blocks[a.last].count = @ + size - old]
  ELSE Take(NewBlock([a EXCEPT !.blocks[a.last].count = @ - old],
                     Larger(2 * LastBlock(a).cap, size)),
            size)

\* Blocks are kept, to be filled again from the first; what is in them is lost.
Emptied(b) == [b EXCEPT !.count = 0, !.cells = [k \in DOMAIN @ |-> Junk]]
Reset(a) ==
  [a EXCEPT !.blocks = [b \in DOMAIN @ |-> Emptied(@[b])],
            !.last = IF a.blocks = <<>> THEN 0 ELSE 1,
            !.ptr = Nowhere]

Has(a, ptr, k) == ptr.off + k \in DOMAIN a.blocks[ptr.block].cells
Read(a, ptr, k) == a.blocks[ptr.block].cells[ptr.off + k]

\* memmove: s is written to the items from ptr + from on.
Write(a, ptr, from, s) ==
  IF s = <<>> THEN a
  ELSE [a EXCEPT !.blocks[ptr.block].cells =
          [k \in DOMAIN @ |-> IF k - ptr.off - from \in 0..Len(s) - 1
                              THEN s[k - ptr.off - from + 1] ELSE @[k]]]

\* What its owner has moved away from is taken for lost.
Lose(a, ptr, size) == Write(a, ptr, 0, [k \in 1..size |-> Junk])
=============================================================================
