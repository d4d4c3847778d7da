----------------------------- MODULE SeqStore -------------------------------
(***************************************************************************)
(* What the lists of the language promise a program that keeps to their    *)
(* bounds: each of them is a sequence of its own.                          *)
(***************************************************************************)
EXTENDS Integers, SequencesExt

CONSTANTS List, Value

VARIABLE seq

Put(l, s) == seq' = [seq EXCEPT ![l] = s]

Init == seq = [l \in List |-> <<>>]

Next ==
  \/ \E l \in List :
       \/ \E v \in Value :
            \/ Put(l, Append(seq[l], v))
            \/ \E i \in 1..Len(seq[l]) + 1 : Put(l, InsertAt(seq[l], i, v))
            \/ \E i \in 1..Len(seq[l]) : Put(l, [seq[l] EXCEPT ![i] = v])
       \/ \E i \in 1..Len(seq[l]) : Put(l, RemoveAt(seq[l], i))
       \/ seq[l] = <<>> /\ \E m, n \in List : Put(l, seq[m] \o seq[n])
  \/ \E live \in SUBSET List :     \* the others are collected
       seq' = [k \in List |-> IF k \in live THEN seq[k] ELSE <<>>]

Spec == Init /\ [][Next]_seq
=============================================================================
