------------------------------- MODULE KeyMap -------------------------------
(***************************************************************************)
(* What a dictionary promises: a map from keys to values in which equal    *)
(* keys are one key.                                                       *)
(***************************************************************************)
CONSTANTS Key, Value, Missing

VARIABLES
  class,    \* keys are equal when they have the same class
  m         \* the value of every key, or Missing

TypeOK ==
  /\ DOMAIN class = Key
  /\ m \in [Key -> Value \cup {Missing}]

Put(k, v) ==
  /\ m' = [q \in Key |-> IF class[q] = class[k] THEN v ELSE m[q]]
  /\ UNCHANGED class

Init == DOMAIN class = Key /\ m = [k \in Key |-> Missing]
Next == \E k \in Key, v \in Value : Put(k, v)
Spec == Init /\ [][Next]_<<class, m>>
=============================================================================
