----------------------------- MODULE MCValDict ------------------------------
(* Instances of ValDict for TLC.  The hashes are small and collide: "a"    *)
(* and "c" share a bucket of a table of 1 or 3 buckets, all plain keys one *)
(* of a table of 1; the zeros share a bucket of 1 and not one of 3, as the *)
(* hashes of 0.0 and -0.0 share one of 128 and not one of 384.             *)
EXTENDS ValDict

Hashes == [k \in Plain \cup Zeros |->
             CASE k = "a" -> 0 [] k = "b" -> 1 [] k = "c" -> 3
               [] k = "pz" -> 5 [] k = "nz" -> 7 [] OTHER -> 2]

ContentHashes == [c \in Content |-> IF c = "empty" THEN 0 ELSE 4]
=============================================================================
