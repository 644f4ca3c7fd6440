--------------------------- MODULE MCGreyRelease ----------------------------
(* Instances of GreyRelease: two admins with one thread each.                *)
EXTENDS GreyRelease, TLC

CONSTANTS w1, w2, a1, a2

HomeOfWorkers == (w1 :> a1) @@ (w2 :> a2)

\* What tasks are created: with a bastion batch (number 0) or without.
Manual  == {[auto |-> FALSE, first |-> 1]}
Bastion == {[auto |-> FALSE, first |-> 0]}
Auto    == {[auto |-> TRUE, first |-> 1]}
AutoAndBastion == Auto \cup Bastion

(* Files are interchangeable, and so are tasks; the two threads are when their  *)
(* admins change places with them.                                            *)
Swap == [x \in Workers \cup Admins |->
           CASE x = w1 -> w2 [] x = w2 -> w1 [] x = a1 -> a2 [] OTHER -> a1]
Same == [x \in Workers \cup Admins |-> x]
Sym  == {files @@ tasks @@ admins : files \in Permutations(Files),
                                    tasks \in Permutations(Uuids),
                                    admins \in {Same, Swap}}
=============================================================================
