------------------------------- MODULE MCIngest -------------------------------
(***************************************************************************)
(* Small instances of Ingest for TLC.                                      *)
(***************************************************************************)
EXTENDS Ingest, TLC

CONSTANTS broken, e1, e2, s1, refused, r1, r2

(* The producers' dates: the document that cannot be read is the second.   *)
Dates == [e \in Events |-> CASE e = e1 -> 1 [] e = broken -> 2 [] OTHER -> 3]

(* Replicas are alike; used by the runs that check safety only.            *)
Symmetry == Permutations(Replicas)

===============================================================================
