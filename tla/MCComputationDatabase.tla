------------------------- MODULE MCComputationDatabase -------------------------
(* Small instances of ComputationDatabase for TLC.                         *)
EXTENDS ComputationDatabase

CONSTANTS i1, i2, q1, q2, q3, v1, v2

Provider(first, when1, when2, out1, out2) ==
    [first |-> first,
     branch |-> (v1 :> when1 @@ v2 :> when2),
     out |-> (v1 :> out1 @@ v2 :> out2)]

\* Two queries that read whatever they like, each other and themselves included, over one
\* that may make equal results of different inputs, or fail.
SmallPrograms ==
    {(q1 :> Provider(f1, t1, None, v1, v2) @@
      q2 :> Provider(f2, t2, None, v1, v2) @@
      q3 :> Provider(i1, None, i2, v1, o3)) :
        f1 \in {i2, q2, q3}, t1 \in {None, q2, q3}, f2 \in {i1, q3}, t2 \in {None, i2, q1, q2},
        o3 \in {v1, v2, "fails"}}
=============================================================================
