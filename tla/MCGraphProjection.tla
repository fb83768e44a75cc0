--------------------------- MODULE MCGraphProjection ---------------------------
(* Instances of GraphProjection for TLC. *)
EXTENDS GraphProjection, TLC

Idea == [type |-> "idea.seeded", p |-> [id |-> <<"idea">>]]
Build == [type |-> "build.started", p |-> [id |-> <<"build">>, idea_id |-> <<"idea">>]]
Task == [type |-> "task.created", p |-> [id |-> <<"task">>, subject_id |-> <<"idea">>]]
Run == [type |-> "process.run.started", p |-> [id |-> <<"run">>, input_ids |-> <<"idea">>]]

FourEvents == {Idea, Build, Task, Run}

JobSymmetry == Permutations(Jobs)
=============================================================================
