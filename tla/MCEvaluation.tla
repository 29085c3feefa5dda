---------------------------- MODULE MCEvaluation ----------------------------
(* Instances of Evaluation for TLC. *)
EXTENDS Evaluation

\* The book in its order, and what a model may name after a merge.
Asked == {[caller |-> "book", asked |-> <<0, 1>>]} \cup
         [caller : {"merge"}, asked : {<<0, 1>>, <<1, 0>>}]

\* The later declaration uses the earlier one.
OneUse == {[known |-> {"definition", "lemma"}, uses |-> {<<"lemma", "definition">>}]}
=============================================================================
