---------------------------- MODULE MCRubricDesk ----------------------------
(* A small instance of RubricDesk for TLC.                                 *)
EXTENDS RubricDesk

(* A provider with one profiled model and another one; changes of the      *)
(* endpoint, of the models alone (refused while the rest does not fit) and *)
(* of fields outside the connection.                                       *)
MCCreated == {[endpoint |-> "e1", allowed |-> {"m1", "m2"}, default |-> "m1",
               profiles |-> {"m1"}]}
MCPatches == {[endpoint |-> "e2"], [default |-> "m2"], [allowed |-> {"m2"}],
              [profiles |-> {"m1", "m2"}], [limits |-> "changed"]}

MCForms == {[total |-> 2, step |-> 1]}

Band(a, b) == [min |-> a, max |-> b]
Dimension(id, max, bands) == [id |-> id, name |-> id, max |-> max, bands |-> bands]
Sheet(total, dimensions, deductions) ==
  [total |-> total, step |-> 1, dimensions |-> dimensions, deductions |-> deductions]
Late == [id |-> "late", name |-> "late", points |-> 1]

(* Two good rubrics, one whose bands overlap, one worth too much, one made *)
(* for another total, and one that names a deduction twice.                *)
MCContent(name) ==
  CASE name = "two" -> Sheet(2, <<Dimension("d1", 1, <<Band(0, 0), Band(1, 1)>>),
                                  Dimension("d2", 1, <<Band(0, 1)>>)>>, <<Late>>)
    [] name = "one" -> Sheet(2, <<Dimension("d1", 2, <<Band(0, 1), Band(2, 2)>>)>>, <<>>)
    [] name = "overlap" -> Sheet(2, <<Dimension("d1", 2, <<Band(0, 1), Band(1, 2)>>)>>, <<>>)
    [] name = "too much" -> Sheet(2, <<Dimension("d1", 2, <<Band(0, 2)>>),
                                       Dimension("d2", 1, <<Band(0, 1)>>)>>, <<>>)
    [] name = "other total" -> Sheet(1, <<Dimension("d1", 1, <<Band(0, 1)>>)>>, <<>>)
    [] name = "twice" -> Sheet(2, <<Dimension("d1", 2, <<Band(0, 2)>>)>>, <<Late, Late>>)

MCModelLists == {[status |-> 200, models |-> {"m1", "m2"}],
                 [status |-> 200, models |-> {"m1"}],
                 [status |-> 429, models |-> {}]}

Usage(completion) == [given |-> TRUE, prompt |-> 2, completion |-> completion,
                      total |-> 3, cached |-> TRUE, hit |-> 1, miss |-> 1]
Completion(status, finish, usage, rubric) ==
  [status |-> status, model |-> "m1", finish |-> finish, usage |-> usage,
   rubric |-> rubric]
MCCompletions ==
  {Completion(200, "stop", Usage(1), r) : r \in Rubrics \ {"two"}}
  \cup {Completion(200, "length", Usage(1), "one"),
        Completion(200, "stop", Usage(2), "two"),
        Completion(503, "stop", Usage(1), "two")}

DeskSymmetry == Permutations(Desks)
=============================================================================
