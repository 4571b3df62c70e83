---------------------------- MODULE MCSSCSensor ----------------------------
(* Small instances of SSCSensor for TLC. *)
EXTENDS SSCSensor

\* Each of the ways the firmware's attributes can decide an open.
AllAttributes ==
    {[available |-> "no",  stream |-> "on_change",  rate |-> "absent"],
     [available |-> "yes", stream |-> "continuous", rate |-> "absent"],
     [available |-> "yes", stream |-> "continuous", rate |-> "positive"],
     [available |-> "yes", stream |-> "on_change",  rate |-> "absent"],
     [available |-> "yes", stream |-> "other",      rate |-> "positive"],
     [available |-> "yes", stream |-> "absent",     rate |-> "positive"],
     [available |-> "absent", stream |-> "on_change", rate |-> "positive"]}

\* A sensor that works.
GoodAttributes == {[available |-> "yes", stream |-> "on_change", rate |-> "absent"]}

============================================================================
