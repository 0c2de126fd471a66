---------------------------- MODULE MCExperiment ----------------------------
(***************************************************************************)
(* Instances of Experiment: samples of growing and of shrinking networks,  *)
(* and one of the largest network Topology is checked on.                  *)
(***************************************************************************)
EXTENDS Experiment

MCPlans == {<< <<4, 2>> >>, << <<3, 1>>, <<3, 2>>, <<4, 1>>, <<3, 1>> >>}

MCArguments == UNION {{plan_[i] : i \in DOMAIN plan_} : plan_ \in MCPlans}
=============================================================================
