---- MODULE MCTensorOwnership ----
(* Two entry points with one or two outputs each.  The values: two          *)
(* arguments, a constant, two allocations, views of each kind and two       *)
(* selects, one of which can be a constant or allocated memory.             *)
EXTENDS TensorOwnership, FiniteSets

MCValues == {"arg", "arg2", "cst", "m1", "m2", "varg", "vm1", "sel", "mix", "vmix"}
MCSource == [v \in {"varg", "vm1", "vmix"} |->
  CASE v = "varg" -> "arg" [] v = "vm1" -> "m1" [] v = "vmix" -> "mix"]
MCBranches == [v \in {"sel", "mix"} |->
  IF v = "sel" THEN {"vm1", "m2"} ELSE {"m2", "cst"}]
MCRoots == [v \in MCValues |->
  CASE v \in {"arg", "varg"} -> {"arg"} [] v \in {"arg2", "cst", "m2"} -> {v}
    [] v \in {"m1", "vm1"} -> {"m1"}
    [] v = "sel" -> {"m1", "m2"} [] v \in {"mix", "vmix"} -> {"m2", "cst"}]

Returned == {<<v>> : v \in MCValues} \cup {<<v, w>> : v, w \in MCValues \ {"arg2"}}
(* Every first entry function; a second one that is the same or short. *)
MCPrograms == {p \in [{"first", "second"} -> Returned] :
                 p["second"] \in {p["first"], <<"cst">>, <<"m1", "vm1">>}}
====
