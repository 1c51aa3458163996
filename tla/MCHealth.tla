------------------------------- MODULE MCHealth -------------------------------
(* Instances of Health: the checkers of the package, each with the statuses    *)
(* its component can put it in.                                               *)
EXTENDS Health

McReadings == [n \in Names |->
  CASE n = "basic" -> {"healthy"}
    [] n = "database" -> {"healthy", "unhealthy"}
    [] n = "memory" -> {MemoryStatus(10, mb) : mb \in {8, 9, 11}}
    [] n = "composite" -> {CompositeStatus(r) : r \in {<<"unknown">>, <<"unknown", "healthy">>}}]
McLiveness == <<"basic">>
McReadiness == <<"database", "basic">> \* health.New
McComposite == <<"composite">>

(* The database checker registered while requests are served, or replaced.     *)
McUses == {
  [early |-> {"basic"}, replaced |-> {}, kinds |-> {"ready", "detailed"}],
  [early |-> {"basic", "database"}, replaced |-> {"database"}, kinds |-> {"ready"}]}
McCompositeUse == {[early |-> {"composite"}, replaced |-> {}, kinds |-> {"ready"}]}
McSymmetry == Permutations(Probes)

(* performChecks and GetDetailedHealth agree on what any results amount to,    *)
(* in any order, except on results that are all unknown.                      *)
ASSUME \A n \in 1..4 : \A r \in [1..n -> Named] :
  LET detailed == DetailedStatus(Range(r))
  IN Overall(r) = IF detailed = "unknown" THEN Unset ELSE detailed
=============================================================================
