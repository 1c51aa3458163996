---------------------------- MODULE HealthStatus ----------------------------
(***************************************************************************)
(* How package health combines statuses: the loops of performChecks,       *)
(* CompositeChecker.Check and GetDetailedHealth, the memory threshold, and *)
(* the HTTP code of a reply.                                               *)
(***************************************************************************)
EXTENDS Naturals, Sequences, SequencesExt

Unset == "" \* the zero value of HealthStatus
Named == {"healthy", "unhealthy", "degraded", "unknown"}
Statuses == Named \cup {Unset}

(* The switch in performChecks and CompositeChecker.Check: an unknown      *)
(* result, like an unset one, leaves the overall status alone.             *)
Combine(overall, status) ==
  CASE status = "unhealthy" -> "unhealthy"
    [] status = "degraded" /\ overall # "unhealthy" -> "degraded"
    [] status = "healthy" /\ overall = Unset -> "healthy"
    [] OTHER -> overall

Overall(results) == FoldLeft(Combine, Unset, results)

CompositeStatus(results) == IF results = <<>> THEN "unknown" ELSE Overall(results)

(* GetDetailedHealth decides from which of its counters are not zero. *)
DetailedStatus(found) ==
  LET some(s) == s \in found
  IN CASE some("unhealthy") -> "unhealthy"
       [] ~some("unhealthy") /\ some("degraded") -> "degraded"
       [] ~some("unhealthy") /\ ~some("degraded") /\ some("healthy") -> "healthy"
       [] OTHER -> "unknown"

MemoryStatus(max, mb) ==
  CASE max > 0 /\ mb > max -> "unhealthy"
    [] max > 0 /\ mb <= max /\ mb > (max * 8) \div 10 -> "degraded"
    [] OTHER -> "healthy"

HttpCode(status) == IF status = "unhealthy" THEN 503 ELSE 200
=============================================================================
