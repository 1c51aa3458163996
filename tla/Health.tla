-------------------------------- MODULE Health --------------------------------
(***************************************************************************)
(* health.Manager under concurrent probes.  A probe runs its checks one    *)
(* after the other; each looks in the cache, finds the checker, runs it    *)
(* and writes the cache, under a separate lock (or none) each time, so     *)
(* probes and registrations interleave between those steps.                *)
(*                                                                         *)
(* A result is stamped before the cache lock is taken: a slow probe may    *)
(* put an older result over a newer one.  A database ping that the client  *)
(* of one probe cancels, or that times out, is cached as unhealthy for     *)
(* every other probe.                                                      *)
(***************************************************************************)
EXTENDS HealthStatus, Integers, FiniteSets

CONSTANTS
  Probes,        \* goroutines serving health requests
  Names,         \* checker names
  Uses,          \* the ways a service may use the Manager
  Readings,      \* the statuses each checker's component can be in
  UsesContext,   \* names whose checker gives up when its context is done
  Liveness, Readiness, \* HealthCheckConfig.LivenessChecks and ReadinessChecks
  Caching,       \* HealthCheckConfig.EnableCaching
  CacheDuration, \* ticks
  CheckTime,     \* ticks: the longest a single check takes
  MaxClock       \* bound: the clock stops there

(* Of a use: the names registered before requests are served, those whose  *)
(* checker may be replaced (once), and the requests made.                  *)
Kinds == {"live", "ready", "detailed"}
UseType == [early : SUBSET Names, replaced : SUBSET Names, kinds : SUBSET Kinds]

ASSUME NamesAssumption ==
  /\ IsFiniteSet(Names)
  /\ Uses \subseteq UseType
  /\ Readings \in [Names -> SUBSET Statuses]
ASSUME ListsAssumption == Liveness \in Seq(Names) /\ Readiness \in Seq(Names)
ASSUME TimesAssumption ==
  CacheDuration \in Nat /\ CheckTime \in Nat \ {0} /\ MaxClock \in Nat

VARIABLES
  use,        \* one of Uses, fixed
  clock,
  reading,    \* environment: the status of each component now
  registered, \* Manager.checkers
  cache,      \* Manager.cache: what was stored per name, if anything
  pc,         \* where each probe is
  kind,       \* which of GetLiveness, GetReadiness, GetDetailedHealth it runs
  start,      \* when it started
  todo,       \* names it has not checked yet, the current one first
  overall,    \* what the results it has collected amount to in performChecks
  found,      \* the statuses GetDetailedHealth has counted among them
  began,      \* when its current check began
  fresh,      \* the result of its current check: status and stamp
  reply,      \* the overall status of the last answer, cleared when a probe begins
  known,      \* history: the names registered when the probe began
  replacedAt, \* history: when the checker of each name was replaced
  lastFine,   \* history: last tick each component was not unhealthy or degraded
  lastBad     \* history: last tick it was unhealthy, or a check of it was cut short

probeVars == <<pc, kind, start, todo, overall, found, began, fresh, reply,
              known>>
managerVars == <<registered, cache>>
worldVars == <<use, clock, reading, lastFine, lastBad, replacedAt>>
vars == <<probeVars, managerVars, worldVars>>

Fine(status) == status \notin {"unhealthy", "degraded"}
Window == CacheDuration + CheckTime
LongAgo == -Window \* older than any window that starts at the first tick

(* old marks, as history, the result of a checker replaced since.          *)
Results == [status : Statuses, at : 0..MaxClock, old : BOOLEAN]
NoResult == [status |-> Unset, at |-> 0, old |-> FALSE]
NotCached == [status |-> "none", at |-> 0, old |-> FALSE]

TypeOK ==
  /\ use \in Uses
  /\ clock \in 0..MaxClock
  /\ reading \in [Names -> Statuses]
  /\ registered \subseteq Names
  /\ cache \in [Names -> Results \cup {NotCached}]
  /\ pc \in [Probes -> {"idle", "look", "check", "stamp", "store"}]
  /\ kind \in [Probes -> Kinds \cup {"none"}]
  /\ start \in [Probes -> 0..MaxClock]
  /\ todo \in [Probes -> Seq(Names)]
  /\ overall \in [Probes -> Statuses]
  /\ found \in [Probes -> SUBSET Statuses]
  /\ began \in [Probes -> 0..MaxClock]
  /\ fresh \in [Probes -> Results]
  /\ reply \in Statuses \cup {"none"}
  /\ known \in [Probes -> SUBSET registered]

Init ==
  /\ use \in Uses
  /\ clock = 0
  /\ reading \in {f \in [Names -> Statuses] : \A n \in Names : f[n] \in Readings[n]}
  /\ registered = use.early
  /\ cache = [n \in Names |-> NotCached]
  /\ pc = [p \in Probes |-> "idle"]
  /\ kind = [p \in Probes |-> "none"]
  /\ start = [p \in Probes |-> 0]
  /\ todo = [p \in Probes |-> <<>>]
  /\ overall = [p \in Probes |-> Unset]
  /\ found = [p \in Probes |-> {}]
  /\ began = [p \in Probes |-> 0]
  /\ fresh = [p \in Probes |-> NoResult]
  /\ reply = "none"
  /\ known = [p \in Probes |-> {}]
  /\ replacedAt = [n \in Names |-> LongAgo]
  /\ lastFine = [n \in Names |-> IF Fine(reading[n]) THEN 0 ELSE LongAgo]
  /\ lastBad = [n \in Names |-> IF reading[n] = "unhealthy" THEN 0 ELSE LongAgo]

-----------------------------------------------------------------------------
(* The world. *)

(* Checks, with the stamping of their results, take at most CheckTime.  A  *)
(* component changes between ticks.                                        *)
Tick ==
  /\ clock < MaxClock
  /\ \A p \in Probes : pc[p] \in {"check", "stamp"} => clock - began[p] < CheckTime
  /\ clock' = clock + 1
  /\ reading' \in {f \in [Names -> Statuses] : \A n \in Names : f[n] \in Readings[n]}
  /\ lastFine' = [n \in Names |-> IF Fine(reading'[n]) THEN clock' ELSE lastFine[n]]
  /\ lastBad' = [n \in Names |-> IF reading'[n] = "unhealthy" THEN clock' ELSE lastBad[n]]
  /\ UNCHANGED <<probeVars, managerVars, use, replacedAt>>

-----------------------------------------------------------------------------
(* The Manager. *)

Register(n) ==
  /\ n \notin registered
  /\ registered' = registered \cup {n}
  /\ UNCHANGED <<cache, probeVars, worldVars>>

Checking(p) == pc[p] \in {"check", "stamp", "store"}

(* RegisterChecker under a name that has one: the map forgets the old      *)
(* checker, but the cache keeps its result and probes that already hold    *)
(* the checker still run it.                                               *)
Replace(n) ==
  /\ n \in registered /\ n \in use.replaced /\ replacedAt[n] = LongAgo
  /\ replacedAt' = [replacedAt EXCEPT ![n] = clock]
  /\ cache' = [cache EXCEPT ![n] = IF @ = NotCached THEN @ ELSE [@ EXCEPT !.old = TRUE]]
  /\ fresh' = [p \in Probes |->
                 [fresh[p] EXCEPT !.old = @ \/ (Checking(p) /\ Head(todo[p]) = n)]]
  /\ UNCHANGED <<pc, kind, start, todo, overall, found, began, reply, known,
                 registered, use, clock, reading, lastFine, lastBad>>

(* performChecks and the loop of GetDetailedHealth over its snapshot of    *)
(* the names, which a map yields in any order.                             *)
NamesOf(k) ==
  CASE k = "live" -> {Liveness}
    [] k = "ready" -> {Readiness}
    [] k = "detailed" -> SetToSeqs(registered)

OverallOf(k, status, statuses) ==
  IF k = "detailed" THEN DetailedStatus(statuses) ELSE status

Begin(p, k) ==
  /\ pc[p] = "idle"
  /\ \E names \in NamesOf(k) :
       /\ IF names = <<>>
          THEN /\ reply' = IF k = "detailed" THEN "unknown" ELSE "healthy"
               /\ UNCHANGED <<pc, kind, todo, start, known>>
          ELSE /\ kind' = [kind EXCEPT ![p] = k]
               /\ pc' = [pc EXCEPT ![p] = "look"]
               /\ todo' = [todo EXCEPT ![p] = names]
               /\ start' = [start EXCEPT ![p] = clock]
               /\ known' = [known EXCEPT ![p] = registered]
               /\ reply' = "none"
  /\ UNCHANGED <<overall, found, began, fresh, managerVars, worldVars>>

(* performCheck returned s: stop at an unhealthy result (not in the        *)
(* detailed report), reply after the last one, or go on to the next.  The  *)
(* results are combined in their order, here as they come.  What the probe *)
(* held is gone when it replies.                                           *)
Collect(p, s) ==
  LET status == Combine(overall[p], s)
      statuses == found[p] \cup {s}
      stops == s = "unhealthy" /\ kind[p] # "detailed"
      ends == stops \/ Len(todo[p]) = 1
      keep(f, x, none) == [f EXCEPT ![p] = IF ends THEN none ELSE x]
  IN
  /\ overall' = keep(overall, status, Unset)
  /\ found' = keep(found, statuses, {})
  /\ todo' = keep(todo, Tail(todo[p]), <<>>)
  /\ start' = keep(start, start[p], 0)
  /\ known' = keep(known, known[p], {})
  /\ kind' = keep(kind, kind[p], "none")
  /\ fresh' = [fresh EXCEPT ![p] = NoResult]
  /\ began' = [began EXCEPT ![p] = 0]
  /\ pc' = [pc EXCEPT ![p] = IF ends THEN "idle" ELSE "look"]
  /\ reply' = CASE stops -> s
                [] ends /\ ~stops -> OverallOf(kind[p], status, statuses)
                [] OTHER -> reply

(* Mutant: whether the name is in the cache is not asked. *)
ServableBlindly(n) == Caching /\ clock - cache[n].at < CacheDuration

(* Mutant: an expired entry is served for one more tick. *)
ServableLate(n) ==
  Caching /\ cache[n] # NotCached /\ clock - cache[n].at <= CacheDuration

Servable(n) ==
  Caching /\ cache[n] # NotCached /\ clock - cache[n].at < CacheDuration

(* The look in the cache and the one for the checker are one step: between *)
(* the two locks only a registration could matter, and the probe would     *)
(* behave as if it had come before both.                                   *)
Look(p) ==
  LET n == Head(todo[p]) IN
  /\ pc[p] = "look"
  /\ \/ Servable(n) /\ Collect(p, cache[n].status)
     \/ ~Servable(n) /\ n \notin registered /\ Collect(p, "unknown")
     \/ /\ ~Servable(n) /\ n \in registered
        /\ pc' = [pc EXCEPT ![p] = "check"]
        /\ began' = [began EXCEPT ![p] = clock]
        /\ UNCHANGED <<kind, start, todo, overall, found, fresh, reply, known>>
  /\ UNCHANGED <<managerVars, worldVars>>

(* The checker reads its component.  One that watches its context may at   *)
(* any moment report a failure instead: the client of this probe has gone, *)
(* the probe's Timeout is over, or the checker's own is.                   *)
Check(p) ==
  LET n == Head(todo[p])
      report(s) == fresh' = [fresh EXCEPT ![p].status = s]
  IN
  /\ pc[p] = "check"
  /\ pc' = [pc EXCEPT ![p] = "stamp"]
  /\ \/ report(reading[n]) /\ UNCHANGED lastBad
     \/ /\ n \in UsesContext
        /\ report("unhealthy")
        /\ lastBad' = [lastBad EXCEPT ![n] = clock]
  /\ UNCHANGED <<kind, start, todo, overall, found, began, reply, known, managerVars,
                 use, clock, reading, lastFine, replacedAt>>

Stamp(p) ==
  /\ pc[p] = "stamp"
  /\ pc' = [pc EXCEPT ![p] = "store"]
  /\ fresh' = [fresh EXCEPT ![p].at = clock]
  /\ UNCHANGED <<kind, start, todo, overall, found, began, reply, known, managerVars,
                 worldVars>>

(* Mutant: the entry is stamped when it is written. *)
EntryAtWrite(p) == [fresh[p] EXCEPT !.at = clock]

Entry(p) == fresh[p]

Store(p) ==
  /\ pc[p] = "store"
  /\ cache' = IF Caching THEN [cache EXCEPT ![Head(todo[p])] = Entry(p)] ELSE cache
  /\ Collect(p, fresh[p].status)
  /\ UNCHANGED <<registered, worldVars>>

ProbeStep(p) ==
  \/ Look(p) \/ Check(p) \/ Stamp(p) \/ Store(p)

Next ==
  \/ Tick
  \/ \E n \in Names : Register(n) \/ Replace(n)
  \/ \E p \in Probes :
       \/ \E k \in use.kinds : Begin(p, k)
       \/ ProbeStep(p)

Spec == Init /\ [][Next]_vars

-----------------------------------------------------------------------------
Answers(p) == pc[p] # "idle" /\ pc'[p] = "idle"
Collects(p) == pc[p] # "idle" /\ todo'[p] # todo[p]
Asked(p) == IF kind[p] = "ready" THEN ToSet(Readiness) ELSE ToSet(Liveness)

(* A healthy readiness or liveness answer is recent for every checker that  *)
(* was registered when the probe began: each of its components was neither  *)
(* unhealthy nor degraded at some moment later than CacheDuration and one   *)
(* check before the probe began, even if a slow probe has overwritten a     *)
(* newer result in the cache.                                               *)
HealthyIsRecent ==
  [][\A p \in Probes :
       (Answers(p) /\ kind[p] # "detailed" /\ reply' = "healthy") =>
         \A n \in Asked(p) \cap known[p] : lastFine[n] > start[p] - Window]_vars

(* An answer of 503 has a recent cause: a component that was unhealthy,     *)
(* or a check that was cut short, by whichever probe's cancellation or      *)
(* timeout.  The failure of one probe does not outlive the cache.           *)
UnhealthyHasCause ==
  [][\A p \in Probes :
       (Answers(p) /\ HttpCode(reply') = 503) =>
         \E n \in Names : lastBad[n] > start[p] - Window]_vars

(* A replaced checker is not forgotten at once, its cached result being     *)
(* served on and a probe that holds it storing one more, but it is soon:    *)
(* no probe that begins CacheDuration and one check after the replacement   *)
(* uses a result of it.                                                     *)
ReplacementTakesEffect ==
  [][\A p \in Probes :
       LET n == Head(todo[p])
           used == IF pc[p] = "look" THEN cache[n] ELSE fresh[p]
       IN (Collects(p) /\ used.old) => start[p] < replacedAt[n] + Window]_vars

(* docs.go:308: the status of a health reply is one of four words. *)
StatusIsNamed == reply \in Named \cup {"none"}
=============================================================================
