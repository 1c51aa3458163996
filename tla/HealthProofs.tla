---------------------------- MODULE HealthProofs ----------------------------
(***************************************************************************)
(* Theorems about Health, for any number of probes and checkers, any lists *)
(* of checks, any durations and any uses.                                  *)
(***************************************************************************)
EXTENDS Health, FiniteSetTheorems, TLAPS

LEMMA Numbers ==
  /\ CacheDuration \in Nat /\ CheckTime \in Nat \ {0} /\ MaxClock \in Nat
  /\ Window \in Nat \ {0} /\ LongAgo \in Int /\ LongAgo < 0
  BY TimesAssumption DEF Window, LongAgo

(* What a queue of names is after its head is done. *)
LEMMA Queue ==
  ASSUME NEW s \in Seq(Names), s # <<>>
  PROVE  /\ Head(s) \in Names /\ Tail(s) \in Seq(Names)
         /\ Len(s) # 1 => Tail(s) # <<>>
         /\ Len(s) = 1 => \A n \in ToSet(s) : n = Head(s)
         /\ \A n \in ToSet(s) : n = Head(s) \/ n \in ToSet(Tail(s))
  <1>1. /\ Head(s) \in Names /\ Tail(s) \in Seq(Names) /\ Len(s) \in Nat \ {0}
        /\ Len(Tail(s)) = Len(s) - 1
    OBVIOUS
  <1>2. Len(s) # 1 => Tail(s) # <<>>
    BY <1>1
  <1>3. ASSUME NEW n \in ToSet(s), n # Head(s)
        PROVE  n \in ToSet(Tail(s)) /\ Len(s) # 1
    <2>1. PICK i \in 1..Len(s) : s[i] = n
      BY <1>3 DEF ToSet
    <2>2. i # 1 /\ i - 1 \in 1..Len(Tail(s)) /\ Tail(s)[i - 1] = s[i]
      BY <1>1, <1>3, <2>1
    <2>3. DOMAIN Tail(s) = 1..Len(Tail(s))
      BY <1>1
    <2>4. n \in ToSet(Tail(s))
      BY <2>1, <2>2, <2>3 DEF ToSet
    <2> QED
      BY <1>1, <2>1, <2>2, <2>4
  <1>4. ASSUME Len(s) = 1, NEW n \in ToSet(s) PROVE n = Head(s)
    BY <1>3, <1>4
  <1>5. ASSUME NEW n \in ToSet(s) PROVE n = Head(s) \/ n \in ToSet(Tail(s))
    BY <1>3
  <1> QED
    BY <1>1, <1>2, <1>4, <1>5

(* Combining: the result is unhealthy only if an argument is, and fine only *)
(* if both are.                                                            *)
LEMMA Combined ==
  ASSUME NEW a \in Statuses, NEW b \in Statuses
  PROVE  /\ Combine(a, b) \in Statuses
         /\ Combine(a, b) = "unhealthy" => a = "unhealthy" \/ b = "unhealthy"
         /\ Fine(Combine(a, b)) => Fine(a) /\ Fine(b)
  BY DEF Combine, Statuses, Named, Unset, Fine

LEMMA Detailed ==
  ASSUME NEW found_ \in SUBSET Statuses
  PROVE  /\ DetailedStatus(found_) \in Statuses
         /\ DetailedStatus(found_) = "unhealthy" => "unhealthy" \in found_
  BY DEF DetailedStatus, Statuses, Named, Unset

LEMMA NoResultTyped == NoResult \in Results /\ ~NoResult.old
  <1>1. Unset \in Statuses /\ 0 \in 0..MaxClock
    BY Numbers DEF Statuses
  <1> QED
    BY <1>1 DEF NoResult, Results

(* Writing one field of a result leaves the others.                        *)
LEMMA NewStatus ==
  ASSUME NEW r \in Results, NEW s \in Statuses
  PROVE  /\ [r EXCEPT !.status = s] \in Results
         /\ [r EXCEPT !.status = s].status = s
         /\ [r EXCEPT !.status = s].at = r.at
         /\ [r EXCEPT !.status = s].old = r.old
  BY DEF Results

LEMMA NewStamp ==
  ASSUME NEW r \in Results, NEW t \in 0..MaxClock
  PROVE  /\ [r EXCEPT !.at = t] \in Results
         /\ [r EXCEPT !.at = t].at = t
         /\ [r EXCEPT !.at = t].status = r.status
         /\ [r EXCEPT !.at = t].old = r.old
  BY DEF Results

LEMMA NewMark ==
  ASSUME NEW r \in Results, NEW b \in BOOLEAN
  PROVE  /\ [r EXCEPT !.old = b] \in Results
         /\ [r EXCEPT !.old = b].old = b
         /\ [r EXCEPT !.old = b].status = r.status
         /\ [r EXCEPT !.old = b].at = r.at
  BY DEF Results

LEMMA Code == \A s : HttpCode(s) = 503 => s = "unhealthy"
  BY DEF HttpCode

LEMMA Listed ==
  ASSUME TypeOK, NEW k \in Kinds, NEW names \in NamesOf(k)
  PROVE  /\ names \in Seq(Names)
         /\ k = "live" => names = Liveness
         /\ k = "ready" => names = Readiness
  <1>1. CASE k = "live"
    BY <1>1, ListsAssumption DEF NamesOf
  <1>2. CASE k = "ready"
    BY <1>2, ListsAssumption DEF NamesOf
  <1>3. CASE k = "detailed"
    <2>1. Cardinality(registered) \in Nat
      BY NamesAssumption, FS_Subset, FS_CardinalityType DEF TypeOK
    <2>2. names \in [1..Cardinality(registered) -> registered]
      BY <1>3 DEF NamesOf, SetToSeqs
    <2>3. registered \subseteq Names
      BY DEF TypeOK
    <2>4. names \in Seq(registered) /\ Seq(registered) \subseteq Seq(Names)
      BY <2>1, <2>2, <2>3
    <2> QED
      BY <1>3, <2>4
  <1> QED
    BY <1>1, <1>2, <1>3 DEF Kinds

-----------------------------------------------------------------------------
(* The inductive invariant. *)

(* Component n had status s, or a check of it was cut short, as late as t.  *)
Backed(n, s, t) ==
  /\ Fine(s) => lastFine[n] >= t
  /\ s = "unhealthy" => lastBad[n] >= t

(* The history is of the past, and tells the present.                      *)
WorldInv ==
  /\ lastFine \in [Names -> Int]
  /\ lastBad \in [Names -> Int]
  /\ replacedAt \in [Names -> Int]
  /\ \A n \in Names :
       lastFine[n] <= clock /\ lastBad[n] <= clock /\ Backed(n, reading[n], clock)

(* A cached result was true at most CheckTime before its stamp, and if its *)
(* checker has been replaced, not long after that.                         *)
Cached(n) ==
  cache[n] # NotCached =>
    /\ cache[n].at <= clock
    /\ Backed(n, cache[n].status, cache[n].at - CheckTime)
    /\ cache[n].old => n \in registered /\ cache[n].at - CheckTime <= replacedAt[n]

Shape(p) ==
  IF pc[p] = "idle" THEN overall[p] = Unset /\ found[p] = {} ELSE todo[p] # <<>>

Timing(p) ==
  /\ start[p] <= clock
  /\ Checking(p) =>
       start[p] <= began[p] /\ began[p] <= clock /\ Head(todo[p]) \in registered
  /\ pc[p] \in {"check", "stamp"} => clock - began[p] <= CheckTime
  /\ pc[p] = "store" => fresh[p].at <= clock /\ fresh[p].at - CheckTime <= began[p]
  /\ fresh[p].old => Checking(p) /\ began[p] <= replacedAt[Head(todo[p])]

Reported(p) ==
  pc[p] \in {"stamp", "store"} => Backed(Head(todo[p]), fresh[p].status, began[p])

(* What the probe has concluded so far is backed within the window.        *)
Judged(p) ==
  pc[p] # "idle" =>
    /\ kind[p] # "detailed" => overall[p] # "unhealthy"
    /\ "unhealthy" \in found[p] => \E n \in Names : lastBad[n] > start[p] - Window
    /\ kind[p] # "detailed" /\ Fine(overall[p]) =>
         \A n \in Asked(p) \cap known[p] :
           n \in ToSet(todo[p]) \/ lastFine[n] > start[p] - Window

ProbeInv(p) == Shape(p) /\ Timing(p) /\ Reported(p) /\ Judged(p)

HealthInv ==
  /\ TypeOK
  /\ WorldInv
  /\ \A n \in Names : Cached(n)
  /\ \A p \in Probes : ProbeInv(p)

LEMMA HealthInvInit == Init => HealthInv
  <1> SUFFICES ASSUME Init PROVE HealthInv
    OBVIOUS
  <1>1. reading \in [Names -> Statuses]
    <2>1. PICK f \in [Names -> Statuses] : reading = f
      BY DEF Init
    <2> QED
      BY <2>1
  <1>2. TypeOK
    <2>1. registered \subseteq Names
      BY NamesAssumption DEF Init, UseType
    <2>2. cache \in [Names -> Results \cup {NotCached}]
      BY DEF Init
    <2>3. fresh \in [Probes -> Results]
      BY NoResultTyped DEF Init
    <2>4. /\ pc \in [Probes -> {"idle", "look", "check", "stamp", "store"}]
          /\ kind \in [Probes -> Kinds \cup {"none"}]
          /\ known \in [Probes -> SUBSET registered]
          /\ found \in [Probes -> SUBSET Statuses]
      BY DEF Init
    <2>5. /\ start \in [Probes -> 0..MaxClock]
          /\ began \in [Probes -> 0..MaxClock]
          /\ clock \in 0..MaxClock
      BY Numbers DEF Init
    <2>6. todo \in [Probes -> Seq(Names)]
      BY DEF Init
    <2>7. overall \in [Probes -> Statuses] /\ reply \in Statuses \cup {"none"}
      <3>1. Unset \in Statuses
        BY DEF Statuses
      <3> QED
        BY <3>1 DEF Init
    <2>8. use \in Uses
      BY DEF Init
    <2> QED
      BY <1>1, <2>1, <2>2, <2>3, <2>4, <2>5, <2>6, <2>7, <2>8 DEF TypeOK
  <1>3. WorldInv
    <2>1. clock = 0 /\ clock \in Int
      BY DEF Init
    <2>2. /\ lastFine = [n \in Names |-> IF Fine(reading[n]) THEN 0 ELSE LongAgo]
          /\ lastBad = [n \in Names |-> IF reading[n] = "unhealthy" THEN 0 ELSE LongAgo]
          /\ replacedAt = [n \in Names |-> LongAgo]
      BY DEF Init
    <2>3. lastFine \in [Names -> Int] /\ lastBad \in [Names -> Int] /\ replacedAt \in [Names -> Int]
      BY <2>2, Numbers
    <2>4. ASSUME NEW n \in Names
          PROVE  lastFine[n] <= clock /\ lastBad[n] <= clock /\ Backed(n, reading[n], clock)
      BY <2>1, <2>2, Numbers DEF Backed
    <2> QED
      BY <2>3, <2>4 DEF WorldInv
  <1>4. \A n \in Names : Cached(n)
    BY DEF Init, Cached
  <1>5. ASSUME NEW p \in Probes PROVE ProbeInv(p)
    <2>1. pc[p] = "idle" /\ overall[p] = Unset /\ found[p] = {} /\ start[p] = 0
          /\ fresh[p] = NoResult /\ clock = 0
      BY <1>5 DEF Init
    <2> QED
      BY <2>1 DEF ProbeInv, Shape, Timing, Reported, Judged, Checking, NoResult
  <1> QED
    BY <1>2, <1>3, <1>4, <1>5 DEF HealthInv

-----------------------------------------------------------------------------
(* What a step leaves of the probes it is not about. *)

(* No step takes back what has been seen. *)
Onward ==
  /\ clock' \in Int /\ clock <= clock'
  /\ registered \subseteq registered'
  /\ \A n \in Names :
       /\ lastFine'[n] \in Int /\ lastFine[n] <= lastFine'[n]
       /\ lastBad'[n] \in Int /\ lastBad[n] <= lastBad'[n]
       /\ replacedAt'[n] \in Int /\ replacedAt[n] <= replacedAt'[n]

Same(p) ==
  /\ pc'[p] = pc[p] /\ kind'[p] = kind[p] /\ start'[p] = start[p]
  /\ todo'[p] = todo[p] /\ overall'[p] = overall[p] /\ found'[p] = found[p]
  /\ began'[p] = began[p] /\ known'[p] = known[p]
  /\ fresh'[p].status = fresh[p].status /\ fresh'[p].at = fresh[p].at

LEMMA ProbeNumbers ==
  ASSUME TypeOK, NEW p \in Probes
  PROVE  /\ clock \in Int /\ start[p] \in Int /\ began[p] \in Int
         /\ fresh[p].at \in Int /\ fresh[p].status \in Statuses
         /\ overall[p] \in Statuses /\ found[p] \in SUBSET Statuses
         /\ todo[p] \in Seq(Names) /\ known[p] \subseteq Names
         /\ fresh[p] \in Results
  <1>1. /\ clock \in 0..MaxClock /\ start[p] \in 0..MaxClock /\ began[p] \in 0..MaxClock
        /\ fresh[p] \in Results
        /\ overall[p] \in Statuses /\ found[p] \in SUBSET Statuses
        /\ todo[p] \in Seq(Names) /\ known[p] \subseteq registered /\ registered \subseteq Names
    BY DEF TypeOK
  <1>2. fresh[p].at \in 0..MaxClock /\ fresh[p].status \in Statuses
    BY <1>1 DEF Results
  <1> QED
    BY <1>1, <1>2

LEMMA AskedAreNames ==
  \A p \in Probes : Asked(p) \subseteq Names
  BY ListsAssumption DEF Asked, ToSet

LEMMA Undisturbed ==
  ASSUME TypeOK, WorldInv, NEW p \in Probes, ProbeInv(p), Onward, Same(p),
         pc[p] \in {"check", "stamp"} => clock' - began[p] <= CheckTime,
         fresh'[p].old => \/ fresh[p].old
                          \/ Checking(p) /\ began[p] <= replacedAt'[Head(todo[p])]
  PROVE  ProbeInv(p)'
  <1>1. /\ clock \in Int /\ start[p] \in Int /\ began[p] \in Int /\ fresh[p].at \in Int
        /\ todo[p] \in Seq(Names) /\ known[p] \subseteq Names
        /\ CheckTime \in Int /\ Window \in Int
    BY ProbeNumbers, Numbers
  <1>2. \A n \in Names :
          /\ lastFine[n] \in Int /\ lastBad[n] \in Int /\ replacedAt[n] \in Int
    BY DEF WorldInv
  <1>3. Shape(p)'
    BY DEF ProbeInv, Shape, Same
  <1>4. pc[p] # "idle" => todo[p] # <<>> /\ Head(todo[p]) \in Names
    BY <1>1, Queue DEF ProbeInv, Shape
  <1>5. Checking(p) => pc[p] # "idle"
    BY DEF Checking
  <1>6. Timing(p)'
    BY <1>1, <1>2, <1>4, <1>5, Numbers DEF ProbeInv, Timing, Onward, Same, Checking
  <1>7. Reported(p)'
    BY <1>1, <1>2, <1>4 DEF ProbeInv, Reported, Backed, Onward, Same
  <1>8. Judged(p)'
    <2> SUFFICES ASSUME pc[p] # "idle"
                 PROVE  /\ kind[p] # "detailed" => overall[p] # "unhealthy"
                        /\ "unhealthy" \in found[p] =>
                             \E n \in Names : lastBad'[n] > start[p] - Window
                        /\ kind[p] # "detailed" /\ Fine(overall[p]) =>
                             \A n \in Asked(p) \cap known[p] :
                               n \in ToSet(todo[p]) \/ lastFine'[n] > start[p] - Window
      BY DEF Judged, Same, Asked
    <2>1. kind[p] # "detailed" => overall[p] # "unhealthy"
      BY DEF ProbeInv, Judged
    <2>2. ASSUME "unhealthy" \in found[p]
          PROVE  \E n \in Names : lastBad'[n] > start[p] - Window
      <3>1. PICK n \in Names : lastBad[n] > start[p] - Window
        BY <2>2 DEF ProbeInv, Judged
      <3>2. lastBad'[n] > start[p] - Window
        BY <1>1, <1>2, <3>1 DEF Onward
      <3> QED
        BY <3>2
    <2>3. ASSUME kind[p] # "detailed", Fine(overall[p]), NEW n \in Asked(p) \cap known[p]
          PROVE  n \in ToSet(todo[p]) \/ lastFine'[n] > start[p] - Window
      <3>1. n \in ToSet(todo[p]) \/ lastFine[n] > start[p] - Window
        BY <2>3 DEF ProbeInv, Judged
      <3> QED
        BY <1>1, <1>2, <3>1 DEF Onward
    <2> QED
      BY <2>1, <2>2, <2>3
  <1> QED
    BY <1>3, <1>6, <1>7, <1>8 DEF ProbeInv

(* A cached entry that a step leaves stays sound.                          *)
LEMMA StillCached ==
  ASSUME TypeOK, WorldInv, Onward, NEW n \in Names, Cached(n), cache'[n] = cache[n]
  PROVE  Cached(n)'
  <1> SUFFICES ASSUME cache[n] # NotCached
               PROVE  /\ cache[n].at <= clock'
                      /\ Backed(n, cache[n].status, cache[n].at - CheckTime)'
                      /\ cache[n].old => n \in registered' /\ cache[n].at - CheckTime <= replacedAt'[n]
    BY DEF Cached, Backed
  <1>1. cache[n].at \in Int /\ clock \in Int /\ CheckTime \in Int
    <2>1. cache[n] \in Results /\ clock \in 0..MaxClock
      BY DEF TypeOK
    <2> QED
      BY <2>1, Numbers DEF Results
  <1>2. lastFine[n] \in Int /\ lastBad[n] \in Int /\ replacedAt[n] \in Int
    BY DEF WorldInv
  <1> QED
    BY <1>1, <1>2 DEF Cached, Backed, Onward

-----------------------------------------------------------------------------
(* The step that collects a result. *)

Stops(p, s) == s = "unhealthy" /\ kind[p] # "detailed"
Ends(p, s) == Stops(p, s) \/ Len(todo[p]) = 1

(* The probe answers, or goes on to the next name.                         *)
LEMMA Collected ==
  ASSUME TypeOK, NEW p \in Probes, NEW s \in Statuses, Collect(p, s), todo[p] # <<>>
  PROVE  /\ \A q \in Probes \ {p} : Same(q) /\ fresh'[q] = fresh[q]
         /\ fresh'[p] = NoResult /\ began'[p] = 0
         /\ Ends(p, s) =>
              /\ pc'[p] = "idle" /\ kind'[p] = "none" /\ start'[p] = 0
              /\ todo'[p] = <<>> /\ overall'[p] = Unset /\ found'[p] = {}
              /\ known'[p] = {}
              /\ reply' = IF Stops(p, s) THEN s
                          ELSE OverallOf(kind[p], Combine(overall[p], s), found[p] \cup {s})
         /\ ~Ends(p, s) =>
              /\ pc'[p] = "look" /\ kind'[p] = kind[p] /\ start'[p] = start[p]
              /\ todo'[p] = Tail(todo[p]) /\ overall'[p] = Combine(overall[p], s)
              /\ found'[p] = found[p] \cup {s} /\ known'[p] = known[p]
              /\ reply' = reply
  <1>1. /\ overall' = [overall EXCEPT ![p] = IF Ends(p, s) THEN Unset ELSE Combine(overall[p], s)]
        /\ found' = [found EXCEPT ![p] = IF Ends(p, s) THEN {} ELSE found[p] \cup {s}]
        /\ todo' = [todo EXCEPT ![p] = IF Ends(p, s) THEN <<>> ELSE Tail(todo[p])]
        /\ start' = [start EXCEPT ![p] = IF Ends(p, s) THEN 0 ELSE start[p]]
        /\ known' = [known EXCEPT ![p] = IF Ends(p, s) THEN {} ELSE known[p]]
        /\ kind' = [kind EXCEPT ![p] = IF Ends(p, s) THEN "none" ELSE kind[p]]
        /\ fresh' = [fresh EXCEPT ![p] = NoResult]
        /\ began' = [began EXCEPT ![p] = 0]
        /\ pc' = [pc EXCEPT ![p] = IF Ends(p, s) THEN "idle" ELSE "look"]
    BY DEF Collect, Ends, Stops
  <1>2. /\ p \in DOMAIN overall /\ p \in DOMAIN found /\ p \in DOMAIN todo /\ p \in DOMAIN start
        /\ p \in DOMAIN known /\ p \in DOMAIN kind /\ p \in DOMAIN fresh /\ p \in DOMAIN began
        /\ p \in DOMAIN pc
    BY DEF TypeOK
  <1>3. \A q \in Probes \ {p} : Same(q) /\ fresh'[q] = fresh[q]
    BY <1>1 DEF TypeOK, Same
  <1>4. /\ Stops(p, s) => reply' = s
        /\ Ends(p, s) /\ ~Stops(p, s) =>
             reply' = OverallOf(kind[p], Combine(overall[p], s), found[p] \cup {s})
        /\ ~Ends(p, s) => reply' = reply
    BY DEF Collect, Ends, Stops
  <1>5. fresh'[p] = NoResult /\ began'[p] = 0
    BY <1>1, <1>2
  <1>6. CASE Ends(p, s)
    BY <1>1, <1>2, <1>3, <1>4, <1>5, <1>6
  <1>7. CASE ~Ends(p, s)
    BY <1>1, <1>2, <1>3, <1>4, <1>5, <1>7
  <1> QED
    BY <1>6, <1>7

LEMMA CollectType ==
  ASSUME TypeOK, NEW p \in Probes, NEW s \in Statuses, Collect(p, s), todo[p] # <<>>,
         UNCHANGED <<registered, worldVars>>, cache' \in [Names -> Results \cup {NotCached}]
  PROVE  TypeOK'
  <1>1. Combine(overall[p], s) \in Statuses /\ found[p] \cup {s} \in SUBSET Statuses
    BY Combined DEF TypeOK
  <1>2. /\ Tail(todo[p]) \in Seq(Names) /\ <<>> \in Seq(Names)
        /\ Unset \in Statuses /\ 0 \in 0..MaxClock /\ NoResult \in Results
    BY Queue, NoResultTyped, Numbers DEF TypeOK, Statuses
  <1>3. /\ overall' \in [Probes -> Statuses] /\ found' \in [Probes -> SUBSET Statuses]
        /\ todo' \in [Probes -> Seq(Names)]
    BY <1>1, <1>2 DEF Collect, TypeOK
  <1>4. /\ start' \in [Probes -> 0..MaxClock] /\ began' \in [Probes -> 0..MaxClock]
        /\ fresh' \in [Probes -> Results]
    BY <1>2 DEF Collect, TypeOK
  <1>5. /\ known' \in [Probes -> SUBSET registered] /\ kind' \in [Probes -> Kinds \cup {"none"}]
        /\ pc' \in [Probes -> {"idle", "look", "check", "stamp", "store"}]
    BY DEF Collect, TypeOK
  <1>6. reply' \in Statuses \cup {"none"}
    <2>1. OverallOf(kind[p], Combine(overall[p], s), found[p] \cup {s}) \in Statuses
      BY <1>1, Detailed DEF OverallOf
    <2>2. reply \in Statuses \cup {"none"}
      BY DEF TypeOK
    <2> QED
      BY <2>1, <2>2, Collected
  <1>7. UNCHANGED <<use, clock, reading, registered>>
    BY DEF worldVars
  <1> QED
    BY <1>3, <1>4, <1>5, <1>6, <1>7 DEF TypeOK

(* A result that is backed within the window keeps the probe's conclusions *)
(* backed.                                                                 *)
BackedResult(p, s) ==
  LET n == Head(todo[p]) IN
  /\ s = "unhealthy" => lastBad[n] > start[p] - Window
  /\ Fine(s) /\ n \in known[p] => lastFine[n] > start[p] - Window

LEMMA CollectProbe ==
  ASSUME TypeOK, WorldInv, NEW p \in Probes, ProbeInv(p), pc[p] # "idle",
         NEW s \in Statuses, Collect(p, s), BackedResult(p, s),
         UNCHANGED <<clock, lastFine, lastBad>>
  PROVE  ProbeInv(p)'
  <1>1. todo[p] # <<>> /\ todo[p] \in Seq(Names) /\ clock \in Int /\ start[p] \in Int
        /\ overall[p] \in Statuses
    BY ProbeNumbers DEF ProbeInv, Shape
  <1>2. Head(todo[p]) \in Names
    BY <1>1, Queue
  <1>3. fresh'[p] = NoResult /\ ~fresh'[p].old
    BY <1>1, Collected, NoResultTyped
  <1>4. CASE Ends(p, s)
    <2>1. /\ pc'[p] = "idle" /\ overall'[p] = Unset /\ found'[p] = {} /\ start'[p] = 0
      BY <1>1, <1>4, Collected
    <2>2. 0 <= clock
      BY Numbers DEF TypeOK
    <2> QED
      BY <1>3, <2>1, <2>2 DEF ProbeInv, Shape, Timing, Reported, Judged, Checking
  <1>5. CASE ~Ends(p, s)
    <2>1. /\ pc'[p] = "look" /\ kind'[p] = kind[p] /\ start'[p] = start[p]
          /\ todo'[p] = Tail(todo[p]) /\ overall'[p] = Combine(overall[p], s)
          /\ found'[p] = found[p] \cup {s} /\ known'[p] = known[p]
      BY <1>1, <1>5, Collected
    <2>2. Len(todo[p]) # 1 /\ Tail(todo[p]) # <<>> /\ (kind[p] # "detailed" => s # "unhealthy")
      BY <1>1, <1>5, Queue DEF Ends, Stops
    <2>3. start'[p] <= clock'
      BY <2>1 DEF ProbeInv, Timing
    <2>4. Shape(p)' /\ Timing(p)' /\ Reported(p)'
      BY <1>3, <2>1, <2>2, <2>3 DEF Shape, Timing, Reported, Checking
    <2>5. Asked(p)' = Asked(p)
      BY <2>1 DEF Asked
    <2>6. kind[p] # "detailed" => overall'[p] # "unhealthy"
      BY <1>1, <2>1, <2>2, Combined DEF ProbeInv, Judged
    <2>7. "unhealthy" \in found'[p] => \E n \in Names : lastBad[n] > start[p] - Window
      <3>1. CASE s = "unhealthy"
        BY <1>2, <3>1 DEF BackedResult
      <3>2. CASE "unhealthy" \in found[p]
        BY <3>2 DEF ProbeInv, Judged
      <3> QED
        BY <2>1, <3>1, <3>2
    <2>8. ASSUME kind[p] # "detailed", Fine(overall'[p]), NEW n \in Asked(p) \cap known[p]
          PROVE  n \in ToSet(Tail(todo[p])) \/ lastFine[n] > start[p] - Window
      <3>1. Fine(overall[p]) /\ Fine(s)
        BY <1>1, <2>1, <2>8, Combined
      <3>2. n \in ToSet(todo[p]) \/ lastFine[n] > start[p] - Window
        BY <2>8, <3>1 DEF ProbeInv, Judged
      <3>3. n \in ToSet(todo[p]) => n = Head(todo[p]) \/ n \in ToSet(Tail(todo[p]))
        BY <1>1, Queue
      <3> QED
        BY <2>8, <3>1, <3>2, <3>3 DEF BackedResult
    <2>9. Judged(p)'
      BY <2>1, <2>5, <2>6, <2>7, <2>8 DEF Judged
    <2> QED
      BY <2>4, <2>9 DEF ProbeInv
  <1> QED
    BY <1>4, <1>5

-----------------------------------------------------------------------------
(* Each step keeps the invariant. *)

LEMMA Static ==
  ASSUME TypeOK, WorldInv, UNCHANGED worldVars, registered \subseteq registered'
  PROVE  Onward /\ WorldInv'
  <1>1. UNCHANGED <<clock, reading, lastFine, lastBad, replacedAt>>
    BY DEF worldVars
  <1>2. clock \in Int
    BY Numbers DEF TypeOK
  <1>3. \A n \in Names : lastFine[n] \in Int /\ lastBad[n] \in Int /\ replacedAt[n] \in Int
    BY DEF WorldInv
  <1>4. Onward
    BY <1>1, <1>2, <1>3 DEF Onward
  <1>5. WorldInv'
    BY <1>1 DEF WorldInv, Backed
  <1> QED
    BY <1>4, <1>5

(* A probe's own step, the others' left alone.                             *)
LEMMA OthersStand ==
  ASSUME HealthInv, Onward, clock' = clock, NEW p \in Probes,
         \A q \in Probes \ {p} : Same(q) /\ fresh'[q] = fresh[q]
  PROVE  \A q \in Probes \ {p} : ProbeInv(q)'
  <1> SUFFICES ASSUME NEW q \in Probes \ {p} PROVE ProbeInv(q)'
    OBVIOUS
  <1>1. pc[q] \in {"check", "stamp"} => clock' - began[q] <= CheckTime
    BY DEF HealthInv, ProbeInv, Timing
  <1> QED
    BY <1>1, Undisturbed DEF HealthInv

LEMMA BeginStep ==
  ASSUME HealthInv, NEW p \in Probes, NEW k \in Kinds, Begin(p, k)
  PROVE  HealthInv'
  <1>1. PICK names \in NamesOf(k) :
          IF names = <<>>
          THEN /\ reply' = IF k = "detailed" THEN "unknown" ELSE "healthy"
               /\ UNCHANGED <<pc, kind, todo, start, known>>
          ELSE /\ kind' = [kind EXCEPT ![p] = k]
               /\ pc' = [pc EXCEPT ![p] = "look"]
               /\ todo' = [todo EXCEPT ![p] = names]
               /\ start' = [start EXCEPT ![p] = clock]
               /\ known' = [known EXCEPT ![p] = registered]
               /\ reply' = "none"
    BY DEF Begin
  <1>2. /\ pc[p] = "idle"
        /\ UNCHANGED <<overall, found, began, fresh, registered, cache, worldVars>>
    BY DEF Begin, managerVars
  <1>3. /\ TypeOK /\ WorldInv
        /\ UNCHANGED <<clock, lastFine, lastBad, replacedAt, use, reading>>
    BY <1>2 DEF HealthInv, worldVars
  <1>4. /\ names \in Seq(Names)
        /\ k = "live" => names = Liveness
        /\ k = "ready" => names = Readiness
    BY <1>3, Listed
  <1>5. Onward /\ WorldInv'
    BY <1>2, <1>3, Static
  <1>6. TypeOK'
    <2>1. /\ pc' \in [Probes -> {"idle", "look", "check", "stamp", "store"}]
          /\ kind' \in [Probes -> Kinds \cup {"none"}]
          /\ start' \in [Probes -> 0..MaxClock]
          /\ todo' \in [Probes -> Seq(Names)]
          /\ known' \in [Probes -> SUBSET registered]
      <3>1. CASE names = <<>>
        BY <1>1, <1>3, <3>1 DEF TypeOK
      <3>2. CASE names # <<>>
        <4>1. /\ kind' = [kind EXCEPT ![p] = k]
              /\ pc' = [pc EXCEPT ![p] = "look"]
              /\ todo' = [todo EXCEPT ![p] = names]
              /\ start' = [start EXCEPT ![p] = clock]
              /\ known' = [known EXCEPT ![p] = registered]
          BY <1>1, <3>2
        <4>2. /\ pc' \in [Probes -> {"idle", "look", "check", "stamp", "store"}]
              /\ kind' \in [Probes -> Kinds \cup {"none"}]
              /\ start' \in [Probes -> 0..MaxClock]
          BY <1>3, <4>1 DEF TypeOK
        <4>3. todo' \in [Probes -> Seq(Names)]
          BY <1>3, <1>4, <4>1 DEF TypeOK
        <4>4. known' \in [Probes -> SUBSET registered]
          BY <1>3, <4>1 DEF TypeOK
        <4> QED
          BY <4>2, <4>3, <4>4
      <3> QED
        BY <3>1, <3>2
    <2>2. reply' \in Statuses \cup {"none"}
      BY <1>1 DEF Statuses, Named
    <2> QED
      BY <1>2, <1>3, <2>1, <2>2 DEF TypeOK
  <1>7. \A n \in Names : Cached(n)'
    BY <1>2, <1>3, <1>5, StillCached DEF HealthInv
  <1>8. \A q \in Probes \ {p} : Same(q) /\ fresh'[q] = fresh[q]
    BY <1>1, <1>2, <1>3 DEF TypeOK, Same
  <1>9. \A q \in Probes \ {p} : ProbeInv(q)'
    BY <1>3, <1>5, <1>8, OthersStand
  <1>10. ProbeInv(p)'
    <2>1. ~fresh[p].old /\ overall[p] = Unset /\ found[p] = {}
      BY <1>2 DEF HealthInv, ProbeInv, Timing, Shape, Checking
    <2>2. CASE names = <<>>
      <3>1. Same(p)
        BY <1>1, <1>2, <2>2 DEF Same
      <3> QED
        BY <1>2, <1>3, <1>5, <3>1, Undisturbed DEF HealthInv
    <2>3. CASE names # <<>>
      <3>1. /\ kind'[p] = k /\ pc'[p] = "look" /\ todo'[p] = names
            /\ start'[p] = clock /\ known'[p] = registered
        BY <1>1, <1>3, <2>3 DEF TypeOK
      <3>2. clock' <= clock' /\ start'[p] = clock'
        BY <1>3, <3>1, Numbers DEF TypeOK
      <3>3. Shape(p)' /\ Timing(p)' /\ Reported(p)'
        BY <1>2, <2>1, <2>3, <3>1, <3>2 DEF Shape, Timing, Reported, Checking
      <3>4. k # "detailed" => Asked(p)' = ToSet(names)
        BY <1>4, <3>1 DEF Asked, Kinds
      <3>5. overall'[p] # "unhealthy" /\ found'[p] = {}
        BY <1>2, <2>1 DEF Unset
      <3>6. Judged(p)'
        BY <3>1, <3>4, <3>5 DEF Judged
      <3> QED
        BY <3>3, <3>6 DEF ProbeInv
    <2> QED
      BY <2>2, <2>3
  <1> QED
    BY <1>5, <1>6, <1>7, <1>9, <1>10 DEF HealthInv

(* Collecting, from the cache, from no checker or from a check.            *)
LEMMA CollectStep ==
  ASSUME HealthInv, NEW p \in Probes, pc[p] # "idle", NEW s \in Statuses,
         Collect(p, s), BackedResult(p, s), UNCHANGED <<registered, worldVars>>,
         cache' \in [Names -> Results \cup {NotCached}],
         \A n \in Names : Cached(n)'
  PROVE  HealthInv'
  <1>1. /\ TypeOK /\ WorldInv /\ ProbeInv(p) /\ todo[p] # <<>>
        /\ UNCHANGED <<clock, lastFine, lastBad>>
    BY DEF HealthInv, ProbeInv, Shape, worldVars
  <1>2. TypeOK'
    BY <1>1, CollectType
  <1>3. Onward /\ WorldInv'
    BY <1>1, Static
  <1>4. ProbeInv(p)'
    BY <1>1, CollectProbe
  <1>5. \A q \in Probes \ {p} : Same(q) /\ fresh'[q] = fresh[q]
    BY <1>1, Collected
  <1>6. \A q \in Probes \ {p} : ProbeInv(q)'
    BY <1>1, <1>3, <1>5, OthersStand
  <1> QED
    BY <1>2, <1>3, <1>4, <1>6 DEF HealthInv

(* A result in the cache is backed from the look within the window.        *)
LEMMA ServedIsBacked ==
  ASSUME HealthInv, NEW p \in Probes, pc[p] = "look",
         NEW n, n = Head(todo[p]), Servable(n)
  PROVE  cache[n].status \in Statuses /\ BackedResult(p, cache[n].status)
  <1>1. /\ TypeOK /\ WorldInv /\ ProbeInv(p) /\ todo[p] # <<>> /\ todo[p] \in Seq(Names)
    BY ProbeNumbers DEF HealthInv, ProbeInv, Shape
  <1>2. n \in Names
    BY <1>1, Queue
  <1>3. /\ cache[n] # NotCached /\ clock - cache[n].at < CacheDuration
        /\ cache[n] \in Results
    BY <1>1, <1>2 DEF Servable, TypeOK
  <1>4. cache[n].status \in Statuses /\ cache[n].at \in Int
    BY <1>3, Numbers DEF Results
  <1>5. Backed(n, cache[n].status, cache[n].at - CheckTime)
    BY <1>2, <1>3 DEF HealthInv, Cached
  <1>6. cache[n].at - CheckTime > start[p] - Window
    <2>1. clock \in Int /\ start[p] \in Int /\ start[p] <= clock
      BY <1>1, ProbeNumbers DEF ProbeInv, Timing
    <2> QED
      BY <1>3, <1>4, <2>1, Numbers DEF Window
  <1>7. /\ lastFine[n] \in Int /\ lastBad[n] \in Int /\ start[p] - Window \in Int
        /\ cache[n].at - CheckTime \in Int
    <2>1. start[p] \in Int
      BY <1>1, ProbeNumbers
    <2>2. lastFine \in [Names -> Int] /\ lastBad \in [Names -> Int]
      BY <1>1 DEF WorldInv
    <2> QED
      BY <1>2, <1>4, <2>1, <2>2, Numbers
  <1> QED
    BY <1>4, <1>5, <1>6, <1>7 DEF BackedResult, Backed

LEMMA LookStep ==
  ASSUME HealthInv, NEW p \in Probes, Look(p)
  PROVE  HealthInv'
  <1> SUFFICES ASSUME NEW n, n = Head(todo[p]) PROVE HealthInv'
    OBVIOUS
  <1>1. /\ pc[p] = "look" /\ UNCHANGED <<registered, cache, worldVars>>
        /\ \/ Servable(n) /\ Collect(p, cache[n].status)
           \/ ~Servable(n) /\ n \notin registered /\ Collect(p, "unknown")
           \/ /\ n \in registered
              /\ pc' = [pc EXCEPT ![p] = "check"]
              /\ began' = [began EXCEPT ![p] = clock]
              /\ UNCHANGED <<kind, start, todo, overall, found, fresh, reply, known>>
    BY DEF Look, managerVars
  <1>2. /\ TypeOK /\ WorldInv /\ ProbeInv(p) /\ todo[p] # <<>> /\ todo[p] \in Seq(Names)
        /\ UNCHANGED <<clock, lastFine, lastBad, replacedAt, use, reading>>
    BY <1>1, ProbeNumbers DEF HealthInv, ProbeInv, Shape, worldVars
  <1>3. n \in Names
    BY <1>2, Queue
  <1>4. Onward /\ WorldInv'
    BY <1>1, <1>2, Static
  <1>5. \A m \in Names : Cached(m)'
    BY <1>1, <1>2, <1>4, StillCached DEF HealthInv
  <1>6. cache' \in [Names -> Results \cup {NotCached}]
    BY <1>1, <1>2 DEF TypeOK
  <1>7. CASE Servable(n) /\ Collect(p, cache[n].status)
    BY <1>1, <1>5, <1>6, <1>7, ServedIsBacked, CollectStep
  <1>8. CASE n \notin registered /\ Collect(p, "unknown")
    <2>1. "unknown" \in Statuses
      BY DEF Statuses, Named
    <2>2. n \notin known[p]
      BY <1>2, <1>8 DEF TypeOK
    <2>3. BackedResult(p, "unknown")
      BY <2>2 DEF BackedResult
    <2> QED
      BY <1>1, <1>5, <1>6, <1>8, <2>1, <2>3, CollectStep
  <1>9. CASE /\ n \in registered
             /\ pc' = [pc EXCEPT ![p] = "check"]
             /\ began' = [began EXCEPT ![p] = clock]
             /\ UNCHANGED <<kind, start, todo, overall, found, fresh, reply, known>>
    <2>1. /\ pc' \in [Probes -> {"idle", "look", "check", "stamp", "store"}]
          /\ began' \in [Probes -> 0..MaxClock]
      BY <1>2, <1>9 DEF TypeOK
    <2>2. TypeOK'
      BY <1>1, <1>2, <1>9, <2>1 DEF TypeOK
    <2>3. \A q \in Probes \ {p} : Same(q) /\ fresh'[q] = fresh[q]
      BY <1>2, <1>9 DEF TypeOK, Same
    <2>4. \A q \in Probes \ {p} : ProbeInv(q)'
      BY <1>2, <1>4, <2>3, OthersStand
    <2>5. pc'[p] = "check" /\ began'[p] = clock
      BY <1>2, <1>9 DEF TypeOK
    <2>6. /\ clock \in Int /\ start[p] <= clock /\ clock - clock <= CheckTime
          /\ clock <= clock /\ ~fresh[p].old
      BY <1>1, <1>2, ProbeNumbers, Numbers DEF ProbeInv, Timing, Checking
    <2>7. Shape(p)' /\ Timing(p)' /\ Reported(p)'
      BY <1>1, <1>2, <1>9, <2>5, <2>6 DEF Shape, Timing, Reported, Checking
    <2>8. Judged(p)'
      <3>1. Asked(p)' = Asked(p)
        BY <1>9 DEF Asked
      <3> QED
        BY <1>1, <1>2, <1>9, <2>5, <3>1 DEF ProbeInv, Judged
    <2> QED
      BY <1>4, <1>5, <2>2, <2>4, <2>7, <2>8 DEF HealthInv, ProbeInv
  <1> QED
    BY <1>1, <1>7, <1>8, <1>9

(* A failure that is not its component's is one of the check itself.       *)
LEMMA CheckStep ==
  ASSUME HealthInv, NEW p \in Probes, Check(p)
  PROVE  HealthInv'
  <1> SUFFICES ASSUME NEW n, n = Head(todo[p]) PROVE HealthInv'
    OBVIOUS
  <1>1. /\ pc[p] = "check" /\ pc' = [pc EXCEPT ![p] = "stamp"]
        /\ UNCHANGED <<kind, start, todo, overall, found, began, reply, known,
                       registered, cache, use, clock, reading, lastFine, replacedAt>>
    BY DEF Check, managerVars
  <1>2. PICK s \in Statuses :
          /\ fresh' = [fresh EXCEPT ![p].status = s]
          /\ \/ s = reading[n] /\ lastBad' = lastBad
             \/ s = "unhealthy" /\ lastBad' = [lastBad EXCEPT ![n] = clock]
    <2>1. CASE fresh' = [fresh EXCEPT ![p].status = reading[n]] /\ UNCHANGED lastBad
      <3>1. todo[p] # <<>> /\ todo[p] \in Seq(Names) /\ reading \in [Names -> Statuses]
        BY <1>1, ProbeNumbers DEF HealthInv, ProbeInv, Shape, TypeOK
      <3>2. reading[n] \in Statuses
        BY <3>1, Queue
      <3> QED
        BY <2>1, <3>2
    <2>2. CASE /\ fresh' = [fresh EXCEPT ![p].status = "unhealthy"]
               /\ lastBad' = [lastBad EXCEPT ![n] = clock]
      BY <2>2 DEF Statuses, Named
    <2> QED
      BY <2>1, <2>2 DEF Check
  <1>3. /\ TypeOK /\ WorldInv /\ ProbeInv(p) /\ todo[p] # <<>> /\ todo[p] \in Seq(Names)
        /\ fresh[p] \in Results /\ clock \in Int /\ began[p] \in Int
    BY <1>1, ProbeNumbers DEF HealthInv, ProbeInv, Shape
  <1>4. n \in Names
    BY <1>3, Queue
  <1>5. /\ fresh'[p].status = s /\ fresh'[p].at = fresh[p].at /\ fresh'[p].old = fresh[p].old
        /\ fresh' \in [Probes -> Results]
        /\ \A q \in Probes \ {p} : fresh'[q] = fresh[q]
    <2>1. fresh'[p] = [fresh[p] EXCEPT !.status = s] /\ \A q \in Probes \ {p} : fresh'[q] = fresh[q]
      BY <1>2, <1>3 DEF TypeOK
    <2>2. fresh'[p] \in Results
      BY <1>3, <2>1, NewStatus
    <2>3. fresh' \in [Probes -> Results]
      BY <1>2, <1>3, <2>1, <2>2 DEF TypeOK
    <2>4. /\ [fresh[p] EXCEPT !.status = s].status = s
          /\ [fresh[p] EXCEPT !.status = s].at = fresh[p].at
          /\ [fresh[p] EXCEPT !.status = s].old = fresh[p].old
      BY <1>3, NewStatus
    <2> QED
      BY <2>1, <2>3, <2>4, Zenon
  <1>6. lastBad' \in [Names -> Int] /\ \A m \in Names : lastBad[m] <= lastBad'[m] /\ lastBad'[m] <= clock
    <2>1. /\ lastBad \in [Names -> Int]
          /\ \A m \in Names : lastBad[m] <= clock /\ lastBad[m] \in Int
      BY <1>3 DEF WorldInv
    <2>2. CASE lastBad' = lastBad
      BY <2>1, <2>2
    <2>3. CASE lastBad' = [lastBad EXCEPT ![n] = clock]
      BY <1>3, <1>4, <2>1, <2>3
    <2> QED
      BY <1>2, <2>2, <2>3
  <1>7. Onward
    <2>1. \A m \in Names : lastFine[m] \in Int /\ replacedAt[m] \in Int /\ lastBad'[m] \in Int
      BY <1>3, <1>6 DEF WorldInv
    <2> QED
      BY <1>1, <1>3, <1>6, <2>1 DEF Onward
  <1>8. WorldInv'
    <2>1. ASSUME NEW m \in Names PROVE Backed(m, reading[m], clock)'
      <3>1. Backed(m, reading[m], clock) /\ lastBad[m] \in Int /\ lastBad'[m] \in Int
        BY <1>3, <1>6 DEF WorldInv
      <3> QED
        BY <1>1, <1>3, <1>6, <3>1 DEF Backed
    <2> QED
      BY <1>1, <1>3, <1>6, <2>1 DEF WorldInv
  <1>9. TypeOK'
    <2>1. pc' \in [Probes -> {"idle", "look", "check", "stamp", "store"}]
      BY <1>1, <1>3 DEF TypeOK
    <2> QED
      BY <1>1, <1>3, <1>5, <2>1 DEF TypeOK
  <1>10. \A m \in Names : Cached(m)'
    BY <1>1, <1>3, <1>7, StillCached DEF HealthInv
  <1>11. \A q \in Probes \ {p} : ProbeInv(q)'
    <2>1. \A q \in Probes \ {p} : Same(q) /\ fresh'[q] = fresh[q]
      BY <1>1, <1>3, <1>5 DEF TypeOK, Same
    <2> QED
      BY <1>1, <1>7, <2>1, OthersStand
  <1>12. ProbeInv(p)'
    <2>1. pc'[p] = "stamp"
      BY <1>1, <1>3 DEF TypeOK
    <2>2. Shape(p)' /\ Timing(p)'
      BY <1>1, <1>3, <1>5, <2>1 DEF ProbeInv, Shape, Timing, Checking
    <2>3. Reported(p)'
      <3>1. began[p] <= clock
        BY <1>1, <1>3 DEF ProbeInv, Timing, Checking
      <3>2. Backed(n, s, began[p])'
        <4>1. CASE s = reading[n] /\ lastBad' = lastBad
          <5>1. Backed(n, reading[n], clock) /\ lastFine[n] \in Int /\ lastBad[n] \in Int
            BY <1>3, <1>4 DEF WorldInv
          <5> QED
            BY <1>1, <1>3, <3>1, <4>1, <5>1 DEF Backed
        <4>2. CASE s = "unhealthy" /\ lastBad' = [lastBad EXCEPT ![n] = clock]
          <5>1. lastBad'[n] = clock
            BY <1>3, <1>4, <4>2 DEF WorldInv
          <5> QED
            BY <1>1, <1>3, <3>1, <4>2, <5>1 DEF Backed, Fine
        <4> QED
          BY <1>2, <4>1, <4>2
      <3> QED
        BY <1>1, <1>5, <3>2 DEF Reported, Backed
    <2>4. Judged(p)'
      <3>1. Asked(p)' = Asked(p)
        BY <1>1 DEF Asked
      <3>2. (\E m \in Names : lastBad[m] > start[p] - Window) =>
              \E m \in Names : lastBad'[m] > start[p] - Window
        <4>1. ASSUME NEW m \in Names, lastBad[m] > start[p] - Window
              PROVE  lastBad'[m] > start[p] - Window
          <5>1. lastBad[m] \in Int /\ lastBad'[m] \in Int /\ start[p] - Window \in Int
            BY <1>3, <1>6, ProbeNumbers, Numbers DEF WorldInv
          <5> QED
            BY <1>6, <4>1, <5>1
        <4> QED
          BY <4>1
      <3> QED
        BY <1>1, <1>3, <2>1, <3>1, <3>2 DEF ProbeInv, Judged
    <2> QED
      BY <2>2, <2>3, <2>4 DEF ProbeInv
  <1> QED
    BY <1>8, <1>9, <1>10, <1>11, <1>12 DEF HealthInv

(* The stamp is at most CheckTime after the check began.                   *)
LEMMA StampStep ==
  ASSUME HealthInv, NEW p \in Probes, Stamp(p)
  PROVE  HealthInv'
  <1>1. /\ pc[p] = "stamp" /\ pc' = [pc EXCEPT ![p] = "store"]
        /\ fresh' = [fresh EXCEPT ![p].at = clock]
        /\ UNCHANGED <<kind, start, todo, overall, found, began, reply, known,
                       registered, cache, worldVars>>
    BY DEF Stamp, managerVars
  <1>2. /\ TypeOK /\ WorldInv /\ ProbeInv(p) /\ fresh[p] \in Results
        /\ clock \in 0..MaxClock /\ clock \in Int /\ began[p] \in Int
        /\ UNCHANGED <<use, clock, reading, lastFine, lastBad, replacedAt>>
    BY <1>1, ProbeNumbers DEF HealthInv, TypeOK, worldVars
  <1>3. /\ fresh'[p].status = fresh[p].status /\ fresh'[p].at = clock
        /\ fresh'[p].old = fresh[p].old
        /\ fresh' \in [Probes -> Results]
        /\ \A q \in Probes \ {p} : fresh'[q] = fresh[q]
    <2>1. fresh'[p] = [fresh[p] EXCEPT !.at = clock] /\ \A q \in Probes \ {p} : fresh'[q] = fresh[q]
      BY <1>1, <1>2 DEF TypeOK
    <2>2. /\ [fresh[p] EXCEPT !.at = clock] \in Results
          /\ [fresh[p] EXCEPT !.at = clock].at = clock
          /\ [fresh[p] EXCEPT !.at = clock].status = fresh[p].status
          /\ [fresh[p] EXCEPT !.at = clock].old = fresh[p].old
      BY <1>2, NewStamp
    <2>3. fresh' \in [Probes -> Results]
      BY <1>1, <1>2, <2>1, <2>2 DEF TypeOK
    <2> QED
      BY <2>1, <2>2, <2>3, Zenon
  <1>4. Onward /\ WorldInv'
    BY <1>1, <1>2, Static
  <1>5. TypeOK'
    <2>1. pc' \in [Probes -> {"idle", "look", "check", "stamp", "store"}]
      BY <1>1, <1>2 DEF TypeOK
    <2> QED
      BY <1>1, <1>2, <1>3, <2>1 DEF TypeOK
  <1>6. \A n \in Names : Cached(n)'
    BY <1>1, <1>2, <1>4, StillCached DEF HealthInv
  <1>7. \A q \in Probes \ {p} : ProbeInv(q)'
    <2>1. \A q \in Probes \ {p} : Same(q) /\ fresh'[q] = fresh[q]
      BY <1>1, <1>2, <1>3 DEF TypeOK, Same
    <2> QED
      BY <1>2, <1>4, <2>1, OthersStand
  <1>8. ProbeInv(p)'
    <2>1. pc'[p] = "store"
      BY <1>1, <1>2 DEF TypeOK
    <2>2. clock <= clock /\ clock - CheckTime <= began[p]
      BY <1>1, <1>2, Numbers DEF ProbeInv, Timing
    <2>3. Shape(p)' /\ Timing(p)'
      BY <1>1, <1>2, <1>3, <2>1, <2>2 DEF ProbeInv, Shape, Timing, Checking
    <2>4. Reported(p)'
      BY <1>1, <1>2, <1>3, <2>1 DEF ProbeInv, Reported, Backed
    <2>5. Judged(p)'
      <3>1. Asked(p)' = Asked(p)
        BY <1>1 DEF Asked
      <3> QED
        BY <1>1, <1>2, <2>1, <3>1 DEF ProbeInv, Judged
    <2> QED
      BY <2>3, <2>4, <2>5 DEF ProbeInv
  <1> QED
    BY <1>4, <1>5, <1>6, <1>7, <1>8 DEF HealthInv

(* So is the result of a check of the probe's own.                         *)
LEMMA CheckedIsBacked ==
  ASSUME HealthInv, NEW p \in Probes, pc[p] = "store", NEW n, n = Head(todo[p])
  PROVE  /\ fresh[p].status \in Statuses /\ BackedResult(p, fresh[p].status)
         /\ n \in Names /\ n \in registered
         /\ Backed(n, fresh[p].status, fresh[p].at - CheckTime)
         /\ fresh[p].at <= clock
         /\ fresh[p].old => /\ fresh[p].at - CheckTime <= replacedAt[n]
                            /\ start[p] <= replacedAt[n]
  <1>1. /\ TypeOK /\ WorldInv /\ ProbeInv(p) /\ todo[p] # <<>> /\ todo[p] \in Seq(Names)
        /\ fresh[p].status \in Statuses /\ fresh[p].at \in Int
        /\ began[p] \in Int /\ start[p] \in Int
    BY ProbeNumbers DEF HealthInv, ProbeInv, Shape
  <1>2. n \in Names
    BY <1>1, Queue
  <1>3. /\ lastFine[n] \in Int /\ lastBad[n] \in Int /\ replacedAt[n] \in Int
        /\ CheckTime \in Int /\ Window \in Int /\ Window > 0
    BY <1>1, <1>2, Numbers DEF WorldInv
  <1>4. /\ Backed(n, fresh[p].status, began[p])
        /\ start[p] <= began[p] /\ fresh[p].at <= clock /\ fresh[p].at - CheckTime <= began[p]
        /\ n \in registered /\ (fresh[p].old => began[p] <= replacedAt[n])
    BY <1>1 DEF ProbeInv, Reported, Timing, Checking
  <1>5. BackedResult(p, fresh[p].status)
    BY <1>1, <1>3, <1>4 DEF BackedResult, Backed
  <1>6. Backed(n, fresh[p].status, fresh[p].at - CheckTime)
    BY <1>1, <1>3, <1>4 DEF Backed
  <1> QED
    BY <1>1, <1>2, <1>3, <1>4, <1>5, <1>6

(* What is stored is backed from CheckTime before its stamp, and may well  *)
(* be older than what it overwrites.                                       *)
LEMMA StoreStep ==
  ASSUME HealthInv, NEW p \in Probes, Store(p)
  PROVE  HealthInv'
  <1> SUFFICES ASSUME NEW n, n = Head(todo[p]), NEW r, r = fresh[p] PROVE HealthInv'
    OBVIOUS
  <1>1. /\ pc[p] = "store" /\ Collect(p, r.status)
        /\ cache' = IF Caching THEN [cache EXCEPT ![n] = r] ELSE cache
        /\ UNCHANGED <<registered, worldVars>>
    BY DEF Store, Entry
  <1>2. /\ TypeOK /\ WorldInv /\ r \in Results
        /\ UNCHANGED <<clock, lastFine, lastBad, replacedAt>>
    BY <1>1, ProbeNumbers DEF HealthInv, worldVars
  <1>3. /\ r.status \in Statuses /\ BackedResult(p, r.status)
        /\ n \in Names /\ n \in registered
        /\ Backed(n, r.status, r.at - CheckTime)
        /\ r.at <= clock /\ (r.old => r.at - CheckTime <= replacedAt[n])
    BY <1>1, CheckedIsBacked
  <1>4. Onward
    BY <1>1, <1>2, Static
  <1>5. cache' \in [Names -> Results \cup {NotCached}]
    BY <1>1, <1>2, <1>3 DEF TypeOK
  <1>6. ASSUME NEW m \in Names PROVE Cached(m)'
    <2>1. CASE cache'[m] = cache[m]
      BY <1>2, <1>4, <2>1, StillCached DEF HealthInv
    <2>2. CASE m = n /\ cache'[m] = r
      BY <1>1, <1>2, <1>3, <2>2 DEF Cached, Backed
    <2>3. cache'[m] = cache[m] \/ (m = n /\ cache'[m] = r)
      BY <1>1, <1>2, <1>3 DEF TypeOK
    <2> QED
      BY <2>1, <2>2, <2>3
  <1> QED
    BY <1>1, <1>3, <1>5, <1>6, CollectStep

LEMMA RegisterStep ==
  ASSUME HealthInv, NEW n \in Names, Register(n)
  PROVE  HealthInv'
  <1>1. registered' = registered \cup {n} /\ UNCHANGED <<cache, probeVars, worldVars>>
    BY DEF Register
  <1>2. TypeOK /\ WorldInv
    BY DEF HealthInv
  <1>3. UNCHANGED <<pc, kind, start, todo, overall, found, began, fresh, reply, known,
                    use, clock, reading>>
    BY <1>1 DEF probeVars, worldVars
  <1>4. Onward /\ WorldInv'
    BY <1>1, <1>2, Static
  <1>5. TypeOK'
    <2>1. known \in [Probes -> SUBSET registered']
      BY <1>1, <1>2 DEF TypeOK
    <2>2. registered' \subseteq Names
      BY <1>1, <1>2 DEF TypeOK
    <2> QED
      BY <1>1, <1>2, <1>3, <2>1, <2>2 DEF TypeOK
  <1>6. \A m \in Names : Cached(m)'
    BY <1>1, <1>2, <1>4, StillCached DEF HealthInv
  <1>7. ASSUME NEW p \in Probes PROVE ProbeInv(p)'
    <2>1. Same(p) /\ fresh'[p].old = fresh[p].old
      BY <1>3 DEF Same
    <2>2. pc[p] \in {"check", "stamp"} => clock' - began[p] <= CheckTime
      BY <1>3 DEF HealthInv, ProbeInv, Timing
    <2> QED
      BY <1>2, <1>3, <1>4, <2>1, <2>2, Undisturbed DEF HealthInv
  <1> QED
    BY <1>4, <1>5, <1>6, <1>7 DEF HealthInv

(* Time passes only while no check has used up its own.                    *)
LEMMA TickStep ==
  ASSUME HealthInv, Tick
  PROVE  HealthInv'
  <1>1. /\ clock < MaxClock /\ clock' = clock + 1
        /\ \A p \in Probes : pc[p] \in {"check", "stamp"} => clock - began[p] < CheckTime
        /\ lastFine' = [n \in Names |-> IF Fine(reading'[n]) THEN clock' ELSE lastFine[n]]
        /\ lastBad' = [n \in Names |-> IF reading'[n] = "unhealthy" THEN clock' ELSE lastBad[n]]
    BY DEF Tick
  <1>2. UNCHANGED <<pc, kind, start, todo, overall, found, began, fresh, reply, known,
                    registered, cache, use, replacedAt>>
    BY DEF Tick, probeVars, managerVars
  <1>3. reading' \in [Names -> Statuses]
    <2>1. PICK f \in [Names -> Statuses] : reading' = f
      BY DEF Tick
    <2> QED
      BY <2>1
  <1>4. TypeOK /\ WorldInv /\ clock \in Int /\ clock' \in 0..MaxClock /\ clock' \in Int
    BY <1>1, Numbers DEF HealthInv, TypeOK
  <1>5. \A n \in Names :
          /\ lastFine[n] \in Int /\ lastBad[n] \in Int /\ replacedAt[n] \in Int
          /\ lastFine[n] <= clock /\ lastBad[n] <= clock
    BY <1>4 DEF WorldInv
  <1>6. \A n \in Names :
          /\ lastFine'[n] = IF Fine(reading'[n]) THEN clock' ELSE lastFine[n]
          /\ lastBad'[n] = IF reading'[n] = "unhealthy" THEN clock' ELSE lastBad[n]
    BY <1>1
  <1>7. Onward
    BY <1>1, <1>2, <1>4, <1>5, <1>6 DEF Onward
  <1>8. WorldInv'
    <2>1. lastFine' \in [Names -> Int] /\ lastBad' \in [Names -> Int]
      BY <1>1, <1>4, <1>5
    <2>2. replacedAt' \in [Names -> Int]
      BY <1>2, <1>4 DEF WorldInv
    <2>3. ASSUME NEW n \in Names
          PROVE  lastFine'[n] <= clock' /\ lastBad'[n] <= clock' /\ Backed(n, reading[n], clock)'
      BY <1>1, <1>4, <1>5, <1>6 DEF Backed
    <2> QED
      BY <2>1, <2>2, <2>3 DEF WorldInv
  <1>9. TypeOK'
    BY <1>2, <1>3, <1>4 DEF TypeOK
  <1>10. \A n \in Names : Cached(n)'
    BY <1>2, <1>4, <1>7, StillCached DEF HealthInv
  <1>11. ASSUME NEW p \in Probes PROVE ProbeInv(p)'
    <2>1. Same(p) /\ fresh'[p].old = fresh[p].old
      BY <1>2 DEF Same
    <2>2. pc[p] \in {"check", "stamp"} => clock' - began[p] <= CheckTime
      BY <1>1, <1>4, ProbeNumbers, Numbers
    <2> QED
      BY <1>2, <1>4, <1>7, <2>1, <2>2, Undisturbed DEF HealthInv
  <1> QED
    BY <1>8, <1>9, <1>10, <1>11 DEF HealthInv

(* What was cached or is being checked under the name is marked as old.    *)
LEMMA ReplaceStep ==
  ASSUME HealthInv, NEW n \in Names, Replace(n)
  PROVE  HealthInv'
  <1>1. /\ n \in registered /\ replacedAt[n] = LongAgo
        /\ replacedAt' = [replacedAt EXCEPT ![n] = clock]
        /\ cache' = [cache EXCEPT ![n] = IF @ = NotCached THEN @ ELSE [@ EXCEPT !.old = TRUE]]
        /\ fresh' = [p \in Probes |->
                       [fresh[p] EXCEPT !.old = @ \/ (Checking(p) /\ Head(todo[p]) = n)]]
        /\ UNCHANGED <<pc, kind, start, todo, overall, found, began, reply, known,
                       registered, use, clock, reading, lastFine, lastBad>>
    BY DEF Replace
  <1>2. TypeOK /\ WorldInv /\ clock \in Int /\ clock >= 0
    BY Numbers DEF HealthInv, TypeOK
  <1>3. /\ replacedAt' \in [Names -> Int] /\ replacedAt'[n] = clock
        /\ \A m \in Names : replacedAt[m] \in Int /\ replacedAt[m] <= replacedAt'[m]
    BY <1>1, <1>2, Numbers DEF WorldInv
  <1>4. Onward
    <2>1. \A m \in Names : lastFine[m] \in Int /\ lastBad[m] \in Int /\ replacedAt'[m] \in Int
      BY <1>2, <1>3 DEF WorldInv
    <2> QED
      BY <1>1, <1>2, <1>3, <2>1 DEF Onward
  <1>5. WorldInv'
    BY <1>1, <1>2, <1>3 DEF WorldInv, Backed
  <1>6. ASSUME NEW p \in Probes
        PROVE  /\ fresh'[p] \in Results
               /\ fresh'[p].status = fresh[p].status /\ fresh'[p].at = fresh[p].at
               /\ fresh'[p].old => fresh[p].old \/ (Checking(p) /\ Head(todo[p]) = n)
    <2>1. fresh[p] \in Results
      BY <1>2, ProbeNumbers
    <2>2. PICK b \in BOOLEAN :
            /\ fresh'[p] = [fresh[p] EXCEPT !.old = b]
            /\ b => fresh[p].old \/ (Checking(p) /\ Head(todo[p]) = n)
      <3> DEFINE mark == fresh[p].old \/ (Checking(p) /\ Head(todo[p]) = n)
      <3>1. fresh'[p] = [fresh[p] EXCEPT !.old = mark]
        BY <1>1
      <3>2. mark \in BOOLEAN
        OBVIOUS
      <3> QED
        BY <3>1, <3>2
    <2>3. /\ [fresh[p] EXCEPT !.old = b] \in Results
          /\ [fresh[p] EXCEPT !.old = b].old = b
          /\ [fresh[p] EXCEPT !.old = b].status = fresh[p].status
          /\ [fresh[p] EXCEPT !.old = b].at = fresh[p].at
      BY <2>1, NewMark
    <2> QED
      BY <2>2, <2>3, Zenon
  <1>7. /\ cache' \in [Names -> Results \cup {NotCached}]
        /\ \A m \in Names \ {n} : cache'[m] = cache[m]
        /\ cache'[n] # NotCached =>
             /\ cache[n] # NotCached
             /\ cache'[n].at = cache[n].at /\ cache'[n].status = cache[n].status
    <2>1. CASE cache[n] = NotCached
      <3>1. cache' = cache
        BY <1>1, <1>2, <2>1 DEF TypeOK
      <3> QED
        BY <1>2, <2>1, <3>1 DEF TypeOK
    <2>2. CASE cache[n] # NotCached
      <3>1. cache[n] \in Results
        BY <1>2, <2>2 DEF TypeOK
      <3>2. cache' = [cache EXCEPT ![n] = [cache[n] EXCEPT !.old = TRUE]]
        BY <1>1, <2>2
      <3>3. /\ [cache[n] EXCEPT !.old = TRUE] \in Results
            /\ [cache[n] EXCEPT !.old = TRUE].at = cache[n].at
            /\ [cache[n] EXCEPT !.old = TRUE].status = cache[n].status
        BY <3>1, NewMark
      <3>4. cache'[n] = [cache[n] EXCEPT !.old = TRUE]
        BY <1>2, <3>2 DEF TypeOK
      <3> QED
        BY <1>2, <2>2, <3>2, <3>3, <3>4 DEF TypeOK
    <2> QED
      BY <2>1, <2>2
  <1>8. TypeOK'
    <2>1. fresh' \in [Probes -> Results]
      BY <1>1, <1>6
    <2> QED
      BY <1>1, <1>2, <1>7, <2>1 DEF TypeOK
  <1>9. ASSUME NEW m \in Names PROVE Cached(m)'
    <2>1. CASE m # n
      BY <1>2, <1>4, <1>7, <2>1, StillCached DEF HealthInv
    <2>2. CASE m = n
      <3> SUFFICES ASSUME cache'[n] # NotCached PROVE Cached(n)'
        BY <2>2 DEF Cached
      <3>1. /\ cache[n] # NotCached /\ cache[n] \in Results
            /\ cache'[n].at = cache[n].at /\ cache'[n].status = cache[n].status
        BY <1>2, <1>7 DEF TypeOK
      <3>2. /\ cache[n].at <= clock /\ cache[n].at \in Int
            /\ Backed(n, cache[n].status, cache[n].at - CheckTime)
        BY <3>1, Numbers DEF HealthInv, Cached, Results
      <3>3. cache[n].at - CheckTime <= replacedAt'[n]
        BY <1>2, <1>3, <3>2, Numbers
      <3> QED
        BY <1>1, <3>1, <3>2, <3>3 DEF Cached, Backed
    <2> QED
      BY <2>1, <2>2
  <1>10. ASSUME NEW p \in Probes PROVE ProbeInv(p)'
    <2>1. Same(p)
      BY <1>1, <1>6 DEF Same
    <2>2. pc[p] \in {"check", "stamp"} => clock' - began[p] <= CheckTime
      BY <1>1 DEF HealthInv, ProbeInv, Timing
    <2>3. fresh'[p].old => \/ fresh[p].old
                           \/ Checking(p) /\ began[p] <= replacedAt'[Head(todo[p])]
      BY <1>3, <1>6 DEF HealthInv, ProbeInv, Timing
    <2> QED
      BY <1>2, <1>4, <2>1, <2>2, <2>3, Undisturbed DEF HealthInv
  <1> QED
    BY <1>5, <1>8, <1>9, <1>10 DEF HealthInv

LEMMA HealthInvStep == HealthInv /\ [Next]_vars => HealthInv'
  <1> SUFFICES ASSUME HealthInv, [Next]_vars PROVE HealthInv'
    OBVIOUS
  <1>1. CASE Tick
    BY <1>1, TickStep
  <1>2. ASSUME NEW n \in Names, Register(n) \/ Replace(n) PROVE HealthInv'
    BY <1>2, RegisterStep, ReplaceStep
  <1>3. ASSUME NEW p \in Probes, NEW k \in use.kinds, Begin(p, k) PROVE HealthInv'
    <2>1. k \in Kinds
      BY NamesAssumption DEF HealthInv, TypeOK, UseType
    <2> QED
      BY <1>3, <2>1, BeginStep
  <1>4. ASSUME NEW p \in Probes, ProbeStep(p) PROVE HealthInv'
    BY <1>4, LookStep, CheckStep, StampStep, StoreStep DEF ProbeStep
  <1>5. CASE UNCHANGED vars
    <2>1. UNCHANGED <<pc, kind, start, todo, overall, found, began, fresh, reply, known,
                      registered, cache, use, clock, reading, lastFine, lastBad, replacedAt>>
      BY <1>5 DEF vars, probeVars, managerVars, worldVars
    <2>2. TypeOK' /\ WorldInv'
      BY <2>1 DEF HealthInv, TypeOK, WorldInv, Backed
    <2>3. \A n \in Names : Cached(n)'
      BY <2>1 DEF HealthInv, Cached, Backed
    <2>4. \A p \in Probes : ProbeInv(p)'
      BY <2>1 DEF HealthInv, ProbeInv, Shape, Timing, Reported, Judged, Backed, Checking, Asked
    <2> QED
      BY <2>2, <2>3, <2>4 DEF HealthInv
  <1> QED
    BY <1>1, <1>2, <1>3, <1>4, <1>5 DEF Next

LEMMA HealthInvariant == Spec => []HealthInv
  BY HealthInvInit, HealthInvStep, PTL DEF Spec

(* Every variable keeps its type.                                          *)
THEOREM TypeCorrect == Spec => []TypeOK
  <1>1. HealthInv => TypeOK
    BY DEF HealthInv
  <1> QED
    BY <1>1, HealthInvariant, PTL

-----------------------------------------------------------------------------
(* Where the result comes from that a step collects: the cache, no checker *)
(* or a check of the probe's own.                                          *)
LEMMA Origin ==
  ASSUME HealthInv, [Next]_vars, NEW p \in Probes, pc[p] # "idle",
         pc'[p] = "idle" \/ todo'[p] # todo[p],
         NEW n, n = Head(todo[p])
  PROVE  /\ UNCHANGED worldVars
         /\ \/ pc[p] = "look" /\ Servable(n) /\ Collect(p, cache[n].status)
            \/ pc[p] = "look" /\ n \notin registered /\ Collect(p, "unknown")
            \/ pc[p] = "store" /\ Collect(p, fresh[p].status)
  <1>1. TypeOK
    BY DEF HealthInv
  <1>2. ~Tick /\ ~UNCHANGED vars
    BY DEF Tick, vars, probeVars
  <1>3. ASSUME NEW m \in Names PROVE ~Register(m) /\ ~Replace(m)
    BY DEF Register, Replace, probeVars
  <1>4. ASSUME NEW q \in Probes, NEW k \in use.kinds PROVE ~Begin(q, k)
    <2> SUFFICES ASSUME Begin(q, k) PROVE FALSE
      OBVIOUS
    <2>1. q # p
      BY DEF Begin
    <2>2. PICK names \in NamesOf(k) :
            \/ UNCHANGED <<pc, todo>>
            \/ pc' = [pc EXCEPT ![q] = "look"] /\ todo' = [todo EXCEPT ![q] = names]
      BY DEF Begin
    <2> QED
      BY <1>1, <2>1, <2>2 DEF TypeOK
  <1>5. ASSUME NEW q \in Probes PROVE ~Check(q) /\ ~Stamp(q)
    <2>1. ASSUME Check(q) PROVE FALSE
      BY <1>1, <2>1 DEF Check, TypeOK
    <2>2. ASSUME Stamp(q) PROVE FALSE
      BY <1>1, <2>2 DEF Stamp, TypeOK
    <2> QED
      BY <2>1, <2>2
  <1>6. ASSUME NEW q \in Probes, NEW s \in Statuses, Collect(q, s), pc[q] # "idle"
        PROVE  q = p
    <2>1. todo[q] # <<>>
      BY <1>6 DEF HealthInv, ProbeInv, Shape
    <2> QED
      BY <1>1, <1>6, <2>1, Collected DEF Same
  <1>7. ASSUME NEW q \in Probes, Look(q)
        PROVE  /\ q = p /\ UNCHANGED worldVars
               /\ \/ Servable(n) /\ Collect(p, cache[n].status)
                  \/ n \notin registered /\ Collect(p, "unknown")
    <2>1. pc[q] = "look" /\ UNCHANGED worldVars
      BY <1>7 DEF Look
    <2>2. CASE Servable(Head(todo[q])) /\ Collect(q, cache[Head(todo[q])].status)
      <3>1. cache[Head(todo[q])].status \in Statuses
        BY <2>1, <2>2, ServedIsBacked
      <3> QED
        BY <1>6, <2>1, <2>2, <3>1
    <2>3. CASE Head(todo[q]) \notin registered /\ Collect(q, "unknown")
      <3>1. "unknown" \in Statuses
        BY DEF Statuses, Named
      <3> QED
        BY <1>6, <2>1, <2>3, <3>1
    <2>4. CASE pc' = [pc EXCEPT ![q] = "check"] /\ UNCHANGED todo
      BY <1>1, <2>4 DEF TypeOK
    <2> QED
      BY <1>7, <2>2, <2>3, <2>4 DEF Look
  <1>8. ASSUME NEW q \in Probes, Store(q)
        PROVE  q = p /\ UNCHANGED worldVars /\ Collect(p, fresh[p].status)
    <2>1. pc[q] = "store" /\ UNCHANGED worldVars /\ Collect(q, fresh[q].status)
      BY <1>8 DEF Store
    <2>2. fresh[q].status \in Statuses
      BY <1>1, ProbeNumbers
    <2> QED
      BY <1>6, <2>1, <2>2
  <1>9. PICK q \in Probes : Look(q) \/ Store(q)
    BY <1>2, <1>3, <1>4, <1>5 DEF Next, ProbeStep
  <1> QED
    BY <1>7, <1>8, <1>9 DEF Look, Store

LEMMA ResultIsBacked ==
  ASSUME HealthInv, [Next]_vars, NEW p \in Probes, pc[p] # "idle",
         pc'[p] = "idle" \/ todo'[p] # todo[p]
  PROVE  /\ UNCHANGED worldVars
         /\ \E s \in Statuses : Collect(p, s) /\ BackedResult(p, s)
  <1> SUFFICES ASSUME NEW n, n = Head(todo[p])
               PROVE  /\ UNCHANGED worldVars
                      /\ \E s \in Statuses : Collect(p, s) /\ BackedResult(p, s)
    OBVIOUS
  <1> DEFINE Goal == \E s \in Statuses : Collect(p, s) /\ BackedResult(p, s)
  <1>1. ASSUME pc[p] = "look", Servable(n), Collect(p, cache[n].status) PROVE Goal
    BY <1>1, ServedIsBacked
  <1>2. ASSUME n \notin registered, Collect(p, "unknown") PROVE Goal
    <2>1. "unknown" \in Statuses /\ n \notin known[p]
      BY <1>2 DEF HealthInv, TypeOK, Statuses, Named
    <2> QED
      BY <1>2, <2>1 DEF BackedResult
  <1>3. ASSUME pc[p] = "store", Collect(p, fresh[p].status) PROVE Goal
    BY <1>3, CheckedIsBacked
  <1>4. UNCHANGED worldVars
    BY Origin
  <1> QED
    BY <1>1, <1>2, <1>3, <1>4, Origin

(* What an answer is made of.                                              *)
LEMMA AnswerOf ==
  ASSUME HealthInv, [Next]_vars, NEW p \in Probes, Answers(p)
  PROVE  \E s \in Statuses :
           /\ BackedResult(p, s)
           /\ todo[p] # <<>> /\ todo[p] \in Seq(Names)
           /\ overall[p] \in Statuses /\ found[p] \in SUBSET Statuses
           /\ \/ Stops(p, s) /\ reply' = s
              \/ /\ ~Stops(p, s) /\ Len(todo[p]) = 1
                 /\ reply' = OverallOf(kind[p], Combine(overall[p], s), found[p] \cup {s})
  <1>1. PICK s \in Statuses : Collect(p, s) /\ BackedResult(p, s)
    BY ResultIsBacked DEF Answers
  <1>2. /\ TypeOK /\ todo[p] # <<>> /\ todo[p] \in Seq(Names)
        /\ overall[p] \in Statuses /\ found[p] \in SUBSET Statuses
    BY ProbeNumbers DEF HealthInv, ProbeInv, Shape, Answers
  <1>3. Ends(p, s)
    BY <1>1, <1>2, Collected DEF Answers
  <1>4. reply' = IF Stops(p, s) THEN s
                 ELSE OverallOf(kind[p], Combine(overall[p], s), found[p] \cup {s})
    BY <1>1, <1>2, <1>3, Collected
  <1> QED
    BY <1>1, <1>2, <1>3, <1>4 DEF Ends

LEMMA FailureBacked ==
  ASSUME HealthInv, [Next]_vars, NEW p \in Probes, Answers(p), reply' = "unhealthy"
  PROVE  \E n \in Names : lastBad[n] > start[p] - Window
  <1>1. PICK s \in Statuses :
          /\ BackedResult(p, s)
          /\ todo[p] # <<>> /\ todo[p] \in Seq(Names)
          /\ overall[p] \in Statuses /\ found[p] \in SUBSET Statuses
          /\ \/ Stops(p, s) /\ reply' = s
             \/ /\ ~Stops(p, s) /\ Len(todo[p]) = 1
                /\ reply' = OverallOf(kind[p], Combine(overall[p], s), found[p] \cup {s})
    BY AnswerOf
  <1>2. Head(todo[p]) \in Names
    BY <1>1, Queue
  <1>3. CASE s = "unhealthy"
    BY <1>1, <1>2, <1>3 DEF BackedResult
  <1>4. CASE s # "unhealthy"
    <2>1. OverallOf(kind[p], Combine(overall[p], s), found[p] \cup {s}) = "unhealthy"
      BY <1>1, <1>4
    <2>2. CASE kind[p] = "detailed"
      <3>1. DetailedStatus(found[p] \cup {s}) = "unhealthy" /\ found[p] \cup {s} \in SUBSET Statuses
        BY <1>1, <2>1, <2>2 DEF OverallOf
      <3>2. "unhealthy" \in found[p]
        BY <1>4, <3>1, Detailed
      <3> QED
        BY <3>2 DEF HealthInv, ProbeInv, Judged, Answers
    <2>3. CASE kind[p] # "detailed"
      <3>1. Combine(overall[p], s) = "unhealthy"
        BY <2>1, <2>3 DEF OverallOf
      <3>2. overall[p] = "unhealthy"
        BY <1>1, <1>4, <3>1, Combined
      <3> QED
        BY <2>3, <3>2 DEF HealthInv, ProbeInv, Judged, Answers
    <2> QED
      BY <2>2, <2>3
  <1> QED
    BY <1>3, <1>4

(* Every 503 has a cause that is no older than the window, whichever probe *)
(* met it and however late it wrote it to the cache.                       *)
THEOREM FailuresHaveCauses == Spec => UnhealthyHasCause
  <1>1. HealthInv /\ [Next]_vars =>
          [\A p \in Probes :
             (Answers(p) /\ HttpCode(reply') = 503) =>
               \E n \in Names : lastBad[n] > start[p] - Window]_vars
    BY FailureBacked, Code
  <1> QED
    BY <1>1, HealthInvariant, PTL DEF UnhealthyHasCause, Spec

LEMMA HealthyBacked ==
  ASSUME HealthInv, [Next]_vars, NEW p \in Probes, Answers(p), kind[p] # "detailed",
         reply' = "healthy", NEW n \in Asked(p) \cap known[p]
  PROVE  lastFine[n] > start[p] - Window
  <1>1. PICK s \in Statuses :
          /\ BackedResult(p, s)
          /\ todo[p] # <<>> /\ todo[p] \in Seq(Names)
          /\ overall[p] \in Statuses /\ found[p] \in SUBSET Statuses
          /\ \/ Stops(p, s) /\ reply' = s
             \/ /\ ~Stops(p, s) /\ Len(todo[p]) = 1
                /\ reply' = OverallOf(kind[p], Combine(overall[p], s), found[p] \cup {s})
    BY AnswerOf
  <1>2. Len(todo[p]) = 1 /\ Combine(overall[p], s) = "healthy"
    BY <1>1 DEF Stops, OverallOf
  <1>3. Fine(overall[p]) /\ Fine(s)
    <2>1. Fine(Combine(overall[p], s))
      BY <1>2 DEF Fine
    <2> QED
      BY <1>1, <2>1, Combined
  <1>4. n \in ToSet(todo[p]) \/ lastFine[n] > start[p] - Window
    BY <1>3 DEF HealthInv, ProbeInv, Judged, Answers
  <1>5. n \in ToSet(todo[p]) => n = Head(todo[p])
    BY <1>1, <1>2, Queue
  <1> QED
    BY <1>1, <1>3, <1>4, <1>5 DEF BackedResult

(* A healthy answer is recent for every checker the probe asked that was   *)
(* registered when it began.                                               *)
THEOREM HealthIsRecent == Spec => HealthyIsRecent
  <1>1. HealthInv /\ [Next]_vars =>
          [\A p \in Probes :
             (Answers(p) /\ kind[p] # "detailed" /\ reply' = "healthy") =>
               \A n \in Asked(p) \cap known[p] : lastFine[n] > start[p] - Window]_vars
    BY HealthyBacked
  <1> QED
    BY <1>1, HealthInvariant, PTL DEF HealthyIsRecent, Spec

LEMMA OldResultIsRecent ==
  ASSUME HealthInv, [Next]_vars, NEW p \in Probes, Collects(p),
         NEW n, n = Head(todo[p]),
         (IF pc[p] = "look" THEN cache[n] ELSE fresh[p]).old
  PROVE  start[p] < replacedAt[n] + Window
  <1>1. /\ TypeOK /\ WorldInv /\ todo[p] # <<>> /\ todo[p] \in Seq(Names)
        /\ start[p] \in Int /\ clock \in Int /\ start[p] <= clock
    BY ProbeNumbers DEF HealthInv, ProbeInv, Shape, Timing, Collects
  <1>2. n \in Names
    BY <1>1, Queue
  <1>3. replacedAt[n] \in Int
    BY <1>1, <1>2 DEF WorldInv
  <1>4. CASE pc[p] = "look"
    <2>1. cache[n].old
      BY <1>4
    <2>2. cache[n] # NotCached
      BY <2>1 DEF NotCached
    <2>3. n \in registered /\ cache[n].at - CheckTime <= replacedAt[n]
      BY <1>2, <2>1, <2>2 DEF HealthInv, Cached
    <2>4. Servable(n)
      BY <1>4, <2>3, Origin DEF Collects
    <2>5. cache[n].at \in Int
      BY <1>1, <1>2, <2>2, Numbers DEF TypeOK, Results
    <2> QED
      BY <1>1, <1>3, <2>3, <2>4, <2>5, Numbers DEF Servable, Window
  <1>5. CASE pc[p] # "look"
    <2>1. pc[p] = "store" /\ fresh[p].old
      BY <1>5, Origin DEF Collects
    <2>2. start[p] <= replacedAt[n]
      BY <2>1, CheckedIsBacked
    <2> QED
      BY <1>1, <1>3, <2>2, Numbers
  <1> QED
    BY <1>4, <1>5

(* A probe that begins the window after a checker was replaced uses no     *)
(* result of the old one.                                                  *)
THEOREM ReplacementsTakeEffect == Spec => ReplacementTakesEffect
  <1>1. HealthInv /\ [Next]_vars =>
          [\A p \in Probes :
             LET n == Head(todo[p])
                 used == IF pc[p] = "look" THEN cache[n] ELSE fresh[p]
             IN (Collects(p) /\ used.old) => start[p] < replacedAt[n] + Window]_vars
    BY OldResultIsRecent
  <1> QED
    BY <1>1, HealthInvariant, PTL DEF ReplacementTakesEffect, Spec
=============================================================================
