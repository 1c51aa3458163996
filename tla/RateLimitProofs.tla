--------------------------- MODULE RateLimitProofs ---------------------------
(***************************************************************************)
(* Theorems about RateLimit, for any number of requests and keys, any      *)
(* options and any interval of stamps.                                     *)
(***************************************************************************)
EXTENDS RateLimit, TLAPS

LEMMA Options ==
  /\ Capacity \in Nat \ {0}
  /\ Rate \in Nat \ {0}
  BY OptionAssumption, DefaultAssumption DEF Capacity, Rate, OrDefault

(* Multiplication by the rate, as the refill uses it. *)
LEMMA RateDistributes ==
  ASSUME NEW a \in Int, NEW b \in Int
  PROVE  /\ (a - b) * Rate = Rate * a - Rate * b
         /\ Rate * a \in Int
         /\ a <= b => Rate * a <= Rate * b
  BY Options

LEMMA OneMoreToken ==
  ASSUME NEW n \in Nat
  PROVE  (n + 1) * One = n * One + One /\ n * One \in Nat
  BY UnitAssumption

(* What a bucket is worth on the clock of its key: tokens less what the    *)
(* time up to lastSeen could have refilled.  Refilling to any stamp, later *)
(* or earlier, never raises it.                                            *)
Worth(k) == tokens[k] - Rate * seen[k]

(* The inductive invariant.  Every admission in the window lowers Worth by *)
(* a token, starting from at most a full bucket at the window's beginning. *)
QuotaInv ==
  /\ TypeOK
  /\ \A k \in known : tokens[k] <= Capacity
  /\ \A k \in Keys : counted[k] > 0 =>
       /\ k \in known
       /\ counted[k] * One + Worth(k) <= Capacity - Rate * window[1]
  /\ WindowQuota

LEMMA TypeOKInit == Init => TypeOK
  BY UnitAssumption DEF Init, TypeOK, Windows

LEMMA RefilledType ==
  ASSUME TypeOK, NEW k \in Keys, NEW t \in 0..clock
  PROVE  /\ Refilled(k, t) \in Int
         /\ Refilled(k, t) <= Capacity
         /\ k \in known => Refilled(k, t) <= Worth(k) + Rate * t
  <1>1. /\ clock \in Int /\ t \in Int /\ seen[k] \in Int /\ tokens[k] \in Int
        /\ Capacity \in Int /\ Rate \in Int
    BY Options DEF TypeOK
  <1>2. CASE k \in known
    <2>1. (t - seen[k]) * Rate = Rate * t - Rate * seen[k] /\ Rate * t \in Int /\ Rate * seen[k] \in Int
      BY <1>1, RateDistributes
    <2> QED
      BY <1>1, <1>2, <2>1 DEF Refilled, Held, LastSeen, Worth
  <1>3. CASE k \notin known
    <2>1. (t - t) * Rate = 0
      BY <1>1
    <2> QED
      BY <1>1, <1>3, <2>1 DEF Refilled, Held, LastSeen
  <1> QED
    BY <1>2, <1>3

LEMMA DecideType ==
  ASSUME TypeOK, NEW c \in Requests, Decide(c)
  PROVE  TypeOK'
  <1> DEFINE k == key[c]
             t == now[c]
  <1>1. k \in Keys /\ t \in 0..clock /\ clock \in 0..MaxClock /\ MaxClock \in Nat
    BY UnitAssumption DEF TypeOK
  <1>2. Refilled(k, t) \in Int /\ Refilled(k, t) - One \in Int
    BY <1>1, RefilledType, UnitAssumption
  <1>3. tokens' \in [Keys -> Int] /\ counted' \in [Keys -> Nat]
    BY <1>1, <1>2 DEF Decide, Admit, Refuse, TypeOK
  <1>4. seen' \in [Keys -> 0..clock] /\ known' \subseteq Keys
    BY <1>1 DEF Decide, Touch, Stamp, TypeOK
  <1>5. newest' \in [Keys -> 0..clock]
    BY <1>1 DEF Decide, Touch, Larger, TypeOK
  <1>6. pc' \in [Requests -> {"idle", "stamped", "admitted", "refused"}]
    BY DEF Decide, TypeOK
  <1>7. UNCHANGED <<clock, key, now, window>>
    BY DEF Decide, Touch
  <1> QED
    BY <1>3, <1>4, <1>5, <1>6, <1>7 DEF TypeOK

LEMMA TypeOKStep == TypeOK /\ [Next]_vars => TypeOK'
  <1> SUFFICES ASSUME TypeOK, [Next]_vars PROVE TypeOK'
    OBVIOUS
  <1>1. CASE Tick
    <2>1. clock' \in 0..MaxClock /\ 0..clock \subseteq 0..clock'
      BY <1>1, UnitAssumption DEF Tick, TypeOK
    <2> QED
      BY <1>1, <2>1 DEF Tick, TypeOK, requestVars, bucketVars, historyVars
  <1>2. ASSUME NEW c \in Requests, NEW k \in Keys, Arrive(c, k) PROVE TypeOK'
    <2>1. clock \in 0..clock
      BY UnitAssumption DEF TypeOK
    <2> QED
      BY <1>2, <2>1 DEF Arrive, TypeOK, bucketVars, historyVars
  <1>3. ASSUME NEW c \in Requests, Decide(c) PROVE TypeOK'
    BY <1>3, DecideType
  <1>4. ASSUME NEW c \in Requests, Finish(c) PROVE TypeOK'
    BY <1>4 DEF Finish, TypeOK, bucketVars, historyVars
  <1>5. CASE UNCHANGED vars
    BY <1>5 DEF vars, TypeOK, requestVars, bucketVars, historyVars
  <1> QED
    BY <1>1, <1>2, <1>3, <1>4, <1>5 DEF Next

(* Every variable keeps its type. *)
THEOREM Typed == Spec => []TypeOK
  BY TypeOKInit, TypeOKStep, PTL DEF Spec

LEMMA QuotaInvInit == Init => QuotaInv
  <1> SUFFICES ASSUME Init PROVE QuotaInv
    OBVIOUS
  <1>1. TypeOK
    BY TypeOKInit
  <1>2. WindowQuota
    <2> SUFFICES ASSUME NEW k \in Keys
                 PROVE  counted[k] * One <= Capacity + Rate * (window[2] - window[1])
      BY DEF WindowQuota
    <2>1. window[1] \in Nat /\ window[2] \in Nat /\ window[1] <= window[2]
      BY UnitAssumption DEF Init, Windows
    <2>2. Rate * (window[2] - window[1]) \in Nat
      BY <2>1, Options
    <2>3. counted[k] * One = 0
      BY UnitAssumption DEF Init
    <2> QED
      BY <2>2, <2>3, Options
  <1> QED
    BY <1>1, <1>2 DEF QuotaInv, Init

LEMMA DecideQuota ==
  ASSUME QuotaInv, NEW c \in Requests, Decide(c)
  PROVE  QuotaInv'
  <1> SUFFICES ASSUME NEW k, k = key[c],
                      NEW t, t = now[c],
                      NEW refilled, refilled = Refilled(k, t),
                      NEW start, start = window[1],
                      NEW end, end = window[2]
               PROVE  QuotaInv'
    OBVIOUS
  <1>1. TypeOK /\ TypeOK'
    BY DecideType DEF QuotaInv
  <1>2. /\ k \in Keys /\ t \in Int /\ t \in 0..clock
        /\ start \in Int /\ end \in Int /\ start <= end
        /\ One \in Int /\ One > 0 /\ Capacity \in Int
    BY <1>1, Options, UnitAssumption DEF TypeOK, Windows
  <1>3. /\ refilled \in Int /\ refilled <= Capacity
        /\ k \in known => refilled <= Worth(k) + Rate * t
    BY <1>1, <1>2, RefilledType
  <1>4. /\ known' = known \cup {k}
        /\ seen' = [seen EXCEPT ![k] = t]
        /\ window' = window
    BY DEF Decide, Touch, Stamp
  <1>5. \A j \in Keys \ {k} :
          /\ tokens'[j] = tokens[j] /\ seen'[j] = seen[j] /\ counted'[j] = counted[j]
          /\ j \in known' <=> j \in known
    BY <1>1, <1>4 DEF Decide, Admit, Refuse, TypeOK
  <1>6. seen'[k] = t /\ k \in known'
    BY <1>1, <1>2, <1>4 DEF TypeOK
  <1>7. /\ Rate * t \in Int /\ Rate * start \in Int /\ Rate * end \in Int
        /\ Rate * (end - start) = Rate * end - Rate * start
        /\ start <= t => Rate * start <= Rate * t
        /\ t <= end => Rate * t <= Rate * end
    <2>1. Rate \in Int
      BY Options
    <2> QED
      BY <1>2, <2>1, RateDistributes
  <1>8. /\ counted[k] \in Nat /\ tokens[k] \in Int /\ Worth(k) \in Int
        /\ counted[k] * One \in Int /\ (counted[k] + 1) * One = counted[k] * One + One
    <2>1. seen[k] \in Int /\ tokens[k] \in Int /\ counted[k] \in Nat
      BY <1>1, <1>2 DEF TypeOK
    <2>2. Rate * seen[k] \in Int
      BY <2>1, RateDistributes
    <2>3. (counted[k] + 1) * One = counted[k] * One + One /\ counted[k] * One \in Nat
      BY <2>1, OneMoreToken
    <2> QED
      BY <2>1, <2>2, <2>3 DEF Worth
  \* The three conjuncts for k, then for the keys the request does not touch.
  <1>9. /\ tokens'[k] <= Capacity
        /\ counted'[k] > 0 => counted'[k] * One + Worth(k)' <= Capacity - Rate * start
        /\ counted'[k] * One <= Capacity + Rate * (end - start)
    <2>1. CASE Enough(k, t) /\ Admit(k, t)
      <3>1. tokens'[k] = refilled - One /\ refilled >= One
        BY <1>1, <1>2, <2>1 DEF Admit, Enough, TypeOK
      <3>2. Worth(k)' = refilled - One - Rate * t
        BY <1>6, <3>1 DEF Worth
      <3>3. CASE t \in start..end
        <4>1. counted'[k] = counted[k] + 1
          BY <1>1, <1>2, <2>1, <3>3 DEF Admit, TypeOK
        <4>2. start <= t /\ t <= end
          BY <1>2, <3>3
        <4>3. counted[k] * One + refilled - Rate * t <= Capacity - Rate * start
          <5>1. CASE counted[k] = 0
            <6>1. counted[k] * One = 0
              BY <1>2, <5>1
            <6> QED
              BY <1>2, <1>3, <1>7, <4>2, <6>1
          <5>2. CASE counted[k] > 0
            <6>1. /\ k \in known
                  /\ counted[k] * One + Worth(k) <= Capacity - Rate * start
              BY <1>2, <5>2 DEF QuotaInv
            <6> QED
              BY <1>2, <1>3, <1>7, <1>8, <6>1
          <5> QED
            BY <1>8, <5>1, <5>2
        <4> QED
          BY <1>2, <1>3, <1>7, <1>8, <3>1, <3>2, <4>1, <4>2, <4>3
      <3>4. CASE t \notin start..end
        <4>1. counted'[k] = counted[k]
          BY <2>1, <3>4 DEF Admit
        <4>2. counted[k] > 0 => counted[k] * One + Worth(k) <= Capacity - Rate * start /\ k \in known
          BY <1>2 DEF QuotaInv
        <4>3. counted[k] * One <= Capacity + Rate * (end - start)
          BY <1>2 DEF QuotaInv, WindowQuota
        <4> QED
          BY <1>2, <1>3, <1>7, <1>8, <3>1, <3>2, <4>1, <4>2, <4>3
      <3> QED
        BY <3>3, <3>4
    <2>2. CASE Refuse(k, t)
      <3>1. tokens'[k] = refilled /\ counted'[k] = counted[k]
        BY <1>1, <1>2, <2>2 DEF Refuse, TypeOK
      <3>2. Worth(k)' = refilled - Rate * t
        BY <1>6, <3>1 DEF Worth
      <3>3. counted[k] > 0 => counted[k] * One + Worth(k) <= Capacity - Rate * start /\ k \in known
        BY <1>2 DEF QuotaInv
      <3>4. counted[k] * One <= Capacity + Rate * (end - start)
        BY <1>2 DEF QuotaInv, WindowQuota
      <3> QED
        BY <1>2, <1>3, <1>7, <1>8, <3>1, <3>2, <3>3, <3>4
    <2> QED
      BY <2>1, <2>2 DEF Decide
  <1>10. \A j \in Keys \ {k} :
          /\ j \in known' => tokens'[j] <= Capacity
          /\ counted'[j] > 0 =>
               j \in known' /\ counted'[j] * One + Worth(j)' <= Capacity - Rate * start
          /\ counted'[j] * One <= Capacity + Rate * (end - start)
    BY <1>5 DEF QuotaInv, Worth, WindowQuota
  <1>11. UNCHANGED <<Capacity, Rate, window>>
    BY <1>4 DEF Capacity, Rate, OrDefault
  <1>12. known' \subseteq Keys
    BY <1>1 DEF TypeOK
  <1> QED
    BY <1>1, <1>6, <1>9, <1>10, <1>11, <1>12 DEF QuotaInv, WindowQuota

LEMMA QuotaInvStep == QuotaInv /\ [Next]_vars => QuotaInv'
  <1> SUFFICES ASSUME QuotaInv, [Next]_vars PROVE QuotaInv'
    OBVIOUS
  <1>1. TypeOK'
    BY TypeOKStep DEF QuotaInv
  <1>2. CASE UNCHANGED <<bucketVars, historyVars>>
    BY <1>1, <1>2 DEF QuotaInv, WindowQuota, Worth, bucketVars, historyVars
  <1>3. ASSUME NEW c \in Requests, Decide(c) PROVE QuotaInv'
    BY <1>3, DecideQuota
  <1> QED
    BY <1>2, <1>3 DEF Next, Tick, Arrive, Finish, vars

(* Whatever order the requests of a key reach the mutex in, the number     *)
(* admitted with stamps in any interval is bounded by a full bucket and    *)
(* what the interval refills.                                              *)
THEOREM Quota == Spec => []WindowQuota
  <1>1. QuotaInv => WindowQuota
    BY DEF QuotaInv
  <1> QED
    BY <1>1, QuotaInvInit, QuotaInvStep, PTL DEF Spec

-----------------------------------------------------------------------------
(* A refill to t, spelt out by whether it is clipped. *)
LEMMA RefillCases ==
  ASSUME TypeOK, NEW k \in Keys, NEW t \in 0..clock
  PROVE  /\ k \notin known => Refilled(k, t) = Capacity
         /\ k \in known => \/ /\ Worth(k) + Rate * t <= Capacity
                              /\ Refilled(k, t) = Worth(k) + Rate * t
                           \/ /\ Worth(k) + Rate * t > Capacity
                              /\ Refilled(k, t) = Capacity
  <1>1. /\ t \in Int /\ seen[k] \in Int /\ tokens[k] \in Int
        /\ Capacity \in Int /\ Rate \in Int
    BY Options DEF TypeOK
  <1>2. CASE k \in known
    <2>1. (t - seen[k]) * Rate = Rate * t - Rate * seen[k] /\ Rate * t \in Int /\ Rate * seen[k] \in Int
      BY <1>1, RateDistributes
    <2> QED
      BY <1>1, <1>2, <2>1 DEF Refilled, Held, LastSeen, Worth
  <1>3. CASE k \notin known
    <2>1. (t - t) * Rate = 0
      BY <1>1
    <2> QED
      BY <1>1, <1>3, <2>1 DEF Refilled, Held, LastSeen
  <1> QED
    BY <1>2, <1>3

(* What a decision does to the bucket it touches. *)
LEMMA DecidedBucket ==
  ASSUME TypeOK, NEW c \in Requests, Decide(c),
         NEW k, k = key[c], NEW t, t = now[c]
  PROVE  /\ k \in Keys /\ t \in 0..clock /\ t \in 0..MaxClock
         /\ k \in known' /\ seen'[k] = t
         /\ newest'[k] = Larger(newest[k], t)
         /\ \/ /\ Enough(k, t) /\ pc'[c] = "admitted"
               /\ tokens'[k] = Refilled(k, t) - One
               /\ counted'[k] = IF t \in window[1]..window[2] THEN counted[k] + 1
                                                              ELSE counted[k]
            \/ /\ ~Enough(k, t) /\ pc'[c] = "refused"
               /\ tokens'[k] = Refilled(k, t)
               /\ counted'[k] = counted[k]
  <1>1. k \in Keys /\ t \in 0..clock /\ t \in 0..MaxClock
    BY UnitAssumption DEF TypeOK
  <1>2. k \in known' /\ seen'[k] = t /\ newest'[k] = Larger(newest[k], t)
    BY <1>1 DEF Decide, Touch, Stamp, TypeOK
  <1>3. CASE Enough(k, t) /\ Admit(k, t) /\ pc' = [pc EXCEPT ![c] = "admitted"]
    BY <1>1, <1>2, <1>3 DEF Admit, TypeOK
  <1>4. CASE ~Enough(k, t) /\ Refuse(k, t) /\ pc' = [pc EXCEPT ![c] = "refused"]
    BY <1>1, <1>2, <1>4 DEF Refuse, TypeOK
  <1> QED
    BY <1>3, <1>4 DEF Decide

(* Only a decision refuses. *)
LEMMA RefusedByDecide ==
  ASSUME TypeOK, [Next]_vars, NEW c \in Requests,
         pc[c] = "stamped", pc'[c] = "refused"
  PROVE  Decide(c)
  <1>1. ~Tick /\ ~UNCHANGED vars
    BY DEF Tick, vars, requestVars
  <1>2. ASSUME NEW d \in Requests, NEW k \in Keys PROVE ~Arrive(d, k)
    BY DEF Arrive, TypeOK
  <1>3. ASSUME NEW d \in Requests PROVE ~Finish(d)
    BY DEF Finish, TypeOK
  <1>4. ASSUME NEW d \in Requests, Decide(d) PROVE d = c
    BY <1>4 DEF Decide, TypeOK
  <1> QED
    BY <1>1, <1>2, <1>3, <1>4 DEF Next

(* Clipping at the capacity now or later comes to the same, so a refusal,  *)
(* which only moves lastSeen and settles what was refilled until then,     *)
(* leaves what a request stamped with the present would find.              *)
LEMMA RefusalKeepsWorth ==
  ASSUME TypeOK, NEW c \in Requests, Decide(c), pc'[c] = "refused"
  PROVE  Refilled(key[c], clock)' = Refilled(key[c], clock)
  <1> SUFFICES ASSUME NEW k, k = key[c], NEW t, t = now[c]
               PROVE  Refilled(k, clock)' = Refilled(k, clock)
    BY DEF Decide
  <1>1. TypeOK' /\ clock' = clock /\ UNCHANGED <<Capacity, Rate>>
    BY DecideType DEF Decide, Capacity, Rate, OrDefault
  <1>2. /\ k \in Keys /\ t \in 0..clock /\ k \in known' /\ seen'[k] = t
        /\ tokens'[k] = Refilled(k, t)
    BY DecidedBucket
  <1>3. /\ clock \in 0..clock /\ clock \in Int /\ t \in Int /\ t <= clock
        /\ Capacity \in Int /\ Rate \in Int
    BY <1>2, Options, UnitAssumption DEF TypeOK
  <1>4. /\ Rate * t \in Int /\ Rate * clock \in Int /\ Rate * t <= Rate * clock
        /\ (clock - t) * Rate = Rate * clock - Rate * t
    BY <1>3, RateDistributes
  <1>5. Refilled(k, t) \in Int
    BY <1>2, RefilledType
  <1>6. k \in known => Worth(k) \in Int
    <2>1. seen[k] \in Int /\ tokens[k] \in Int
      BY <1>2 DEF TypeOK
    <2>2. Rate * seen[k] \in Int
      BY <2>1, RateDistributes
    <2> QED
      BY <2>1, <2>2 DEF Worth
  <1>7. Refilled(k, clock)' =
          IF Refilled(k, t) + Rate * clock - Rate * t > Capacity
          THEN Capacity ELSE Refilled(k, t) + Rate * clock - Rate * t
    BY <1>1, <1>2, <1>3, <1>4, <1>5 DEF Refilled, Held, LastSeen
  <1>8. CASE k \notin known
    <2>1. Refilled(k, t) = Capacity /\ Refilled(k, clock) = Capacity
      BY <1>2, <1>3, <1>8, RefillCases
    <2> QED
      BY <1>3, <1>4, <1>7, <2>1
  <1>9. CASE k \in known
    <2>1. \/ Worth(k) + Rate * t <= Capacity /\ Refilled(k, t) = Worth(k) + Rate * t
          \/ Worth(k) + Rate * t > Capacity /\ Refilled(k, t) = Capacity
      BY <1>2, <1>9, RefillCases
    <2>2. \/ Worth(k) + Rate * clock <= Capacity /\ Refilled(k, clock) = Worth(k) + Rate * clock
          \/ Worth(k) + Rate * clock > Capacity /\ Refilled(k, clock) = Capacity
      BY <1>2, <1>3, <1>9, RefillCases
    <2>3. ASSUME NEW w \in Int, NEW x \in Int, NEW y \in Int, x <= y,
                 NEW r \in Int, NEW q \in Int,
                 \/ w + x <= Capacity /\ r = w + x
                 \/ w + x > Capacity /\ r = Capacity,
                 \/ w + y <= Capacity /\ q = w + y
                 \/ w + y > Capacity /\ q = Capacity
          PROVE  (IF r + y - x > Capacity THEN Capacity ELSE r + y - x) = q
      BY <1>3, <2>3
    <2>4. Refilled(k, clock) \in Int
      BY <1>2, <1>3, RefilledType
    <2>5. (IF Refilled(k, t) + Rate * clock - Rate * t > Capacity
           THEN Capacity ELSE Refilled(k, t) + Rate * clock - Rate * t) = Refilled(k, clock)
      BY <1>4, <1>5, <1>6, <1>9, <2>1, <2>2, <2>3, <2>4
    <2> QED
      BY <1>7, <2>5
  <1> QED
    BY <1>8, <1>9

(* A refused request, however stale its stamp, costs its key nothing.      *)
THEOREM RefusalsAreFree == Spec => RefusalIsFree
  <1>1. TypeOK /\ [Next]_vars =>
          [\A c \in Requests :
             (pc[c] = "stamped" /\ pc'[c] = "refused") =>
               Refilled(key[c], clock)' = Refilled(key[c], clock)]_vars
    BY RefusedByDecide, RefusalKeepsWorth
  <1> QED
    BY <1>1, Typed, PTL DEF Spec, RefusalIsFree

-----------------------------------------------------------------------------
(* When every stamp is counted, a bucket holds at least a full one less    *)
(* what its key was admitted, once it is refilled to the latest stamp seen. *)
Burst(k) ==
  IF k \in known THEN Worth(k) + Rate * newest[k] + counted[k] * One >= Capacity
                 ELSE counted[k] = 0

BurstInv == TypeOK /\ (window = <<0, MaxClock>> => \A k \in Keys : Burst(k))

LEMMA BurstInvInit == Init => BurstInv
  BY TypeOKInit DEF Init, BurstInv, Burst

LEMMA BucketNumbers ==
  ASSUME TypeOK, NEW k \in Keys
  PROVE  /\ Rate * newest[k] \in Int /\ Worth(k) \in Int /\ counted[k] \in Nat
         /\ counted[k] * One \in Int /\ (counted[k] + 1) * One = counted[k] * One + One
  <1>1. newest[k] \in Int /\ seen[k] \in Int /\ tokens[k] \in Int /\ counted[k] \in Nat
    BY DEF TypeOK
  <1>2. Rate * newest[k] \in Int /\ Rate * seen[k] \in Int
    BY <1>1, RateDistributes
  <1> QED
    BY <1>1, <1>2, OneMoreToken DEF Worth

LEMMA DecideBurst ==
  ASSUME BurstInv, NEW c \in Requests, Decide(c), window = <<0, MaxClock>>
  PROVE  \A j \in Keys : Burst(j)'
  <1> SUFFICES ASSUME NEW k, k = key[c], NEW t, t = now[c]
               PROVE  \A j \in Keys : Burst(j)'
    OBVIOUS
  <1>1. TypeOK /\ TypeOK' /\ UNCHANGED <<Capacity, Rate>>
    BY DecideType DEF BurstInv, Capacity, Rate, OrDefault
  <1>2. /\ k \in Keys /\ t \in 0..clock /\ t \in 0..MaxClock
        /\ k \in known' /\ seen'[k] = t
        /\ newest'[k] = Larger(newest[k], t)
        /\ \/ /\ tokens'[k] = Refilled(k, t) - One
              /\ counted'[k] = counted[k] + 1
           \/ /\ tokens'[k] = Refilled(k, t)
              /\ counted'[k] = counted[k]
    <2>1. window[1]..window[2] = 0..MaxClock
      OBVIOUS
    <2> QED
      BY <1>1, <2>1, DecidedBucket
  <1>3. /\ Refilled(k, t) \in Int /\ One \in Int /\ Capacity \in Int
        /\ newest[k] \in Int /\ newest'[k] \in Int /\ t \in Int
        /\ newest'[k] >= t /\ newest'[k] >= newest[k]
    <2>1. t \in Int /\ newest[k] \in Int
      BY <1>1, <1>2 DEF TypeOK
    <2> QED
      BY <1>1, <1>2, <2>1, RefilledType, Options, UnitAssumption DEF Larger
  <1>4. /\ Rate * t \in Int /\ Rate * newest[k] \in Int /\ Rate * newest'[k] \in Int
        /\ Rate * t <= Rate * newest'[k] /\ Rate * newest[k] <= Rate * newest'[k]
    BY <1>3, RateDistributes
  <1>5. /\ Worth(k) \in Int /\ counted[k] \in Nat /\ counted[k] * One \in Nat
        /\ (counted[k] + 1) * One = counted[k] * One + One
    BY <1>1, <1>2, BucketNumbers, OneMoreToken
  <1>6. Worth(k)' = tokens'[k] - Rate * t
    BY <1>1, <1>2 DEF Worth
  <1>7. Refilled(k, t) - Rate * t + Rate * newest'[k] + counted[k] * One >= Capacity
    <2>1. CASE Refilled(k, t) = Capacity
      BY <1>3, <1>4, <1>5, <2>1
    <2>2. CASE k \in known /\ Refilled(k, t) = Worth(k) + Rate * t
      <3>1. Worth(k) + Rate * newest[k] + counted[k] * One >= Capacity
        BY <1>2, <2>2 DEF BurstInv, Burst
      <3> QED
        BY <1>3, <1>4, <1>5, <2>2, <3>1
    <2> QED
      BY <1>1, <1>2, <2>1, <2>2, RefillCases
  <1>8. Burst(k)'
    <2>1. Worth(k)' + Rate * newest'[k] + counted'[k] * One >= Capacity
      <3>1. CASE tokens'[k] = Refilled(k, t) - One /\ counted'[k] = counted[k] + 1
        BY <1>3, <1>4, <1>5, <1>6, <1>7, <3>1
      <3>2. CASE tokens'[k] = Refilled(k, t) /\ counted'[k] = counted[k]
        BY <1>3, <1>4, <1>5, <1>6, <1>7, <3>2
      <3> QED
        BY <1>2, <3>1, <3>2
    <2> QED
      BY <1>1, <1>2, <2>1 DEF Burst
  <1>9. ASSUME NEW j \in Keys \ {k} PROVE Burst(j)'
    <2>1. /\ tokens'[j] = tokens[j] /\ seen'[j] = seen[j] /\ counted'[j] = counted[j]
          /\ newest'[j] = newest[j]
          /\ j \in known' <=> j \in known
      BY <1>1, <1>9 DEF Decide, Touch, Admit, Refuse, TypeOK
    <2>2. Burst(j)
      BY <1>9 DEF BurstInv
    <2> QED
      BY <1>1, <2>1, <2>2 DEF Burst, Worth
  <1> QED
    BY <1>8, <1>9

LEMMA BurstInvStep == BurstInv /\ [Next]_vars => BurstInv'
  <1> SUFFICES ASSUME BurstInv, [Next]_vars PROVE BurstInv'
    OBVIOUS
  <1>1. TypeOK'
    BY TypeOKStep DEF BurstInv
  <1>2. CASE UNCHANGED <<bucketVars, historyVars>>
    BY <1>1, <1>2 DEF BurstInv, Burst, Worth, bucketVars, historyVars
  <1>3. ASSUME NEW c \in Requests, Decide(c) PROVE BurstInv'
    <2>1. window' = window
      BY <1>3 DEF Decide, Touch
    <2> QED
      BY <1>1, <1>3, <2>1, DecideBurst DEF BurstInv
  <1> QED
    BY <1>2, <1>3 DEF Next, Tick, Arrive, Finish, vars

LEMMA RefusedPoor ==
  ASSUME BurstInv, NEW c \in Requests, Decide(c), pc'[c] = "refused",
         now[c] >= newest[key[c]], window = <<0, MaxClock>>
  PROVE  (counted[key[c]] + 1) * One > Capacity
  <1> SUFFICES ASSUME NEW k, k = key[c], NEW t, t = now[c]
               PROVE  (counted[k] + 1) * One > Capacity
    OBVIOUS
  <1>1. TypeOK /\ k \in Keys /\ t \in 0..clock /\ Refilled(k, t) < One
    <2>1. TypeOK
      BY DEF BurstInv
    <2>2. k \in Keys /\ t \in 0..clock /\ ~Enough(k, t)
      BY <2>1, DecidedBucket
    <2> QED
      BY <2>1, <2>2, RefilledType, UnitAssumption DEF Enough
  <1>2. /\ Refilled(k, t) \in Int /\ One \in Int /\ Capacity \in Int
        /\ newest[k] \in Int /\ t \in Int /\ newest[k] <= t
    <2>1. t \in Int /\ newest[k] \in Int
      BY <1>1 DEF TypeOK
    <2> QED
      BY <1>1, <2>1, RefilledType, Options, UnitAssumption
  <1>3. Rate * newest[k] <= Rate * t /\ Rate * newest[k] \in Int /\ Rate * t \in Int
    BY <1>2, RateDistributes
  <1>4. /\ Worth(k) \in Int /\ counted[k] * One \in Nat
        /\ (counted[k] + 1) * One = counted[k] * One + One
    BY <1>1, BucketNumbers, OneMoreToken
  <1>5. CASE Refilled(k, t) = Capacity
    BY <1>1, <1>2, <1>4, <1>5
  <1>6. CASE k \in known /\ Refilled(k, t) = Worth(k) + Rate * t
    <2>1. Worth(k) + Rate * newest[k] + counted[k] * One >= Capacity
      BY <1>1, <1>6 DEF BurstInv, Burst
    <2> QED
      BY <1>1, <1>2, <1>3, <1>4, <1>6, <2>1
  <1> QED
    BY <1>1, <1>5, <1>6, RefillCases

(* A request that no later stamp has overtaken is refused only after its   *)
(* own key was admitted a whole bucket: no other key can take its tokens.  *)
THEOREM RefusedOnlyAfterBurst == Spec => RefusedAfterBurst
  <1>1. BurstInv /\ [Next]_vars =>
          [\A c \in Requests :
             (/\ pc[c] = "stamped" /\ pc'[c] = "refused"
              /\ now[c] >= newest[key[c]]
              /\ window = <<0, MaxClock>>)
               => (counted[key[c]] + 1) * One > Capacity]_vars
    BY RefusedByDecide, RefusedPoor DEF BurstInv
  <1> QED
    BY <1>1, BurstInvInit, BurstInvStep, PTL DEF Spec, RefusedAfterBurst
=============================================================================
