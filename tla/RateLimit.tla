------------------------------- MODULE RateLimit -------------------------------
(***************************************************************************)
(* middleware/ratelimit: a token bucket per key behind one mutex.          *)
(*                                                                         *)
(* A request reads its key and the clock BEFORE it takes the mutex, so     *)
(* requests may reach the bucket in another order than their stamps: then  *)
(* the elapsed time is negative, tokens are taken back and lastSeen moves  *)
(* backwards.  The critical section is one step (Decide).                  *)
(*                                                                         *)
(* Tokens are counted in units, One unit-count to a token, and time in     *)
(* ticks of the monotonic clock, so that fractions of a token are whole    *)
(* numbers here; float64 rounding is not modelled.                         *)
(***************************************************************************)
EXTENDS Integers

CONSTANTS
  Requests,    \* goroutines serving requests
  Keys,        \* what Options.Key returns: one bucket each
  One,         \* units in a token
  OptCapacity, \* Options.Capacity, in units
  OptRate,     \* Options.RefillRate, in units per tick
  DefaultCapacity, DefaultRate, \* what New replaces them with when not positive
  MaxClock     \* bound: the clock stops there

(* New. *)
OrDefault(opt, default) == IF opt <= 0 THEN default ELSE opt
Capacity == OrDefault(OptCapacity, DefaultCapacity)
Rate == OrDefault(OptRate, DefaultRate)

ASSUME OptionAssumption == OptCapacity \in Int /\ OptRate \in Int
ASSUME DefaultAssumption == DefaultCapacity \in Nat \ {0} /\ DefaultRate \in Nat \ {0}
ASSUME UnitAssumption == One \in Nat \ {0} /\ MaxClock \in Nat

VARIABLES
  clock,
  pc,      \* "idle", "stamped", "admitted" (in the next handler) or "refused"
  key,     \* the key each request computed
  now,     \* the stamp it read
  known,   \* keys with a bucket in Middleware.m
  tokens,  \* bucket.tokens
  seen,    \* bucket.lastSeen
  newest,  \* history: the latest stamp each bucket was touched with
  window,  \* history: an interval of stamps, any one, chosen at the start
  counted  \* history: requests of each key admitted with a stamp in the window

requestVars == <<pc, key, now>>
bucketVars == <<known, tokens, seen>>
historyVars == <<newest, window, counted>>
vars == <<clock, requestVars, bucketVars, historyVars>>

Windows == {w \in (0..MaxClock) \X (0..MaxClock) : w[1] <= w[2]}

TypeOK ==
  /\ clock \in 0..MaxClock
  /\ pc \in [Requests -> {"idle", "stamped", "admitted", "refused"}]
  /\ key \in [Requests -> Keys]
  /\ now \in [Requests -> 0..clock]
  /\ known \subseteq Keys
  /\ tokens \in [Keys -> Int]
  /\ seen \in [Keys -> 0..clock]
  /\ newest \in [Keys -> 0..clock]
  /\ window \in Windows
  /\ counted \in [Keys -> Nat]

Init ==
  /\ clock = 0
  /\ pc = [c \in Requests |-> "idle"]
  /\ key \in {[c \in Requests |-> k] : k \in Keys}
  /\ now = [c \in Requests |-> 0]
  /\ known = {}
  /\ tokens = [k \in Keys |-> 0]
  /\ seen = [k \in Keys |-> 0]
  /\ newest = [k \in Keys |-> 0]
  /\ window \in Windows
  /\ counted = [k \in Keys |-> 0]

-----------------------------------------------------------------------------
(* The critical section, for the bucket of k and a request stamped t. *)

(* Mutant: a new bucket starts empty. *)
HeldEmpty(k) == tokens[k]

(* A new bucket is full and was last seen now. *)
Held(k) == IF k \in known THEN tokens[k] ELSE Capacity
LastSeen(k, t) == IF k \in known THEN seen[k] ELSE t

(* Mutant: the refill is not clipped. *)
Unclipped(k, t) == Held(k) + (t - LastSeen(k, t)) * Rate

Refilled(k, t) ==
  LET sum == Held(k) + (t - LastSeen(k, t)) * Rate
  IN IF sum > Capacity THEN Capacity ELSE sum

Enough(k, t) == Refilled(k, t) >= One

Larger(a, b) == IF a >= b THEN a ELSE b

(* Mutant: lastSeen never moves backwards, though the tokens did. *)
LatestStamp(k, t) == Larger(t, LastSeen(k, t))

(* Mutant: lastSeen is given the elapsed time. *)
ElapsedTime(k, t) == t - LastSeen(k, t)

Stamp(k, t) == t

Touch(k, t) ==
  /\ known' = known \cup {k}
  /\ seen' = [seen EXCEPT ![k] = Stamp(k, t)]
  /\ newest' = [newest EXCEPT ![k] = Larger(@, t)]
  /\ UNCHANGED window

Admit(k, t) ==
  /\ tokens' = [tokens EXCEPT ![k] = Refilled(k, t) - One]
  /\ counted' = IF t \in window[1]..window[2] THEN [counted EXCEPT ![k] = @ + 1] ELSE counted

Refuse(k, t) ==
  /\ tokens' = [tokens EXCEPT ![k] = Refilled(k, t)]
  /\ UNCHANGED counted

-----------------------------------------------------------------------------
Tick ==
  /\ clock < MaxClock
  /\ clock' = clock + 1
  /\ UNCHANGED <<requestVars, bucketVars, historyVars>>

(* A request computes its key and reads the clock. *)
Arrive(c, k) ==
  /\ pc[c] = "idle"
  /\ pc' = [pc EXCEPT ![c] = "stamped"]
  /\ key' = [key EXCEPT ![c] = k]
  /\ now' = [now EXCEPT ![c] = clock]
  /\ UNCHANGED <<clock, bucketVars, historyVars>>

(* From Lock to Unlock. *)
Decide(c) ==
  /\ pc[c] = "stamped"
  /\ Touch(key[c], now[c])
  /\ \/ /\ Enough(key[c], now[c])
        /\ Admit(key[c], now[c])
        /\ pc' = [pc EXCEPT ![c] = "admitted"]
     \/ /\ ~Enough(key[c], now[c])
        /\ Refuse(key[c], now[c])
        /\ pc' = [pc EXCEPT ![c] = "refused"]
  /\ UNCHANGED <<clock, key, now>>

(* The next handler returned, or the 429 was written. *)
Finish(c) ==
  /\ pc[c] \in {"admitted", "refused"}
  /\ pc' = [pc EXCEPT ![c] = "idle"]
  /\ UNCHANGED <<clock, key, now, bucketVars, historyVars>>

Next ==
  \/ Tick
  \/ \E c \in Requests :
       \/ \E k \in Keys : Arrive(c, k)
       \/ Decide(c)
       \/ Finish(c)

Spec == Init /\ [][Next]_vars

-----------------------------------------------------------------------------
(* In every interval of stamps a key is admitted at most a full bucket and  *)
(* what the interval refills, in whatever order its requests reach the      *)
(* mutex: stale stamps give nothing away.                                   *)
WindowQuota ==
  \A k \in Keys : counted[k] * One <= Capacity + Rate * (window[2] - window[1])

(* Buckets are independent and start full: a request that no later stamp    *)
(* has overtaken is refused only after its own key was admitted a whole     *)
(* bucket of requests.  (Of an overtaken request this is false.)            *)
RefusedAfterBurst ==
  [][\A c \in Requests :
       (/\ pc[c] = "stamped" /\ pc'[c] = "refused"
        /\ now[c] >= newest[key[c]]
        /\ window = <<0, MaxClock>>)
         => (counted[key[c]] + 1) * One > Capacity]_vars

(* A refused request costs the key nothing, even one whose stale stamp took *)
(* tokens back: what a request stamped with the present would find is the   *)
(* same before and after the refusal.                                       *)
RefusalIsFree ==
  [][\A c \in Requests :
       (pc[c] = "stamped" /\ pc'[c] = "refused") =>
         Refilled(key[c], clock)' = Refilled(key[c], clock)]_vars
=============================================================================
