------------------------------ MODULE WaitForApi ------------------------------
(***************************************************************************)
(* waitForAPI of cmd/tester: ask /health until it answers, sleeping longer *)
(* after every attempt, for a total budget.                                *)
(*                                                                         *)
(* The loop reads the elapsed time once, before the request, and clips the *)
(* sleep with that reading after the request, which may have taken as long *)
(* as the client's timeout.  Its context is context.Background: nobody     *)
(* cancels it.                                                             *)
(***************************************************************************)
EXTENDS Integers, Sequences

CONSTANTS
  Budget,                      \* maxTotalWait, in ticks
  RequestTime,                 \* http.Client.Timeout
  InitialBackoff, MaxBackoff,
  Decayed  \* (MaxBackoff - InitialBackoff) * decay^attempt, from attempt 0, until it is 0

ConstantsOK ==
  /\ {Budget, RequestTime, InitialBackoff, MaxBackoff} \subseteq Nat
  /\ Decayed \in Seq(Nat)

VARIABLES
  clock,
  api,     \* environment: "down" refuses or answers an error, "slow" does not answer
  upSince, \* history: when the API last came up, Never while it is not up
  pc,      \* "request", "sleep", "ready" or "failed"
  elapsed, \* read at the top of the loop, before the request
  attempt,
  wake     \* when time.After fires

vars == <<clock, api, upSince, pc, elapsed, attempt, wake>>

Deadline == Budget + RequestTime
Never == Deadline + 1

TypeOK ==
  /\ clock \in Nat
  /\ api \in {"down", "slow", "up"}
  /\ upSince \in Nat
  /\ pc \in {"request", "sleep", "ready", "failed"}
  /\ elapsed \in 0..Budget
  /\ attempt \in Nat
  /\ wake \in Nat

Init ==
  /\ clock = 0
  /\ api \in {"down", "slow"}
  /\ upSince = Never
  /\ pc = "request"
  /\ elapsed = 0
  /\ attempt = 0
  /\ wake = 0

-----------------------------------------------------------------------------
(* How long to sleep. *)

Smaller(a, b) == IF a <= b THEN a ELSE b
Larger(a, b) == IF a >= b THEN a ELSE b

Backoff(a) ==
  LET d == IF a + 1 \in DOMAIN Decayed THEN Decayed[a + 1] ELSE 0
  IN Smaller(Larger(MaxBackoff - d, InitialBackoff), MaxBackoff)

(* Mutant: the sleep is not clipped. *)
WholeBackoff(e, a) == Backoff(a)

(* Mutant: the sleep is clipped when it need not be. *)
Remainder(e, a) == IF e + Backoff(a) > Budget THEN Backoff(a) ELSE Budget - e

TimeToNext(e, a) ==
  IF e + Backoff(a) > Budget THEN Budget - e ELSE Backoff(a)

(* When an attempt starts at the earliest, after the backoffs before it. *)
Earliest[a \in 0..Budget] == IF a = 0 THEN 0 ELSE Earliest[a - 1] + Backoff(a - 1)

(* The numbers of the code: an attempt that may start in the first half of *)
(* the budget, and the sleep after it, end within the budget.              *)
BackoffsAreShort ==
  \A a \in 0..Budget :
    /\ Backoff(a) > 0
    /\ Earliest[a] <= Budget \div 2 => Budget \div 2 + RequestTime + Backoff(a) < Budget

-----------------------------------------------------------------------------
(* The world: time passes, a request lasts RequestTime at most, a sleep     *)
(* ends on time, and the API may come and go whenever time passes.         *)
TimePasses ==
  LET end == IF pc = "request" THEN elapsed + RequestTime ELSE wake
  IN
  /\ pc \in {"request", "sleep"}
  /\ clock' \in clock + 1 .. end
  /\ api' \in {"down", "slow", "up"}
  /\ upSince' = IF api' # "up" THEN Never ELSE IF api = "up" THEN upSince ELSE clock'
  /\ UNCHANGED <<pc, elapsed, attempt, wake>>

Ready ==
  /\ pc = "request"
  /\ api = "up"
  /\ pc' = "ready"
  /\ UNCHANGED <<clock, api, upSince, elapsed, attempt, wake>>

(* An error, a status that is not 2xx or 3xx, or the client's timeout (also *)
(* of a request that was lost before the API came up): compute the backoff  *)
(* and sleep.                                                               *)
NotReady ==
  /\ pc = "request"
  /\ \/ api = "down"
     \/ upSince > elapsed /\ clock - elapsed = RequestTime
  /\ pc' = "sleep"
  /\ wake' = clock + TimeToNext(elapsed, attempt)
  /\ UNCHANGED <<clock, api, upSince, elapsed, attempt>>

Awake == pc = "sleep" /\ clock = wake

(* Time is exact in the code: in the tick the budget ends in, the elapsed  *)
(* time may be either side of it, and once it was the budget itself, any   *)
(* later reading exceeds it.                                               *)
Again ==
  /\ Awake
  /\ clock <= Budget /\ elapsed < Budget
  /\ pc' = "request"
  /\ attempt' = attempt + 1
  /\ elapsed' = clock
  /\ UNCHANGED <<clock, api, upSince, wake>>

(* elapsed > maxTotalWait *)
GiveUp ==
  /\ Awake
  /\ clock >= Budget
  /\ pc' = "failed"
  /\ UNCHANGED <<clock, api, upSince, elapsed, attempt, wake>>

Next == TimePasses \/ Ready \/ NotReady \/ Again \/ GiveUp

Spec == Init /\ [][Next]_vars

-----------------------------------------------------------------------------
(* The wait, with its last request and its last sleep, is over one request  *)
(* timeout after its budget, though every sleep is clipped with a reading   *)
(* of the clock that may be that old.                                       *)
WaitIsBounded == clock <= Deadline

(* The growing, clipped sleeps never step over an API that is up and stays  *)
(* up from the first half of the budget on.                                 *)
EarlyApiIsFound == pc = "failed" => upSince > Budget \div 2

(* The comment at main.go:208, "Don't sleep past maxTotalWait".             *)
NeverSleepsPastBudget == pc = "sleep" => wake <= Budget
=============================================================================
