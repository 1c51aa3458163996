------------------------------ MODULE TestCache ------------------------------
(***************************************************************************)
(* cmd/tester after its wait: main's loop over the packages and            *)
(* runTestsWithCache, which skips a package whose passing result is in the *)
(* cache directory and not older than the TTL.  Several testers, with      *)
(* different patterns and settings, share the directory while the code     *)
(* under test changes.                                                     *)
(*                                                                         *)
(* A cache file is its modification time: only passes are written, so its  *)
(* mere presence is the verdict.                                           *)
(***************************************************************************)
EXTENDS Integers, Sequences, FiniteSets

CONSTANTS
  Testers,   \* processes
  Configs,   \* what the environment of each may be: Config values
  TTL,       \* TEST_CACHE_TTL, in ticks
  TestTime,  \* ticks: the longest one go test takes
  MaxClock   \* bound: the clock stops there

VARIABLES
  clock,
  watched,  \* history: a package and a pattern, any ones, chosen at the start
  passes,   \* environment: whether the watched tests pass now
  lastPass, \* history: the last tick they did
  cache,    \* the cache directory: when the file of each pair was written, or NoFile
  run       \* the state of each tester

worldVars == <<clock, watched, passes, lastPass>>
vars == <<worldVars, cache, run>>

(* A Config: what go list yields for its PKG, a sequence; TEST_PATTERN and  *)
(* FLAGS in one, which select the tests of a package; TEST_CACHE_ENABLED.  *)
(* FAST is no caching, too: its one go test takes the packages in turn.    *)
AllConfigs == UNION {Configs[t] : t \in Testers}
PackagesOf(c) == {c.packages[i] : i \in DOMAIN c.packages}
Patterns == {c.pattern : c \in AllConfigs}
Pairs == UNION {PackagesOf(c) \X {c.pattern} : c \in AllConfigs}
Never == -1 - TTL - TestTime
NoFile == Never

ConstantsOK ==
  /\ {TTL, TestTime, MaxClock} \subseteq Nat
  /\ AllConfigs \subseteq [packages : Seq(UNION {PackagesOf(c) : c \in AllConfigs}) \ {<<>>},
                           pattern : Patterns, caching : BOOLEAN]

NoConfig == [packages |-> <<>>, pattern |-> "", caching |-> FALSE]
Idle == [pc |-> "idle", config |-> NoConfig, left |-> <<>>,
         passed |-> FALSE, start |-> 0, began |-> 0, ok |-> FALSE]

TypeOK ==
  /\ clock \in 0..MaxClock
  /\ watched \in Pairs
  /\ passes \in BOOLEAN
  /\ lastPass \in Never..clock
  /\ cache \in [Pairs -> Never..clock]
  /\ \A t \in Testers :
       /\ run[t].pc \in {"idle", "look", "test", "report"}
       /\ run[t].config \in Configs[t] \cup {NoConfig}
       /\ run[t].start \in 0..clock /\ run[t].began \in 0..clock
       /\ run[t].ok \in BOOLEAN

Init ==
  /\ clock = 0
  /\ watched \in Pairs
  /\ passes = FALSE
  /\ lastPass = Never
  /\ cache = [x \in Pairs |-> NoFile]
  /\ run = [t \in Testers |-> Idle]

-----------------------------------------------------------------------------
(* The code under test is edited between ticks; a test run takes at most   *)
(* TestTime, its writing of the cache included.                            *)
Tick ==
  /\ clock < MaxClock
  /\ \A t \in Testers : run[t].pc \in {"test", "report"} => clock - run[t].began < TestTime
  /\ clock' = clock + 1
  /\ passes' \in BOOLEAN
  /\ lastPass' = IF passes' THEN clock' ELSE lastPass
  /\ UNCHANGED <<watched, cache, run>>

(* Mutant: the key is the package alone. *)
KeyOfPackage(package, pattern) == <<package, CHOOSE p \in Patterns : <<package, p>> \in Pairs>>

(* computeCacheKey *)
CacheKey(package, pattern) == <<package, pattern>>

(* isCacheValid *)
IsCacheValid(file) == cache[file] # NoFile /\ clock - cache[file] <= TTL

Current(t) == CacheKey(Head(run[t].left), run[t].config.pattern)
Selected(t) == <<Head(run[t].left), run[t].config.pattern>>

(* The exit code is 0, or it is not. *)
Exited(ok) == [Idle EXCEPT !.ok = ok]

(* A tester starts: LoadConfig and go list, which may fail or find nothing. *)
Begin(t, c) ==
  /\ run[t].pc = "idle"
  /\ run' = [run EXCEPT ![t] = [Idle EXCEPT !.pc = "look", !.config = c,
                !.left = c.packages, !.start = clock]]
  /\ UNCHANGED <<worldVars, cache>>

NothingListed(t) ==
  /\ run[t].pc = "idle"
  /\ \E ok \in BOOLEAN : run' = [run EXCEPT ![t] = Exited(ok)]
  /\ UNCHANGED <<worldVars, cache>>

(* The loop of main: the first failure ends it. *)
Forward(t, passed) ==
  LET left == Tail(run[t].left)
  IN run' = [run EXCEPT ![t] =
       CASE ~passed -> Exited(FALSE)
         [] passed /\ left = <<>> -> Exited(TRUE)
         [] OTHER -> [@ EXCEPT !.pc = "look", !.left = left, !.passed = FALSE, !.began = 0]]

(* The output in the file is printed if it can be read: a pass either way. *)
Hit(t) ==
  /\ run[t].pc = "look"
  /\ run[t].config.caching /\ IsCacheValid(Current(t))
  /\ Forward(t, TRUE)
  /\ UNCHANGED <<worldVars, cache>>

Miss(t) ==
  /\ run[t].pc = "look"
  /\ ~(run[t].config.caching /\ IsCacheValid(Current(t)))
  /\ run' = [run EXCEPT ![t] = [@ EXCEPT !.pc = "test", !.began = clock]]
  /\ UNCHANGED <<worldVars, cache>>

(* go test reads the code, at some moment of its run. *)
Test(t) ==
  /\ run[t].pc = "test"
  /\ \E passed \in (IF Selected(t) = watched THEN {passes} ELSE BOOLEAN) :
       run' = [run EXCEPT ![t] = [@ EXCEPT !.pc = "report", !.passed = passed]]
  /\ UNCHANGED <<worldVars, cache>>

(* Mutant: a failure is cached too. *)
WritesAlways(t) == run[t].config.caching

Writes(t) == run[t].config.caching /\ run[t].passed

(* The result; writing it to the cache may fail, which is ignored. *)
Report(t) ==
  /\ run[t].pc = "report"
  /\ \/ Writes(t) /\ cache' = [cache EXCEPT ![Current(t)] = clock]
     \/ UNCHANGED cache
  /\ Forward(t, run[t].passed)
  /\ UNCHANGED worldVars

(* The tester is killed. *)
Die(t) ==
  /\ run[t].pc \in {"look", "test", "report"}
  /\ run' = [run EXCEPT ![t] = Idle]
  /\ UNCHANGED <<worldVars, cache>>

Next ==
  \/ Tick
  \/ \E t \in Testers :
       \/ \E c \in Configs[t] : Begin(t, c)
       \/ NothingListed(t) \/ Hit(t) \/ Miss(t) \/ Test(t) \/ Report(t) \/ Die(t)

Spec == Init /\ [][Next]_vars

-----------------------------------------------------------------------------
(* A tester that exits with 0 speaks of recent code: the tests its pattern  *)
(* selects of each package (the watched ones stand for any) passed at some  *)
(* moment no earlier than the TTL and one test run before it started, and   *)
(* no earlier than its start if it does not cache: whatever testers with    *)
(* other patterns left in the directory, and however many failed or died.   *)
VerdictIsRecent ==
  [][\A t \in Testers :
       (/\ run[t].left # <<>> /\ run'[t].ok
        /\ watched[1] \in PackagesOf(run[t].config) /\ watched[2] = run[t].config.pattern) =>
         lastPass >= run[t].start - (IF run[t].config.caching THEN TTL + TestTime ELSE 0)]_vars
=============================================================================
