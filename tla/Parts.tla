--------------------------------- MODULE Parts ---------------------------------
(***************************************************************************)
(* The components that share no state with any other, in one run that      *)
(* explores one of them at a time: the part under way takes its own steps, *)
(* the others rest in an initial state.  Each keeps its variables, behind  *)
(* an INSTANCE, and its properties are those of its module.                *)
(***************************************************************************)
EXTENDS RateLimit, Sequences

CONSTANTS
  Parts, \* the parts to explore
  AllOptions, AllListings, Unreadable, MaxHeld, \* of the loader, whose reads may fail
  Budget, RequestTime, InitialBackoff, MaxBackoff, Decayed, \* of the tester's wait
  Testers, TesterConfigs, WatchedPairs, TTL, TestTime, CacheClock, \* of its cache
  Providers, Nobody, Places, \* of the documentation
  ListKeys, ValueLists, MaxKeys, Numbers, NotANumber, ListConfigs, \* of list queries
  TraceOptions, TraceIds \* of the chain of services

VARIABLES part,
  lOpts, lListing, lHeld, lLoaded, lResult,
  wClock, wApi, wUpSince, wPc, wElapsed, wAttempt, wWake,
  cClock, cWatched, cPasses, cLastPass, cCache, cRun,
  dType, dValue, dTarget, dUnstored, dFiles, dPc, dKind, dCompared, dPlace, dAnswer,
  dHeld, dRaced, dThere, dGone,
  qPc, qConfig, qQuery, qNumber, qTodo, qFilters, qResult,
  tNext, tHeader, tIntact, tSent, tTrace, tSpan, tArrived

-----------------------------------------------------------------------------
(* The instances: a constant or a module not named here has its own name.    *)

Loader == INSTANCE MigrationLoader WITH
  ReadsFail <- TRUE,
  opts <- lOpts, listing <- lListing, held <- lHeld, loaded <- lLoaded, result <- lResult

Wait == INSTANCE WaitForApi WITH
  clock <- wClock, api <- wApi, upSince <- wUpSince, pc <- wPc,
  elapsed <- wElapsed, attempt <- wAttempt, wake <- wWake

Cache == INSTANCE TestCache WITH
  Configs <- TesterConfigs, MaxClock <- CacheClock,
  clock <- cClock, watched <- cWatched, passes <- cPasses, lastPass <- cLastPass,
  cache <- cCache, run <- cRun

Documents == INSTANCE Docs WITH
  type <- dType, value <- dValue, target <- dTarget, unstored <- dUnstored,
  files <- dFiles, pc <- dPc, kind <- dKind, compared <- dCompared, place <- dPlace,
  answer <- dAnswer, held <- dHeld, raced <- dRaced, there <- dThere, gone <- dGone

Query == INSTANCE ListQuery WITH
  Keys <- ListKeys, Configs <- ListConfigs,
  pc <- qPc, config <- qConfig, query <- qQuery, number <- qNumber, todo <- qTodo,
  filters <- qFilters, result <- qResult

Chain == INSTANCE TraceContext WITH
  Options <- TraceOptions, Ids <- TraceIds,
  next <- tNext, header <- tHeader, intact <- tIntact, sent <- tSent,
  trace <- tTrace, span <- tSpan, arrived <- tArrived

ASSUME LoaderAssumption == Loader!ConstantsOK
ASSUME WaitAssumption == Wait!ConstantsOK
ASSUME BackoffAssumption == Wait!BackoffsAreShort
ASSUME CacheAssumption == Cache!ConstantsOK
ASSUME DocsAssumption == Documents!ConstantsOK
ASSUME ListAssumption == Query!ConstantsOK
ASSUME TraceAssumption == Chain!ConstantsOK

-----------------------------------------------------------------------------
(* One part at a time. *)

Resting(name, state) == part # name => state

PartsInit ==
  /\ part \in Parts
  /\ Init
  /\ Resting("bucket", window = <<0, 0>>)
  /\ Loader!Init
  /\ Resting("loader", lOpts = (CHOOSE o \in AllOptions : TRUE)
                       /\ lListing = (CHOOSE x \in AllListings : TRUE))
  /\ Wait!Init
  /\ Resting("wait", wApi = "down")
  /\ Cache!Init
  /\ cWatched \in WatchedPairs
  /\ Documents!Init
  /\ Query!Init
  /\ Chain!Init

loaderVars == <<lOpts, lListing, lHeld, lLoaded, lResult>>
waitVars == <<wClock, wApi, wUpSince, wPc, wElapsed, wAttempt, wWake>>
cacheVars == <<cClock, cWatched, cPasses, cLastPass, cCache, cRun>>
docsVars == <<dType, dValue, dTarget, dUnstored, dFiles, dPc, dKind, dCompared, dPlace, dAnswer,
              dHeld, dRaced, dThere, dGone>>
queryVars == <<qPc, qConfig, qQuery, qNumber, qTodo, qFilters, qResult>>
chainVars == <<tNext, tHeader, tIntact, tSent, tTrace, tSpan, tArrived>>

OthersRest ==
  /\ UNCHANGED part
  /\ Resting("bucket", UNCHANGED vars)
  /\ Resting("loader", UNCHANGED loaderVars)
  /\ Resting("wait", UNCHANGED waitVars)
  /\ Resting("cache", UNCHANGED cacheVars)
  /\ Resting("docs", UNCHANGED docsVars)
  /\ Resting("list", UNCHANGED queryVars)
  /\ Resting("trace", UNCHANGED chainVars)

BucketStep == part = "bucket" /\ Next /\ OthersRest
LoaderStep == part = "loader" /\ Loader!Next /\ OthersRest
WaitStep == part = "wait" /\ Wait!Next /\ OthersRest
CacheStep == part = "cache" /\ Cache!Next /\ OthersRest
DocsStep == part = "docs" /\ Documents!Next /\ OthersRest
ListStep == part = "list" /\ Query!Next /\ OthersRest
TraceStep == part = "trace" /\ Chain!Next /\ OthersRest

PartsNext ==
  \/ BucketStep \/ LoaderStep \/ WaitStep \/ CacheStep \/ DocsStep \/ ListStep \/ TraceStep

partsVars ==
  <<part, vars, loaderVars, waitVars, cacheVars, docsVars, queryVars, chainVars>>

PartsSpec == PartsInit /\ [][PartsNext]_partsVars

-----------------------------------------------------------------------------
(* The types of every part but the rate limiter's, whose TypeOK is checked   *)
(* under its own name.                                                       *)
PartsTypeOK ==
  /\ part = "loader" => Loader!TypeOK
  /\ part = "wait" => Wait!TypeOK
  /\ part = "cache" => Cache!TypeOK
  /\ part = "docs" => Documents!TypeOK
  /\ part = "list" => Query!TypeOK
  /\ part = "trace" => Chain!TypeOK

(* MigrationLoader: a successful load is exact. *)
LoadIsExact == Loader!LoadIsExact

(* MigrationLoader: two files that claim one version are never usable. *)
AmbiguityIsRefused == Loader!AmbiguityIsRefused

(* MigrationLoader: naming a directory twice is harmless. *)
RepetitionIsHarmless == Loader!RepetitionIsHarmless

(* WaitForApi: the wait ends one request timeout after its budget at most. *)
WaitIsBounded == Wait!WaitIsBounded

(* WaitForApi: an API that is up by half the budget is found. *)
EarlyApiIsFound == Wait!EarlyApiIsFound

(* WaitForApi, main.go:208: no sleep ends past the budget. *)
NeverSleepsPastBudget == Wait!NeverSleepsPastBudget

(* TestCache: an exit code of 0 speaks of recent code. *)
VerdictIsRecent == Cache!VerdictIsRecent

(* Docs: an answer's source was there during the request. *)
AnswerHasSource == Documents!AnswerHasSource

(* ListQuery: the filters are what the request gave, in any map order. *)
ListIsExact == Query!ListIsExact

(* TraceContext: trusting services stay in one trace. *)
OneTrace == Chain!OneTrace
=============================================================================
