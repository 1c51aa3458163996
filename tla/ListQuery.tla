------------------------------ MODULE ListQuery ------------------------------
(***************************************************************************)
(* endpoints.ParseListQuery: page bounds, and filters gathered from a map  *)
(* of query parameters, which Go ranges over in any order.  One filter may *)
(* come under three spellings, status, filter[status] and filter.status.   *)
(*                                                                         *)
(* A text is a word with or without white space around it: TrimSpace takes *)
(* the space away, every comparison of the code sees it.  The word may be  *)
(* empty.                                                                  *)
(***************************************************************************)
EXTENDS Integers, Selection

CONSTANTS
  Keys,     \* parameters other than limit, offset and the search: form and name
  ValueLists, \* the values each may have
  MaxKeys,  \* bound: the parameters in one query
  Numbers,  \* the texts limit and offset may have: an integer or NotANumber
  NotANumber,
  Configs   \* ListQueryConfig values

Texts == [word : STRING, padded : BOOLEAN]

ConstantsOK ==
  /\ IsFiniteSet(Keys) /\ Keys \subseteq [form : {"plain", "bracket", "dot"}, name : Texts]
  /\ ValueLists \subseteq Seq(Texts)
  /\ NotANumber \in Numbers /\ Numbers \subseteq Int \cup {NotANumber}
  /\ Configs # {}
  /\ \A c \in Configs : c.required \in Seq(Texts) /\ {c.default, c.max} \subseteq Int

VARIABLES
  pc,       \* "idle", "range" (over the map), "done"
  config,
  query,    \* the values of each parameter of the request
  number,   \* the text of its limit and its offset
  todo,     \* parameters the loop has not come to
  filters,  \* Filters: the values of each filter there is
  result    \* limit, offset and the missing required filters

vars == <<pc, config, query, number, todo, filters, result>>

Text(word) == [word |-> word, padded |-> FALSE]
Blank == Text("")
TrimSpace(text) == Text(text.word)
TrimAll(list) == [i \in DOMAIN list |-> TrimSpace(list[i])]

NoResult == [limit |-> 0, offset |-> 0, missing |-> <<>>]

(* parseFilterKey, which trims the name after testing that there is one,   *)
(* and the parameter itself, as it is, when it is no filter key.           *)
FilterName(key) ==
  CASE key.form = "plain" -> key.name
    [] key.form # "plain" /\ key.name # Blank -> TrimSpace(key.name)
    [] key.form = "bracket" /\ key.name = Blank -> Text("filter[]")
    [] key.form = "dot" /\ key.name = Blank -> Text("filter.")

Names == {FilterName(key) : key \in Keys}

TypeOK ==
  /\ pc \in {"idle", "range", "done"}
  /\ config \in Configs
  /\ DOMAIN query \subseteq Keys
  /\ todo \subseteq DOMAIN query
  /\ DOMAIN filters \subseteq Names
  /\ number \in Numbers

Init ==
  /\ pc = "idle"
  /\ config = CHOOSE c \in Configs : TRUE
  /\ query = << >>
  /\ number = NotANumber
  /\ todo = {}
  /\ filters = << >>
  /\ result = NoResult

-----------------------------------------------------------------------------
(* parseInt, parseOffset and clampInt; a bound of zero or less is none. *)

ParseInt(text, default) == IF text = NotANumber THEN default ELSE text
ParseOffset(text) == IF text = NotANumber \/ text < 0 THEN 0 ELSE text
ClampInt(n, low, high) ==
  LET raised == IF low > 0 /\ n < low THEN low ELSE n
  IN IF high > 0 /\ raised > high THEN high ELSE raised

(* allowFilter: empty names in the list do not count, no name allows all. *)
Allowed(name) ==
  LET names == ToSet(config.allowed) \ {Blank}
  IN names = {} \/ name \in names

(* requiredMissing *)
Missing ==
  Kept(config.required, {i \in DOMAIN config.required :
                           config.required[i] \notin {Blank} \cup DOMAIN filters})

With(name, values) ==
  [n \in DOMAIN filters \cup {name} |-> IF n = name THEN values ELSE filters[n]]

(* Mutant: a second spelling replaces what the first one gave. *)
Replaced(name, values) == With(name, values)

(* addFilter appends the values to those the filter has. *)
Added(name, values) ==
  With(name, (IF name \in DOMAIN filters THEN filters[name] ELSE <<>>) \o values)

-----------------------------------------------------------------------------
Receive ==
  /\ pc = "idle"
  /\ pc' = "range"
  /\ config' \in Configs
  /\ \E some \in {s \in SUBSET Keys : Cardinality(s) <= MaxKeys} : query' \in [some -> ValueLists]
  /\ number' \in Numbers
  /\ todo' = DOMAIN query'
  /\ UNCHANGED <<filters, result>>

(* One turn of the loop: an unknown filter and one with only blank values  *)
(* leave no trace.                                                         *)
Take(key) ==
  LET name == FilterName(key)
      trimmed == TrimAll(query[key])
      values == Kept(trimmed, {i \in DOMAIN trimmed : trimmed[i] # Blank})
  IN
  /\ pc = "range"
  /\ key \in todo
  /\ todo' = todo \ {key}
  /\ filters' = IF Allowed(name) /\ values # <<>> THEN Added(name, values) ELSE filters
  /\ UNCHANGED <<pc, config, query, number, result>>

Finish ==
  /\ pc = "range"
  /\ todo = {}
  /\ pc' = "done"
  /\ result' = [limit   |-> ClampInt(ParseInt(number, config.default), 1, config.max),
                offset  |-> ParseOffset(number),
                missing |-> Missing]
  /\ UNCHANGED <<config, query, number, todo, filters>>

Next ==
  \/ Receive
  \/ \E key \in Keys : Take(key)
  \/ Finish

Spec == Init /\ [][Next]_vars

-----------------------------------------------------------------------------
(* What a client means: a value is its word, whatever the space around it, *)
(* and so is a name in brackets or after the dot.                          *)
Words == {text.word : text \in UNION {ToSet(list) : list \in ValueLists}} \ {""}

Spells(key, name) ==
  IF key.form = "plain" \/ key.name = Blank THEN name = FilterName(key)
  ELSE name.word = key.name.word /\ ~name.padded

PlacesWith(list, word) == {i \in DOMAIN list : list[i].word = word}

(* Where some parameters give a word to a filter, under any spelling. *)
PlacesIn(keys, name, word) ==
  UNION {{key} \X PlacesWith(query[key], word) : key \in {k \in keys : Spells(k, name)}}

Occurrences(list, word) == Cardinality(PlacesWith(list, word))
Given(name, word) == Cardinality(PlacesIn(DOMAIN query, name, word))

GivenNames == {name \in Names : Allowed(name) /\ \E word \in Words : Given(name, word) > 0}

(* Whatever the order of the map, the filters of a request hold each word   *)
(* given under any spelling of an allowed name once per occurrence, trimmed, *)
(* and nothing else; a required filter is missing exactly if no spelling    *)
(* gave it a word; and a page is at least one item, at most MaxLimit, and   *)
(* does not start before the first.  (The order of the values of two        *)
(* spellings, and so what First returns, is the map's.)                     *)
ListIsExact ==
  pc = "done" =>
    /\ DOMAIN filters = GivenNames
    /\ \A name \in GivenNames :
         /\ ToSet(filters[name]) \subseteq {Text(word) : word \in Words}
         /\ \A word \in Words : Occurrences(filters[name], word) = Given(name, word)
    /\ ToSet(result.missing) = (ToSet(config.required) \ {Blank}) \ GivenNames
    /\ result.limit >= 1 /\ result.offset >= 0
    /\ config.max > 0 => result.limit <= config.max
=============================================================================
