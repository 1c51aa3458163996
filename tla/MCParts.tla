------------------------------- MODULE MCParts -------------------------------
(* Instances of Parts. *)
EXTENDS Parts, TLC

Samples == INSTANCE MigrationSamples
McOptions == Samples!McOptions
McListings == Samples!McListings
McUnreadable == Samples!McUnreadable

(* Half seconds: 29 s decaying by 0.95, rounded, as long as it matters. *)
McDecayed == <<58, 55, 52, 50, 47, 45, 43, 41, 38, 37, 35>>

(* One tester runs two packages with the cache, or one of them without, and    *)
(* another one of them with the same pattern or with its own.  The pair both  *)
(* may run is the one watched.                                                *)
McTesterConfigs ==
  LET config(packages, pattern, caching) ==
        [packages |-> packages, pattern |-> pattern, caching |-> caching]
  IN [t \in {"t1", "t2"} |->
       IF t = "t1" THEN {config(<<"m", "n">>, "u", TRUE), config(<<"n">>, "u", FALSE)}
       ELSE {config(<<"n">>, pattern, TRUE) : pattern \in {"u", "v"}}]

McWatchedPairs == {<<"n", "u">>}

(* A word, with or without space around it. *)
McText(word) == [word |-> word, padded |-> FALSE]
McPadded(word) == [word |-> word, padded |-> TRUE]

McListKeys ==
  LET spelled(form, name) == [form |-> form, name |-> name] IN
  {spelled("plain", McText("a")), spelled("plain", McText("b")), spelled("plain", McPadded("a")),
   spelled("bracket", McText("a")), spelled("bracket", McPadded("a")),
   spelled("bracket", McText("")), spelled("bracket", McPadded("")),
   spelled("dot", McText("a"))}

McValueLists ==
  {<<McText(""), McText("x"), McPadded("x")>>, <<McPadded("")>>}

McNumbers == {NotANumber, -1, 7, 101}

McListConfigs ==
  LET config(allowed, required, default, max) ==
        [allowed |-> allowed, required |-> required, default |-> default, max |-> max]
      a == McText("a")
      b == McText("b")
      none == McText("")
  IN {config(<<>>, <<a, none>>, 20, 100), config(<<a, none>>, <<a, b>>, 20, 50),
      config(<<none>>, <<b, McPadded("a")>>, 0, 0)}

McTraceOptions ==
  <<[trust |-> TRUE, sampledFlag |-> 0], [trust |-> FALSE, sampledFlag |-> 2],
    [trust |-> TRUE, sampledFlag |-> 1], [trust |-> TRUE, sampledFlag |-> 0]>>

(* The requests and the keys of the rate limiter are interchangeable. *)
Interchangeable == Permutations(Requests) \cup Permutations(Keys)
=============================================================================
