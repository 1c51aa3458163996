--------------------------------- MODULE Docs ---------------------------------
(***************************************************************************)
(* docs.Manager: a provider that may be registered at any time, defaults   *)
(* when there is none, and the OpenAPI file looked for in a list of places.*)
(*                                                                         *)
(* Nothing is locked.  The provider is an interface, two words, which a    *)
(* request reads to compare it with nil and again to call it, while        *)
(* RegisterProvider may be between storing one and the other; a file is    *)
(* asked for with Stat and then read, while the directory may change.  One *)
(* request at a time is enough: requests change nothing that others read.  *)
(***************************************************************************)
EXTENDS Naturals

CONSTANTS
  Providers,  \* documentation providers
  Nobody,     \* the nil interface
  Places      \* the number of places an OpenAPI file is looked for in

ConstantsOK == Nobody \notin Providers /\ Places \in Nat \ {0}

VARIABLES
  type, value, \* the words of Manager.provider
  target,      \* the provider being registered, if one is
  unstored,    \* the words of it that are not stored yet
  files,       \* environment: what is at each place
  pc,          \* of the request
  kind,        \* what it asks for
  compared,    \* the words it compared with nil
  place,       \* the place it looks at
  answer,      \* its last answer
  held,        \* history: providers registered at some moment of the request
  raced,       \* history: whether a registration ran during the request
  there, gone  \* history: places readable, and not readable, at some moment of a search

managerVars == <<type, value, target, unstored>>
requestVars == <<pc, kind, compared, place, answer>>
historyVars == <<held, raced, there, gone>>
vars == <<managerVars, files, requestVars, historyVars>>

Kinds == {"html", "openapi", "version", "info"}
Answer(code, source, which) == [code |-> code, source |-> source, which |-> which]
NoAnswer == Answer(0, "none", 0)

TypeOK ==
  /\ {type, value, target} \subseteq Providers \cup {Nobody}
  /\ unstored \subseteq {"type", "value"}
  /\ files \in [1..Places -> {"absent", "unreadable", "readable"}]
  /\ pc \in {"idle", "compare", "call", "stat", "read"}
  /\ kind \in Kinds \cup {"none"}
  /\ compared \in (Providers \cup {Nobody}) \X (Providers \cup {Nobody})
  /\ place \in 1..Places
  /\ answer.code \in {0, 200, 404, 500}
  /\ raced \in BOOLEAN
  /\ there \subseteq 1..Places /\ gone \subseteq 1..Places

Init ==
  /\ type = Nobody /\ value = Nobody /\ target = Nobody
  /\ unstored = {}
  /\ files = [i \in 1..Places |-> "absent"]
  /\ pc = "idle"
  /\ kind = "none"
  /\ compared = <<Nobody, Nobody>>
  /\ place = 1
  /\ answer = NoAnswer
  /\ held = {} /\ raced = FALSE /\ there = {} /\ gone = {}

Readable == {i \in 1..Places : files[i] = "readable"}

(* The history of the request that begins now, or that is running.         *)
Observe ==
  LET began == pc = "idle"
      since(past) == IF began THEN {} ELSE past
      searches == "openapi" \in {kind, kind'}
  IN
  /\ held' = since(held) \cup {type', value'}
  /\ raced' = (unstored' # {} \/ (raced /\ ~began))
  /\ there' = IF searches THEN since(there) \cup Readable' ELSE {}
  /\ gone' = IF searches THEN since(gone) \cup ((1..Places) \ Readable') ELSE {}

WorldOnly ==
  /\ UNCHANGED requestVars
  /\ IF pc = "idle" THEN UNCHANGED historyVars ELSE Observe

-----------------------------------------------------------------------------
(* RegisterProvider: m.provider = provider, in two stores. *)
Register(p) ==
  /\ unstored = {}
  /\ target' = p
  /\ unstored' = {"type", "value"}
  /\ UNCHANGED <<type, value, files>>
  /\ WorldOnly

Store(word) ==
  /\ word \in unstored
  /\ unstored' = unstored \ {word}
  /\ type' = IF word = "type" THEN target ELSE type
  /\ value' = IF word = "value" THEN target ELSE value
  /\ target' = IF unstored' = {} THEN Nobody ELSE target
  /\ UNCHANGED files
  /\ WorldOnly

(* Somebody writes, removes or protects a file. *)
Change(i, state) ==
  /\ files[i] # state
  /\ files' = [files EXCEPT ![i] = state]
  /\ UNCHANGED managerVars
  /\ WorldOnly

-----------------------------------------------------------------------------
(* The request: ServeHTML, ServeOpenAPI, ServeVersion or ServeInfo. *)

Begin(k) ==
  /\ pc = "idle"
  /\ pc' = "compare"
  /\ kind' = k
  /\ answer' = NoAnswer
  /\ UNCHANGED <<managerVars, files, compared, place>>
  /\ Observe

Reply(code, source, which) ==
  /\ answer' = Answer(code, source, which)
  /\ pc' = "idle"
  /\ kind' = "none"
  /\ place' = 1

(* The configuration, the page made of it, or the search for a file. *)
Default ==
  IF kind = "openapi"
  THEN pc' = "stat" /\ UNCHANGED <<kind, place, answer>>
  ELSE Reply(200, "default", 0)

Compare ==
  /\ pc = "compare"
  /\ IF type = Nobody
     THEN Default /\ UNCHANGED compared
     ELSE pc' = "call" /\ compared' = <<type, value>> /\ UNCHANGED <<kind, place, answer>>
  /\ UNCHANGED <<managerVars, files>>
  /\ Observe

(* The code of a provider's error; GetInfo returns none. *)
ErrorCode(k) == IF k = "openapi" THEN 404 ELSE 500

(* The build may load the words again or keep what it compared.  A nil     *)
(* provider panics; one made of the words of two may do anything, which is *)
(* a torn answer.                                                          *)
Call ==
  /\ pc = "call"
  /\ compared' = <<Nobody, Nobody>>
  /\ \E t \in {compared[1], type}, v \in {compared[2], value} :
       \/ t = v /\ t # Nobody /\ Reply(200, "provider", t)
       \/ t = v /\ t # Nobody /\ kind # "info" /\ Reply(ErrorCode(kind), "provider", t)
       \/ t = Nobody /\ Reply(500, "panic", 0)
       \/ t # v /\ t # Nobody /\ \E code \in {200, 404, 500} : Reply(code, "torn", 0)
  /\ UNCHANGED <<managerVars, files>>
  /\ Observe

(* Mutant: a file that cannot be read ends the search. *)
MinimalAtOnce == Reply(200, "minimal", 0)

(* The next place, or after the last one the minimal document. *)
TryNext ==
  IF place < Places
  THEN place' = place + 1 /\ pc' = "stat" /\ UNCHANGED <<kind, answer>>
  ELSE Reply(200, "minimal", 0)

Stat ==
  /\ pc = "stat"
  /\ \/ files[place] # "absent" /\ pc' = "read" /\ UNCHANGED <<kind, place, answer>>
     \/ files[place] = "absent" /\ TryNext
  /\ UNCHANGED <<compared, managerVars, files>>
  /\ Observe

Read ==
  /\ pc = "read"
  /\ \/ place \in Readable /\ Reply(200, "file", place)
     \/ place \notin Readable /\ TryNext
  /\ UNCHANGED <<compared, managerVars, files>>
  /\ Observe

Next ==
  \/ \E p \in Providers \cup {Nobody} : Register(p)
  \/ \E word \in {"type", "value"} : Store(word)
  \/ \E i \in 1..Places : \E state \in {"absent", "unreadable", "readable"} : Change(i, state)
  \/ \E k \in Kinds : Begin(k)
  \/ Compare \/ Call \/ Stat \/ Read

Spec == Init /\ [][Next]_vars

-----------------------------------------------------------------------------
(* Every answer has a source that was there during the request: the         *)
(* provider that answers was registered, the default page or a file is used *)
(* only if nobody was, a file only if it was readable and each place before *)
(* it was not, at some moment each, the minimal document only if no place   *)
(* always was; and a request goes wrong only if a registration overlapped.  *)
AnswerHasSource ==
  pc = "idle" =>
    CASE answer.source = "none" -> TRUE
      [] answer.source = "provider" -> answer.which \in held
      [] answer.source = "default" -> Nobody \in held
      [] answer.source = "file" ->
           /\ Nobody \in held
           /\ answer.which \in there
           /\ 1..(answer.which - 1) \subseteq gone
      [] answer.source = "minimal" -> Nobody \in held /\ gone = 1..Places
      [] answer.source \in {"panic", "torn"} -> raced
=============================================================================
