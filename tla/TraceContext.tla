----------------------------- MODULE TraceContext -----------------------------
(***************************************************************************)
(* middleware/trace in a chain of services, each of which calls the next   *)
(* with the traceparent its middleware set "for clients and downstreams".  *)
(* What lies between two services may drop the header or spoil it, and the *)
(* first client may send anything.                                         *)
(*                                                                         *)
(* A header is abstracted to what parseTraceParent tells apart; an id is a *)
(* value, zero, or something that is not lower-case hex of its length.     *)
(***************************************************************************)
EXTENDS Naturals, Sequences

CONSTANTS
  Options, \* TrustIncoming and SampledFlag of each service in the chain
  Ids      \* what rand.Read may draw, zero excepted

Zero == "00.."
NotHex == "Ab.."
First == "01.." \* what a draw of zero is turned into

ConstantsOK ==
  /\ Options \in Seq([trust : BOOLEAN, sampledFlag : Nat])
  /\ Ids \cap {Zero, NotHex} = {}

Services == Len(Options)
Trusting == {i \in 1..Services : Options[i].trust}

VARIABLES
  next,   \* the service whose turn it is
  header, \* the traceparent on its way to it, as it arrives
  intact, \* history: whether that is the header the service before it sent
  sent,   \* whether the request is on its way
  trace, span, \* what each service put into the context of its handler
  arrived      \* history: the services whose header arrived as it was sent

vars == <<next, header, intact, sent, trace, span, arrived>>

AnyId == Ids \cup {Zero, NotHex, First}
Lengths == {"short", "canonical", "longer", "huge"} \* under 55 bytes, 55, to 200, over 200
Headers == [length : Lengths, version : {"00", "01"}, traceId : AnyId, parentId : AnyId,
            flags : {"00", "01", "zz"}]
NoHeader == [length |-> "short", version |-> "01", traceId |-> Zero, parentId |-> Zero,
             flags |-> "zz"]

TypeOK ==
  /\ next \in 1..Services + 1
  /\ header \in Headers
  /\ intact \in BOOLEAN /\ sent \in BOOLEAN
  /\ trace \in [1..Services -> AnyId \cup {"none"}]
  /\ span \in [1..Services -> AnyId \cup {"none"}]
  /\ arrived \subseteq 1..Services

Init ==
  /\ next = 1
  /\ header = NoHeader
  /\ intact = FALSE
  /\ sent = FALSE
  /\ trace = [i \in 1..Services |-> "none"]
  /\ span = [i \in 1..Services |-> "none"]
  /\ arrived = {}

-----------------------------------------------------------------------------
ValidId(id) == id \notin {Zero, NotHex}

(* parseTraceParent: more fields than four are let through. *)
Parses(h) ==
  /\ h.length \in {"canonical", "longer"}
  /\ h.version = "00"
  /\ ValidId(h.traceId) /\ ValidId(h.parentId)
  /\ h.flags # "zz"

(* Mutant: a draw of zero is not noticed. *)
NewIdUnguarded(draw) == draw

(* newTraceID, newSpanID *)
NewId(draw) == IF draw = Zero THEN First ELSE draw

(* formatTraceParent, as the next service gets it if nobody touches it. *)
Formatted(t, s, sampled) ==
  [length |-> "canonical", version |-> "00", traceId |-> t, parentId |-> s, flags |-> sampled]

-----------------------------------------------------------------------------
(* The request is sent to the next service: by a client, with anything, or *)
(* by the service before it, whose header may be lost or spoiled.          *)
Send(h) ==
  /\ ~sent /\ next <= Services
  /\ sent' = TRUE
  /\ header' = h
  /\ intact' = (next > 1 /\ h = header)
  /\ UNCHANGED <<next, trace, span, arrived>>

(* Middleware: a byte that is no flag means sampled. *)
Sampled(i) == IF Options[i].sampledFlag = 0 THEN "00" ELSE "01"

(* The request's way through the middleware of a service, whose handler    *)
(* makes the next call.                                                    *)
Serve(i, drawTrace, drawSpan) ==
  LET own == NewId(drawTrace)
      t == IF i \in Trusting /\ Parses(header) THEN header.traceId ELSE own
      s == NewId(drawSpan)
  IN
  /\ sent /\ i = next
  /\ trace' = [trace EXCEPT ![i] = t]
  /\ span' = [span EXCEPT ![i] = s]
  /\ header' = Formatted(t, s, Sampled(i))
  /\ arrived' = IF intact THEN arrived \cup {i} ELSE arrived
  /\ next' = next + 1
  /\ sent' = FALSE
  /\ UNCHANGED intact

Spoiled == {[header EXCEPT !.traceId = NotHex], [header EXCEPT !.length = "longer"], NoHeader}

Next ==
  \/ \E h \in (IF next = 1 THEN Headers ELSE {header} \cup Spoiled) : Send(h)
  \/ \E i \in 1..Services, drawTrace, drawSpan \in Ids \cup {Zero} : Serve(i, drawTrace, drawSpan)

Spec == Init /\ [][Next]_vars

-----------------------------------------------------------------------------
(* A service that trusts its callers is in the trace of the service before  *)
(* it whenever that one's header arrived as it was sent, whatever was drawn *)
(* and whatever the first client had sent: no middleware sends a header the *)
(* next one would refuse.                                                   *)
OneTrace ==
  \A i \in arrived \cap Trusting : trace[i] = trace[i - 1]
=============================================================================
