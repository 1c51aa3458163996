------------------------------ MODULE HttpServer ------------------------------
(***************************************************************************)
(* bootstrap.StartServer around bootstrap.NewDefaultRouter: the life of    *)
(* the server and of each request in the default middleware stack.         *)
(*                                                                         *)
(* From the timeout middleware inwards a request runs in a goroutine of    *)
(* its own and writes into a buffer.  Outside, the serving goroutine waits *)
(* for that goroutine's end, its panic, or the deadline, and alone writes  *)
(* to the client; recover is outside, request log and metrics are inside.  *)
(***************************************************************************)
EXTENDS Naturals

CONSTANTS
  Requests,  \* connections, each with its serving goroutine
  Kinds,     \* requests: "preflight", "json", "other" (by Content-Type)
  Codes,     \* statuses handlers write
  MaxChunks  \* bound: Write calls of one handler

ASSUME KindAssumption == Kinds \subseteq {"preflight", "json", "other"}
ASSUME CodeAssumption == Codes \subseteq 200..599
ASSUME ChunkAssumption == MaxChunks \in Nat

None == 0 \* no status yet

VARIABLES
  server,  \* where StartServer is
  ctxDone, \* its context is canceled
  listen,  \* ListenAndServe: "on", "closed" (by Shutdown) or "failed"
  result,  \* what StartServer returned
  pc,      \* where each serving goroutine is
  kind,    \* its request
  expired, \* its five seconds are over, or its client is gone
  inner,   \* the goroutine behind the timeout middleware
  code,    \* the status in the timeout middleware's buffer
  chunks,  \* how many Write calls are in the buffer
  status,  \* respWriter.status in the request log and in metrics
  orderly, \* history: no status set after a status or a Write
  wrote,   \* history: Write calls of the handler
  counted, \* the status in the metrics, if counted
  logged,  \* the status in the request log, if logged
  sent     \* the answer: who wrote it, its status and Write calls

serverVars == <<server, ctxDone, listen, result>>
bufferVars == <<code, chunks>>
recordVars == <<status, orderly, wrote, counted, logged>>
requestVars == <<pc, kind, expired, inner, bufferVars, recordVars, sent>>
vars == <<serverVars, requestVars>>

Statuses == 200..599 \cup {None}
Nothing == [from |-> "nobody", status |-> None, chunks |-> 0]

TypeOK ==
  /\ server \in {"serving", "draining", "returned"}
  /\ ctxDone \in BOOLEAN
  /\ listen \in {"on", "closed", "failed"}
  /\ result \in {"none", "nil", "error"}
  /\ pc \in [Requests -> {"off", "idle", "cors", "limit", "type", "waiting",
                        "answered"}]
  /\ kind \in [Requests -> Kinds \cup {"none"}]
  /\ expired \in [Requests -> BOOLEAN]
  /\ inner \in [Requests -> {"none", "running", "counted", "done", "panicked"}]
  /\ code \in [Requests -> Statuses]
  /\ chunks \in [Requests -> 0..MaxChunks]
  /\ status \in [Requests -> Statuses]
  /\ orderly \in [Requests -> BOOLEAN]
  /\ wrote \in [Requests -> 0..MaxChunks]
  /\ counted \in [Requests -> Statuses]
  /\ logged \in [Requests -> Statuses]
  /\ \A q \in Requests : inner[q] # "none" => status[q] # None
  /\ sent \in [Requests -> [from : {"nobody", "cors", "ratelimit", "json", "handler",
                                    "recover", "timeout"},
                            status : Statuses, chunks : 0..MaxChunks]]

Init ==
  /\ server = "serving" /\ ctxDone = FALSE /\ listen = "on" /\ result = "none"
  /\ pc = [q \in Requests |-> "off"]
  /\ kind = [q \in Requests |-> "none"]
  /\ expired = [q \in Requests |-> FALSE]
  /\ inner = [q \in Requests |-> "none"]
  /\ code = [q \in Requests |-> None]
  /\ chunks = [q \in Requests |-> 0]
  /\ status = [q \in Requests |-> None]
  /\ orderly = [q \in Requests |-> TRUE]
  /\ wrote = [q \in Requests |-> 0]
  /\ counted = [q \in Requests |-> None]
  /\ logged = [q \in Requests |-> None]
  /\ sent = [q \in Requests |-> Nothing]

-----------------------------------------------------------------------------
(* StartServer. *)

Cancel ==
  /\ ~ctxDone
  /\ ctxDone' = TRUE
  /\ UNCHANGED <<server, listen, result, requestVars>>

(* The address cannot be bound, or Accept fails: errCh holds the error. *)
ListenFails ==
  /\ listen = "on"
  /\ listen' = "failed"
  /\ UNCHANGED <<server, ctxDone, result, requestVars>>

(* The select; when both channels are ready it takes either. *)
BeginShutdown ==
  /\ server = "serving" /\ ctxDone
  /\ server' = "draining"
  /\ listen' = IF listen = "on" THEN "closed" ELSE listen
  /\ UNCHANGED <<ctxDone, result, requestVars>>

ReportError ==
  /\ server = "serving" /\ listen = "failed"
  /\ server' = "returned"
  /\ result' = "error"
  /\ UNCHANGED <<ctxDone, listen, requestVars>>

InFlight(q) == pc[q] \notin {"off", "idle", "answered"}

(* Shutdown returns when no request is in flight; it closes connections    *)
(* that are idle.                                                          *)
Drained == \A q \in Requests : ~InFlight(q)

EndShutdown ==
  /\ server = "draining" /\ Drained
  /\ server' = "returned"
  /\ result' = "nil"
  /\ pc' = [q \in Requests |-> IF pc[q] = "idle" THEN "off" ELSE pc[q]]
  /\ UNCHANGED <<ctxDone, listen, kind, expired, inner, bufferVars, recordVars, sent>>

(* Mutant: Shutdown under a context without a deadline. *)
NoDeadline == FALSE

(* ... or when its own five seconds are over, and its error is dropped. *)
OutOfTime == ~Drained

GiveUp ==
  /\ server = "draining" /\ OutOfTime
  /\ server' = "returned"
  /\ result' = "nil"
  /\ UNCHANGED <<ctxDone, listen, requestVars>>

-----------------------------------------------------------------------------
(* The stack, outside the timeout middleware. *)

Send(q, who, s, n) ==
  /\ sent' = [sent EXCEPT ![q] = [from |-> who, status |-> s, chunks |-> n]]
  /\ pc' = [pc EXCEPT ![q] = "answered"]

Accept(q) ==
  /\ pc[q] = "off" /\ listen = "on"
  /\ pc' = [pc EXCEPT ![q] = "idle"]
  /\ UNCHANGED <<serverVars, kind, expired, inner, bufferVars, recordVars, sent>>

(* An open connection may bring a request after the listener has failed or *)
(* closed, and after StartServer has returned.                             *)
Receive(q, k) ==
  /\ pc[q] = "idle"
  /\ pc' = [pc EXCEPT ![q] = "cors"]
  /\ kind' = [kind EXCEPT ![q] = k]
  /\ UNCHANGED <<serverVars, expired, inner, bufferVars, recordVars, sent>>

(* go-chi/cors answers a preflight itself; the rest passes. *)
Cors(q) ==
  /\ pc[q] = "cors"
  /\ \/ kind[q] = "preflight" /\ Send(q, "cors", 200, 0)
     \/ /\ kind[q] # "preflight"
        /\ pc' = [pc EXCEPT ![q] = "limit"]
        /\ UNCHANGED sent
  /\ UNCHANGED <<serverVars, kind, expired, inner, bufferVars, recordVars>>

(* RateLimit: refused, or on to the content type. *)
Limit(q) ==
  /\ pc[q] = "limit"
  /\ \/ Send(q, "ratelimit", 429, 0)
     \/ pc' = [pc EXCEPT ![q] = "type"] /\ UNCHANGED sent
  /\ UNCHANGED <<serverVars, kind, expired, inner, bufferVars, recordVars>>

RejectType(q) ==
  /\ pc[q] = "type" /\ kind[q] # "json"
  /\ Send(q, "json", 415, 0)
  /\ UNCHANGED <<serverVars, kind, expired, inner, bufferVars, recordVars>>

(* Mutant: respWriter starts without a status. *)
NoStatus == None

InitialStatus == 200

Dispatch(q) ==
  /\ pc[q] = "type" /\ kind[q] = "json"
  /\ pc' = [pc EXCEPT ![q] = "waiting"]
  /\ inner' = [inner EXCEPT ![q] = "running"]
  /\ status' = [status EXCEPT ![q] = InitialStatus]
  /\ UNCHANGED <<serverVars, kind, expired, bufferVars, orderly, wrote, counted, logged, sent>>

-----------------------------------------------------------------------------
(* The inner goroutine: request log, metrics, trace and the handler.  What  *)
(* it writes after the timeout has answered is dropped.                    *)

Late(q) == pc[q] = "answered"

(* The recorders note every WriteHeader, the buffer keeps the first. *)
WriteHeader(q, c) ==
  /\ inner[q] = "running"
  /\ status' = [status EXCEPT ![q] = c]
  /\ orderly' = [orderly EXCEPT ![q] = @ /\ code[q] = None]
  /\ code' = IF Late(q) \/ code[q] # None THEN code ELSE [code EXCEPT ![q] = c]
  /\ UNCHANGED <<serverVars, pc, kind, expired, inner, chunks, wrote, counted, logged, sent>>

(* The first Write implies 200 in the buffer. *)
WriteBody(q) ==
  /\ inner[q] = "running"
  /\ wrote[q] < MaxChunks
  /\ wrote' = [wrote EXCEPT ![q] = @ + 1]
  /\ chunks' = IF Late(q) THEN chunks ELSE [chunks EXCEPT ![q] = @ + 1]
  /\ code' = IF Late(q) \/ code[q] # None THEN code ELSE [code EXCEPT ![q] = 200]
  /\ UNCHANGED <<serverVars, pc, kind, expired, inner, status, orderly, counted, logged, sent>>

(* The handler returns into the metrics middleware, that one into the log. *)
HandlerReturns(q) ==
  /\ inner[q] = "running"
  /\ inner' = [inner EXCEPT ![q] = "counted"]
  /\ counted' = [counted EXCEPT ![q] = status[q]]
  /\ UNCHANGED <<serverVars, pc, kind, expired, bufferVars, status, orderly, wrote, logged, sent>>

LogRequest(q) ==
  /\ inner[q] = "counted"
  /\ inner' = [inner EXCEPT ![q] = "done"]
  /\ logged' = [logged EXCEPT ![q] = status[q]]
  /\ UNCHANGED <<serverVars, pc, kind, expired, bufferVars, status, orderly, wrote, counted, sent>>

(* Neither middleware defers its record: a panic passes them by. *)
HandlerPanics(q) ==
  /\ inner[q] = "running"
  /\ inner' = [inner EXCEPT ![q] = "panicked"]
  /\ UNCHANGED <<serverVars, pc, kind, expired, bufferVars, recordVars, sent>>

-----------------------------------------------------------------------------
(* The timeout middleware waits; when several things have happened its      *)
(* select takes any of them.                                               *)

Expire(q) ==
  /\ pc[q] = "waiting" /\ ~expired[q]
  /\ expired' = [expired EXCEPT ![q] = TRUE]
  /\ UNCHANGED <<serverVars, pc, kind, inner, bufferVars, recordVars, sent>>

(* Mutant: the answer does not wait for the end of the handler. *)
AtFirstWrite(q) == code[q] # None

Finished(q) == inner[q] = "done"

AnswerBuffer(q) ==
  /\ pc[q] = "waiting" /\ Finished(q)
  /\ Send(q, "handler", IF code[q] = None THEN 200 ELSE code[q], chunks[q])
  /\ UNCHANGED <<serverVars, kind, expired, inner, bufferVars, recordVars>>

(* The panic is raised again here and recover.Middleware answers. *)
AnswerPanic(q) ==
  /\ pc[q] = "waiting" /\ inner[q] = "panicked"
  /\ Send(q, "recover", 500, 0)
  /\ UNCHANGED <<serverVars, kind, expired, inner, bufferVars, recordVars>>

(* Mutant: a deadline that only the handler can notice. *)
HandlerNotices(q) == expired[q] /\ inner[q] # "running"

DeadlinePassed(q) == expired[q]

AnswerTimeout(q) ==
  /\ pc[q] = "waiting" /\ DeadlinePassed(q)
  /\ Send(q, "timeout", 503, 0)
  /\ UNCHANGED <<serverVars, kind, expired, inner, bufferVars, recordVars>>

(* The connection is free for another request, and its buffer is dropped    *)
(* with the inner goroutine (one that never ends stays with its request).  *)
Free(q) ==
  /\ pc[q] = "answered" /\ inner[q] \in {"none", "done", "panicked"}
  /\ pc' = [pc EXCEPT ![q] = IF listen = "closed" THEN "off" ELSE "idle"]
  /\ expired' = [expired EXCEPT ![q] = FALSE]
  /\ inner' = [inner EXCEPT ![q] = "none"]
  /\ code' = [code EXCEPT ![q] = None]
  /\ chunks' = [chunks EXCEPT ![q] = 0]
  /\ status' = [status EXCEPT ![q] = None]
  /\ orderly' = [orderly EXCEPT ![q] = TRUE]
  /\ wrote' = [wrote EXCEPT ![q] = 0]
  /\ counted' = [counted EXCEPT ![q] = None]
  /\ logged' = [logged EXCEPT ![q] = None]
  /\ sent' = [sent EXCEPT ![q] = Nothing]
  /\ kind' = [kind EXCEPT ![q] = "none"]
  /\ UNCHANGED serverVars

-----------------------------------------------------------------------------
Select == BeginShutdown \/ ReportError

Serve(q) ==
  \/ Cors(q) \/ Limit(q) \/ RejectType(q) \/ Dispatch(q)
  \/ AnswerBuffer(q) \/ AnswerPanic(q) \/ AnswerTimeout(q)

Inner(q) ==
  \/ \E c \in Codes : WriteHeader(q, c)
  \/ WriteBody(q) \/ HandlerReturns(q) \/ LogRequest(q) \/ HandlerPanics(q)

Next ==
  \/ Cancel \/ ListenFails \/ Select \/ EndShutdown \/ GiveUp
  \/ \E q \in Requests :
       \/ Accept(q) \/ \E k \in Kinds : Receive(q, k)
       \/ Serve(q) \/ Inner(q) \/ Expire(q) \/ Free(q)

(* The Go scheduler runs StartServer and the serving goroutines, and time  *)
(* passes.  Nothing is assumed of handlers: they may never return.         *)
Fairness ==
  /\ WF_vars(Select) /\ WF_vars(EndShutdown \/ GiveUp)
  /\ \A q \in Requests : WF_vars(Serve(q)) /\ WF_vars(Expire(q))

Spec == Init /\ [][Next]_vars /\ Fairness

-----------------------------------------------------------------------------
(* The client gets one whole answer: the handler's complete output under    *)
(* its first status, after the request has been counted and logged, or      *)
(* nothing of it at all (a panic, the timeout), however the handler's       *)
(* writes fall around the deadline.                                         *)
WholeAnswer ==
  \A q \in Requests :
    LET answer == sent[q] IN
    /\ answer.from = "handler" =>
         /\ inner[q] = "done"
         /\ answer.chunks = wrote[q]
         /\ counted[q] # None /\ logged[q] # None
    /\ answer.from \in {"recover", "timeout"} => answer.chunks = 0
    /\ inner[q] = "panicked" => answer.from # "handler"

(* The request log and the metrics tell the status the client got, if the   *)
(* handler finished in time and sent one status, before any of the body.    *)
(* (After a timeout they tell what the client did not get.)                 *)
RecordsTellAnswer ==
  \A q \in Requests :
    (sent[q].from = "handler" /\ orderly[q])
      => counted[q] = sent[q].status /\ logged[q] = sent[q].status

(* Every request is answered, even if its handler never returns. *)
RequestsAnswered == \A q \in Requests : InFlight(q) ~> ~InFlight(q)

(* A canceled StartServer returns, even if handlers hang. *)
ServerReturns == ctxDone ~> server = "returned"
=============================================================================
