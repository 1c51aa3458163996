--------------------------- MODULE HttpServerProofs ---------------------------
(***************************************************************************)
(* Theorems about HttpServer, for any requests, codes and lengths.         *)
(***************************************************************************)
EXTENDS HttpServer, TLAPS

(* Nothing of an earlier request is left where the next one will look: the *)
(* buffer and the records are those of a request without a handler.        *)
Unserved(q) ==
  /\ code[q] = None /\ chunks[q] = 0 /\ wrote[q] = 0 /\ orderly[q]
  /\ counted[q] = None /\ logged[q] = None

(* A handler runs from Dispatch to Free, behind the timeout middleware.    *)
HandlerInside(q) ==
  /\ inner[q] = "none" => Unserved(q) /\ pc[q] # "waiting"
  /\ inner[q] # "none" => pc[q] \in {"waiting", "answered"}

(* While the answer is open the buffer has every Write, and the recorders  *)
(* agree with it on the status of an orderly handler.                      *)
BufferIsComplete(q) ==
  pc[q] = "waiting" =>
    /\ chunks[q] = wrote[q]
    /\ orderly[q] => status[q] = IF code[q] = None THEN 200 ELSE code[q]

(* What has been recorded is the recorders' status, which no longer changes. *)
RecordsFollow(q) ==
  /\ inner[q] \in {"counted", "done"} => counted[q] = status[q]
  /\ inner[q] = "done" => logged[q] = status[q]

(* An answer made of the buffer was made after the handler's end.          *)
AnswerFollows(q) ==
  /\ pc[q] # "answered" => sent[q] = Nothing
  /\ sent[q].from \in {"recover", "timeout"} => sent[q].chunks = 0
  /\ sent[q].from = "handler" =>
       /\ inner[q] = "done"
       /\ sent[q].chunks = wrote[q]
       /\ orderly[q] => sent[q].status = status[q]

RequestInv(q) ==
  HandlerInside(q) /\ BufferIsComplete(q) /\ RecordsFollow(q) /\ AnswerFollows(q)

ServerInv == TypeOK /\ \A q \in Requests : RequestInv(q)
-----------------------------------------------------------------------------
(* Types. *)

RequestStep(q) ==
  \/ Accept(q) \/ \E k \in Kinds : Receive(q, k)
  \/ Serve(q) \/ Inner(q) \/ Expire(q) \/ Free(q)

LEMMA Literals ==
  0 \in 0..MaxChunks /\ {None, 200, 415, 429, 500, 503} \subseteq Statuses
  BY ChunkAssumption DEF Statuses

LEMMA TypeInit == Init => TypeOK
  <1> SUFFICES ASSUME Init PROVE TypeOK
    OBVIOUS
  <1>1. sent \in [Requests -> [from : {"nobody", "cors", "ratelimit", "json", "handler",
                                       "recover", "timeout"},
                               status : Statuses, chunks : 0..MaxChunks]]
    BY Literals DEF Init, Nothing
  <1>2. /\ {code, status, counted, logged} \subseteq [Requests -> Statuses]
        /\ {chunks, wrote} \subseteq [Requests -> 0..MaxChunks]
    BY Literals DEF Init
  <1>3. \A q \in Requests : inner[q] = "none"
    BY DEF Init
  <1>4. /\ pc \in [Requests -> {"off", "idle", "cors", "limit", "type", "waiting", "answered"}]
        /\ kind \in [Requests -> Kinds \cup {"none"}]
        /\ {expired, orderly} \subseteq [Requests -> BOOLEAN]
        /\ inner \in [Requests -> {"none", "running", "counted", "done", "panicked"}]
    BY DEF Init
  <1> QED
    BY <1>1, <1>2, <1>3, <1>4 DEF Init, TypeOK

LEMMA SendTypes ==
  ASSUME TypeOK, NEW q \in Requests, NEW n \in 0..MaxChunks, NEW s \in Statuses,
         NEW who \in {"cors", "ratelimit", "json", "handler", "recover", "timeout"},
         Send(q, who, s, n),
         UNCHANGED <<serverVars, kind, expired, inner, bufferVars, recordVars>>
  PROVE  TypeOK'
  <1>1. [from |-> who, status |-> s, chunks |-> n]
          \in [from : {"nobody", "cors", "ratelimit", "json", "handler", "recover", "timeout"},
               status : Statuses, chunks : 0..MaxChunks]
    OBVIOUS
  <1> QED
    BY <1>1 DEF Send, TypeOK, serverVars, bufferVars, recordVars

LEMMA ServerStepTypes ==
  ASSUME TypeOK, Cancel \/ ListenFails \/ Select \/ EndShutdown \/ GiveUp
  PROVE  TypeOK'
  <1>1. CASE Cancel
    BY <1>1 DEF Cancel, TypeOK, requestVars, bufferVars, recordVars
  <1>2. CASE ListenFails
    BY <1>2 DEF ListenFails, TypeOK, requestVars, bufferVars, recordVars
  <1>3. CASE BeginShutdown
    BY <1>3 DEF BeginShutdown, TypeOK, requestVars, bufferVars, recordVars
  <1>4. CASE ReportError
    BY <1>4 DEF ReportError, TypeOK, requestVars, bufferVars, recordVars
  <1>5. CASE EndShutdown
    BY <1>5 DEF EndShutdown, TypeOK, bufferVars, recordVars
  <1>6. CASE GiveUp
    BY <1>6 DEF GiveUp, TypeOK, requestVars, bufferVars, recordVars
  <1> QED
    BY <1>1, <1>2, <1>3, <1>4, <1>5, <1>6 DEF Select

LEMMA RequestStepTypes ==
  ASSUME TypeOK, NEW q \in Requests, RequestInv(q),
         RequestStep(q)
  PROVE  TypeOK'
  <1> USE DEF serverVars, bufferVars, recordVars
  <1>1. CASE Accept(q)
    BY <1>1 DEF Accept, TypeOK
  <1>2. ASSUME NEW k \in Kinds, Receive(q, k)
        PROVE  TypeOK'
    BY <1>2 DEF Receive, TypeOK
  <1>3. CASE Cors(q)
    <2>1. CASE Send(q, "cors", 200, 0)
      BY <1>3, <2>1, SendTypes, Literals DEF Cors
    <2>2. CASE pc' = [pc EXCEPT ![q] = "limit"] /\ UNCHANGED sent
      BY <1>3, <2>2 DEF Cors, TypeOK
    <2> QED
      BY <1>3, <2>1, <2>2 DEF Cors
  <1>4. CASE Limit(q)
    <2>1. CASE Send(q, "ratelimit", 429, 0)
      BY <1>4, <2>1, SendTypes, Literals DEF Limit
    <2>2. CASE pc' = [pc EXCEPT ![q] = "type"] /\ UNCHANGED sent
      BY <1>4, <2>2 DEF Limit, TypeOK
    <2> QED
      BY <1>4, <2>1, <2>2 DEF Limit
  <1>5. CASE RejectType(q)
    BY <1>5, SendTypes, Literals DEF RejectType
  <1>6. CASE Dispatch(q)
    BY <1>6 DEF Dispatch, TypeOK, Statuses, InitialStatus, None
  <1>7. CASE AnswerBuffer(q)
    <2>1. (IF code[q] = None THEN 200 ELSE code[q]) \in Statuses /\ chunks[q] \in 0..MaxChunks
      BY DEF TypeOK, Statuses
    <2> QED
      BY <1>7, <2>1, SendTypes DEF AnswerBuffer
  <1>8. CASE AnswerPanic(q)
    BY <1>8, SendTypes, Literals DEF AnswerPanic
  <1>9. CASE AnswerTimeout(q)
    BY <1>9, SendTypes, Literals DEF AnswerTimeout
  <1>10. ASSUME NEW c \in Codes, WriteHeader(q, c)
         PROVE  TypeOK'
    <2>1. c \in Statuses /\ c # None
      BY CodeAssumption DEF Statuses, None
    <2> QED
      BY <1>10, <2>1 DEF WriteHeader, TypeOK
  <1>11. CASE WriteBody(q)
    <2>1. Late(q) \/ (chunks[q] = wrote[q] /\ chunks[q] + 1 \in 0..MaxChunks)
      BY <1>11, ChunkAssumption
         DEF WriteBody, TypeOK, RequestInv, HandlerInside, BufferIsComplete, Late
    <2>2. wrote[q] + 1 \in 0..MaxChunks /\ 200 \in Statuses
      BY <1>11, ChunkAssumption DEF WriteBody, TypeOK, Statuses
    <2> QED
      BY <1>11, <2>1, <2>2 DEF WriteBody, TypeOK
  <1>12. CASE HandlerReturns(q)
    BY <1>12 DEF HandlerReturns, TypeOK
  <1>13. CASE LogRequest(q)
    BY <1>13 DEF LogRequest, TypeOK
  <1>14. CASE HandlerPanics(q)
    BY <1>14 DEF HandlerPanics, TypeOK
  <1>15. CASE Expire(q)
    BY <1>15 DEF Expire, TypeOK
  <1>16. CASE Free(q)
    BY <1>16, ChunkAssumption DEF Free, TypeOK, Statuses, None, Nothing
  <1> QED
    BY <1>1, <1>2, <1>3, <1>4, <1>5, <1>6, <1>7, <1>8, <1>9, <1>10, <1>11, <1>12, <1>13,
       <1>14, <1>15, <1>16 DEF RequestStep, Serve, Inner

-----------------------------------------------------------------------------
(* The invariant. *)

Same(q) ==
  /\ pc'[q] = pc[q] /\ inner'[q] = inner[q] /\ sent'[q] = sent[q]
  /\ code'[q] = code[q] /\ chunks'[q] = chunks[q]
  /\ status'[q] = status[q] /\ orderly'[q] = orderly[q] /\ wrote'[q] = wrote[q]
  /\ counted'[q] = counted[q] /\ logged'[q] = logged[q]

LEMMA SameKeeps ==
  ASSUME NEW q \in Requests, RequestInv(q), Same(q)
  PROVE  RequestInv(q)'
  BY DEF Same, RequestInv, HandlerInside, Unserved, BufferIsComplete, RecordsFollow, AnswerFollows

LEMMA OthersStay ==
  ASSUME TypeOK, NEW q \in Requests, RequestStep(q), NEW r \in Requests \ {q}
  PROVE  Same(r)
  <1> USE DEF serverVars, bufferVars, recordVars, Same, Send, TypeOK
  <1>1. CASE Accept(q)
    BY <1>1 DEF Accept
  <1>2. CASE Cors(q)
    BY <1>2 DEF Cors
  <1>3. CASE Limit(q)
    BY <1>3 DEF Limit
  <1>4. CASE RejectType(q)
    BY <1>4 DEF RejectType
  <1>5. CASE Dispatch(q)
    BY <1>5 DEF Dispatch
  <1>6. CASE AnswerBuffer(q)
    BY <1>6 DEF AnswerBuffer
  <1>7. CASE AnswerPanic(q)
    BY <1>7 DEF AnswerPanic
  <1>8. CASE AnswerTimeout(q)
    BY <1>8 DEF AnswerTimeout
  <1>9. CASE WriteBody(q)
    BY <1>9 DEF WriteBody
  <1>10. CASE HandlerReturns(q)
    BY <1>10 DEF HandlerReturns
  <1>11. CASE LogRequest(q)
    BY <1>11 DEF LogRequest
  <1>12. CASE HandlerPanics(q)
    BY <1>12 DEF HandlerPanics
  <1>13. CASE Expire(q)
    BY <1>13 DEF Expire
  <1>14. CASE Free(q)
    BY <1>14 DEF Free
  <1>15. ASSUME NEW k \in Kinds, Receive(q, k)
         PROVE  Same(r)
    BY <1>15 DEF Receive
  <1>16. ASSUME NEW c \in Codes, WriteHeader(q, c)
         PROVE  Same(r)
    BY <1>16 DEF WriteHeader
  <1> QED
    BY <1>1, <1>2, <1>3, <1>4, <1>5, <1>6, <1>7, <1>8, <1>9, <1>10, <1>11, <1>12, <1>13,
       <1>14, <1>15, <1>16 DEF RequestStep, Serve, Inner

LEMMA OwnStepKeeps ==
  ASSUME TypeOK, NEW q \in Requests, RequestInv(q), RequestStep(q)
  PROVE  RequestInv(q)'
  <1> USE DEF serverVars, bufferVars, recordVars, Send, TypeOK,
              RequestInv, HandlerInside, Unserved, BufferIsComplete, RecordsFollow, AnswerFollows
  <1>1. CASE Accept(q)
    BY <1>1 DEF Accept
  <1>2. CASE Cors(q)
    BY <1>2 DEF Cors, Nothing
  <1>3. CASE Limit(q)
    BY <1>3 DEF Limit
  <1>4. CASE RejectType(q)
    BY <1>4 DEF RejectType
  <1>5. CASE Dispatch(q)
    BY <1>5 DEF Dispatch, InitialStatus
  <1>6. CASE AnswerBuffer(q)
    BY <1>6 DEF AnswerBuffer, Finished
  <1>7. CASE AnswerPanic(q)
    BY <1>7 DEF AnswerPanic
  <1>8. CASE AnswerTimeout(q)
    BY <1>8 DEF AnswerTimeout
  <1>9. CASE WriteBody(q)
    BY <1>9 DEF WriteBody, Late
  <1>10. CASE HandlerReturns(q)
    BY <1>10 DEF HandlerReturns
  <1>11. CASE LogRequest(q)
    BY <1>11 DEF LogRequest
  <1>12. CASE HandlerPanics(q)
    BY <1>12 DEF HandlerPanics
  <1>13. CASE Expire(q)
    BY <1>13 DEF Expire
  <1>14. CASE Free(q)
    BY <1>14 DEF Free, Nothing
  <1>15. ASSUME NEW k \in Kinds, Receive(q, k)
         PROVE  RequestInv(q)'
    BY <1>15 DEF Receive
  <1>16. ASSUME NEW c \in Codes, WriteHeader(q, c)
         PROVE  RequestInv(q)'
    <2>1. orderly'[q] = (orderly[q] /\ code[q] = None)
      BY <1>16, Zenon DEF WriteHeader
    <2>2. /\ pc' = pc /\ inner' = inner /\ sent' = sent /\ chunks' = chunks /\ wrote' = wrote
          /\ counted' = counted /\ logged' = logged
          /\ inner[q] = "running" /\ status'[q] = c /\ c # None
          /\ code'[q] = IF pc[q] = "answered" \/ code[q] # None THEN code[q] ELSE c
      BY <1>16, CodeAssumption DEF WriteHeader, Late, None
    <2> QED
      BY <2>1, <2>2
  <1> QED
    BY <1>1, <1>2, <1>3, <1>4, <1>5, <1>6, <1>7, <1>8, <1>9, <1>10, <1>11, <1>12, <1>13,
       <1>14, <1>15, <1>16 DEF RequestStep, Serve, Inner

LEMMA ServerStepKeeps ==
  ASSUME TypeOK, Cancel \/ ListenFails \/ Select \/ EndShutdown \/ GiveUp,
         NEW q \in Requests, RequestInv(q)
  PROVE  RequestInv(q)'
  <1> USE DEF requestVars, bufferVars, recordVars
  <1>1. CASE EndShutdown
    <2>1. /\ pc'[q] = pc[q] \/ (pc[q] = "idle" /\ pc'[q] = "off")
          /\ UNCHANGED <<inner, code, chunks, status, orderly, wrote, counted, logged, sent>>
      BY <1>1 DEF EndShutdown
    <2> QED
      BY <2>1
         DEF RequestInv, HandlerInside, Unserved, BufferIsComplete, RecordsFollow,
             AnswerFollows, Nothing
  <1>2. CASE Cancel \/ ListenFails \/ Select \/ GiveUp
    <2>1. Same(q)
      BY <1>2 DEF Cancel, ListenFails, Select, BeginShutdown, ReportError, GiveUp, Same
    <2> QED
      BY <2>1, SameKeeps
  <1> QED
    BY <1>1, <1>2

LEMMA ServerInvInit == Init => ServerInv
  <1> SUFFICES ASSUME Init PROVE ServerInv
    OBVIOUS
  <1>1. \A q \in Requests : RequestInv(q)
    BY DEF Init, RequestInv, HandlerInside, Unserved, BufferIsComplete, RecordsFollow,
           AnswerFollows, Nothing
  <1> QED
    BY <1>1, TypeInit DEF ServerInv

LEMMA ServerInvNext == ServerInv /\ [Next]_vars => ServerInv'
  <1> SUFFICES ASSUME ServerInv, [Next]_vars PROVE ServerInv'
    OBVIOUS
  <1> USE DEF ServerInv
  <1>1. CASE Cancel \/ ListenFails \/ Select \/ EndShutdown \/ GiveUp
    BY <1>1, ServerStepTypes, ServerStepKeeps
  <1>2. ASSUME NEW q \in Requests, RequestStep(q)
        PROVE  ServerInv'
    <2>1. TypeOK'
      BY <1>2, RequestStepTypes
    <2>2. ASSUME NEW r \in Requests
          PROVE  RequestInv(r)'
      <3>1. CASE r = q
        BY <1>2, <3>1, OwnStepKeeps
      <3>2. CASE r # q
        BY <1>2, <3>2, OthersStay, SameKeeps
      <3> QED
        BY <3>1, <3>2
    <2> QED
      BY <2>1, <2>2
  <1>3. CASE UNCHANGED vars
    <2>1. \A q \in Requests : Same(q)
      BY <1>3 DEF vars, requestVars, bufferVars, recordVars, Same
    <2>2. TypeOK'
      BY <1>3 DEF vars, serverVars, requestVars, bufferVars, recordVars, TypeOK
    <2> QED
      BY <2>1, <2>2, SameKeeps
  <1> QED
    BY <1>1, <1>2, <1>3 DEF Next, RequestStep

THEOREM ServerInvariant == Spec => []ServerInv
  BY ServerInvInit, ServerInvNext, PTL DEF Spec

-----------------------------------------------------------------------------
(* bootstrap.StartServer, timeout, logging, metrics: every variable of the *)
(* server and of its requests keeps its type; in particular a status is 0  *)
(* or one of HTTP's and a buffer never holds more than the handler wrote.  *)
THEOREM TypeCorrect == Spec => []TypeOK
  <1>1. ServerInv => TypeOK
    BY DEF ServerInv
  <1> QED
    BY ServerInvariant, <1>1, PTL

(* timeout.Middleware: a client gets the whole output of a handler that    *)
(* has ended, counted and logged, or none of it, for any number of         *)
(* requests, of Write calls and of statuses.                               *)
THEOREM AnswersAreWhole == Spec => []WholeAnswer
  <1>1. ServerInv => WholeAnswer
    <2> SUFFICES ASSUME ServerInv, NEW q \in Requests
                 PROVE  /\ sent[q].from = "handler" =>
                             /\ inner[q] = "done"
                             /\ sent[q].chunks = wrote[q]
                             /\ counted[q] # None /\ logged[q] # None
                        /\ sent[q].from \in {"recover", "timeout"} => sent[q].chunks = 0
                        /\ inner[q] = "panicked" => sent[q].from # "handler"
      BY DEF WholeAnswer
    <2>1. inner[q] = "done" => counted[q] # None /\ logged[q] # None
      BY DEF ServerInv, RequestInv, RecordsFollow, TypeOK
    <2> QED
      BY <2>1 DEF ServerInv, RequestInv, AnswerFollows
  <1> QED
    BY ServerInvariant, <1>1, PTL

(* logging.Middleware, metrics.Middleware: what they record of a request   *)
(* answered from its buffer is the status its client got, if the handler   *)
(* set one status before its body.                                         *)
THEOREM RecordsAreTrue == Spec => []RecordsTellAnswer
  <1>1. ServerInv => RecordsTellAnswer
    BY DEF ServerInv, RequestInv, AnswerFollows, RecordsFollow, RecordsTellAnswer
  <1> QED
    BY ServerInvariant, <1>1, PTL
=============================================================================
