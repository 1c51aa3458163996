-------------------------------- MODULE TxPool --------------------------------
(***************************************************************************)
(* txpostgres over a pgxpool: callers run units of work with WithinTx and  *)
(* single operations through the facade that FromCtx returns for a context *)
(* without a transaction.  Both take connections from one bounded pool and *)
(* a caller may hold several: a unit inside a unit, an operation inside a  *)
(* unit, or a result it has not closed yet.                                *)
(*                                                                         *)
(* A caller's stack holds the calls it is in.  pgx and the server are as   *)
(* the package uses them: a context that is done can fail any call, a      *)
(* failed statement aborts its transaction, and Release closes a           *)
(* connection that is broken or still in a transaction.                    *)
(***************************************************************************)
EXTENDS Naturals, Sequences, FiniteSets, SequencesExt

CONSTANTS
  Callers,  \* goroutines
  Conns,    \* connections the pool may have: its MaxConns
  NoConn,   \* "no connection"
  Ops,      \* operations the callers use
  Faults,   \* TRUE: contexts end, statements fail, connections break
  MaxWrites,\* bound: statements a unit makes
  MaxHeld   \* bound: connections one caller asks for at a time

ASSUME ConnAssumption == NoConn \notin Conns
ASSUME CallersAssumption == IsFiniteSet(Callers)
Operations == {"tx", "exec", "query", "row"}

ASSUME ChoiceAssumption == Ops \subseteq Operations /\ Faults \in BOOLEAN
ASSUME BoundAssumption == MaxWrites \in Nat /\ MaxHeld \in Nat

VARIABLES
  stack,  \* the calls each caller is in, the innermost last
  open,   \* connections behind the Rows and Row each caller has not finished
  taken,  \* connections acquired and not released
  tx,     \* the server's transaction on each connection
  broken  \* connections closed by pgx or lost

vars == <<stack, open, taken, tx, broken>>

Calls ==
  [op : Operations, at : {"acquire", "begin", "fn", "commit", "rollback", "run", "release"},
   conn : Conns \cup {NoConn}, wrote : 0..MaxWrites, durable : 0..MaxWrites,
   answer : {"none", "ok", "failed", "unknown"}]

TypeOK ==
  /\ stack \in [Callers -> Seq(Calls)]
  /\ \A c \in Callers : \A d \in DOMAIN stack[c] :
       /\ stack[c][d].at = "acquire" <=> stack[c][d].conn = NoConn
       /\ stack[c][d].at = "release" <=> stack[c][d].answer # "none"
  /\ open \in [Callers -> SUBSET Conns]
  /\ taken \subseteq Conns
  /\ tx \in [Conns -> {"none", "open", "aborted"}]
  /\ broken \subseteq Conns

Init ==
  /\ stack = [c \in Callers |-> <<>>]
  /\ open = [c \in Callers |-> {}]
  /\ taken = {}
  /\ tx = [k \in Conns |-> "none"]
  /\ broken = {}

-----------------------------------------------------------------------------
Top(c) == Last(stack[c])
At(c, where) == stack[c] # <<>> /\ Top(c).at = where
Conn(c) == Top(c).conn

(* The caller's own code runs: outside any call, or in the fn of a unit. *)
InControl(c) == stack[c] = <<>> \/ At(c, "fn")
Held(c) == Len(stack[c]) + Cardinality(open[c])

Pop(c) == stack' = [stack EXCEPT ![c] = Front(@)]
Step(c, call) == stack' = [stack EXCEPT ![c] = Append(Front(@), call)]
Goto(c, where) == Step(c, [Top(c) EXCEPT !.at = where])
Answer(c, a) == Step(c, [Top(c) EXCEPT !.at = "release", !.answer = a])

Intact(k) == k \notin broken /\ tx[k] # "aborted"

(* A statement on k failed: the server aborts the transaction, if there is *)
(* one, or the connection is gone, or pgx refused it before the server saw *)
(* it.                                                                     *)
StatementFails(k) ==
  /\ Faults
  /\ \/ /\ tx' = [tx EXCEPT ![k] = IF @ = "open" THEN "aborted" ELSE @]
        /\ UNCHANGED broken
     \/ /\ broken' = broken \cup {k}
        /\ UNCHANGED tx
     \/ UNCHANGED <<tx, broken>>

(* pgxpool's Release closes the connection unless it is fit for the next   *)
(* caller; the pool opens another in its place.                            *)
GiveBack(k) ==
  /\ taken' = taken \ {k}
  /\ tx' = [tx EXCEPT ![k] = "none"]
  /\ broken' = broken \ {k}

-----------------------------------------------------------------------------
(* Every operation takes a connection first. *)

Start(c, o) ==
  /\ InControl(c)
  /\ Held(c) < MaxHeld
  /\ stack' = [stack EXCEPT ![c] = Append(@,
       [op |-> o, at |-> "acquire", conn |-> NoConn, wrote |-> 0, durable |-> 0,
        answer |-> "none"])]
  /\ UNCHANGED <<open, taken, tx, broken>>

Acquire(c) ==
  /\ At(c, "acquire")
  /\ \E k \in Conns \ taken :
       /\ taken' = taken \cup {k}
       /\ Step(c, [Top(c) EXCEPT !.conn = k, !.at = IF Top(c).op = "tx" THEN "begin" ELSE "run"])
  /\ UNCHANGED <<open, tx, broken>>

(* The context ended while the caller waited: the error is returned (by a  *)
(* Row, from Scan).                                                        *)
AcquireFails(c) ==
  /\ Faults
  /\ At(c, "acquire")
  /\ Pop(c)
  /\ UNCHANGED <<open, taken, tx, broken>>

-----------------------------------------------------------------------------
(* WithinTx. *)

Begin(c) ==
  /\ At(c, "begin")
  /\ tx' = [tx EXCEPT ![Conn(c)] = "open"]
  /\ Goto(c, "fn")
  /\ UNCHANGED <<open, taken, broken>>

(* Mutant: Release is deferred only after Begin. *)
ReturnHolding(c) == Pop(c)

(* Mutant: the call goes on to its Release without an answer. *)
ReturnMute(c) == Goto(c, "release")

(* The deferred Release runs. *)
ReturnEarly(c) == Answer(c, "failed")

BeginFails(c) ==
  /\ At(c, "begin")
  /\ StatementFails(Conn(c))
  /\ ReturnEarly(c)
  /\ UNCHANGED <<open, taken>>

(* fn runs a statement in the transaction of a unit it is in (FromCtx with *)
(* the context of that unit); a failed one it may well ignore.             *)
Write(c, d) ==
  LET call == stack[c][d] IN
  /\ InControl(c)
  /\ call.op = "tx"
  /\ Intact(call.conn)
  /\ \/ /\ call.wrote < MaxWrites
        /\ stack' = [stack EXCEPT ![c][d].wrote = @ + 1]
        /\ UNCHANGED <<tx, broken>>
     \/ /\ StatementFails(call.conn)
        /\ UNCHANGED stack
  /\ UNCHANGED <<open, taken>>

(* fn returned an error or panicked: the deferred Rollback runs. *)
Undo(c) == Goto(c, "rollback")

FnReturns(c) == At(c, "fn") /\ Goto(c, "commit") /\ UNCHANGED <<open, taken, tx, broken>>
FnFails(c) == At(c, "fn") /\ Undo(c) /\ UNCHANGED <<open, taken, tx, broken>>

Rollback(c) ==
  LET k == Conn(c) IN
  /\ At(c, "rollback")
  /\ Answer(c, "failed")
  /\ \/ k \notin broken /\ tx' = [tx EXCEPT ![k] = "none"] /\ UNCHANGED broken
     \/ (Faults \/ k \in broken) /\ broken' = broken \cup {k} /\ UNCHANGED tx
  /\ UNCHANGED <<open, taken>>

Committed(c) ==
  Step(c, [Top(c) EXCEPT !.at = "release", !.answer = "ok", !.durable = Top(c).wrote])

Commit(c) ==
  /\ At(c, "commit")
  /\ Intact(Conn(c))
  /\ Committed(c)
  /\ tx' = [tx EXCEPT ![Conn(c)] = "none"]
  /\ UNCHANGED <<open, taken, broken>>

(* Mutant: the error of Commit is dropped. *)
CommitErrorDropped == "ok"

CommitError == "unknown"

(* Commit returns an error: the server rolled back, because the            *)
(* transaction was aborted or it refuses to commit it, or the connection   *)
(* broke before or after the server committed.  The deferred Rollback      *)
(* finds the transaction closed.                                           *)
CommitFails(c) ==
  LET k == Conn(c)
      fail(n) == Step(c, [Top(c) EXCEPT !.at = "release", !.answer = CommitError, !.durable = n])
  IN
  /\ At(c, "commit")
  /\ Faults \/ ~Intact(k)
  /\ \/ k \notin broken /\ fail(0) /\ tx' = [tx EXCEPT ![k] = "none"] /\ UNCHANGED broken
     \/ fail(0) /\ broken' = broken \cup {k} /\ UNCHANGED tx
     \/ Intact(k) /\ fail(Top(c).wrote) /\ broken' = broken \cup {k} /\ UNCHANGED tx
  /\ UNCHANGED <<open, taken>>

-----------------------------------------------------------------------------
(* The facade. *)

(* Exec, Query and QueryRow got an answer; Rows and Row keep the           *)
(* connection.  QueryRow has no error to return: Scan will.                *)
Run(c) ==
  /\ At(c, "run")
  /\ \/ Top(c).op = "exec" /\ Answer(c, "ok") /\ UNCHANGED open
     \/ /\ Top(c).op # "exec"
        /\ Pop(c)
        /\ open' = [open EXCEPT ![c] = @ \cup {Conn(c)}]
  /\ UNCHANGED <<taken, tx, broken>>

RunFails(c) ==
  /\ At(c, "run")
  /\ StatementFails(Conn(c))
  /\ \/ Top(c).op # "row" /\ ReturnEarly(c) /\ UNCHANGED open
     \/ /\ Top(c).op = "row"
        /\ Pop(c)
        /\ open' = [open EXCEPT ![c] = @ \cup {Conn(c)}]
  /\ UNCHANGED taken

(* rowsWithRelease.Close, rowWithRelease.Scan. *)
CloseResult(c) ==
  /\ InControl(c)
  /\ \E k \in open[c] : GiveBack(k) /\ open' = [open EXCEPT ![c] = @ \ {k}]
  /\ UNCHANGED stack

(* The deferred Release; the call returns. *)
Release(c) ==
  /\ At(c, "release")
  /\ GiveBack(Conn(c))
  /\ Pop(c)
  /\ UNCHANGED open

-----------------------------------------------------------------------------
FnEnds(c) == FnReturns(c) \/ FnFails(c)

Machinery(c) ==
  \/ Begin(c) \/ BeginFails(c)
  \/ Rollback(c) \/ Commit(c) \/ CommitFails(c)
  \/ Run(c) \/ RunFails(c) \/ Release(c)

Next ==
  \E c \in Callers :
    \/ \E o \in Ops : Start(c, o)
    \/ Acquire(c) \/ AcquireFails(c)
    \/ \E d \in DOMAIN stack[c] : Write(c, d)
    \/ FnEnds(c) \/ CloseResult(c)
    \/ Machinery(c)

Spec == Init /\ [][Next]_vars

-----------------------------------------------------------------------------
(* Every connection out of the pool has one owner that will release it: a  *)
(* call in progress or a result not yet closed.  No error path of WithinTx *)
(* or of the facade forgets one or releases one that is still in use       *)
(* (txpostgres.go:54, "no leaks").                                         *)
Owners(k) ==
  {p \in Callers \X (1..MaxHeld) :
     p[2] \in DOMAIN stack[p[1]] /\ stack[p[1]][p[2]].conn = k}
    \cup {p \in Callers \X {0} : k \in open[p[1]]}

OneOwner ==
  \A k \in Conns : Cardinality(Owners(k)) = IF k \in taken THEN 1 ELSE 0

(* What WithinTx answers is true of the database: no error means that all  *)
(* of the unit's statements are durable, an error from before Commit that  *)
(* none is, an error from Commit all or none; also when fn ignored a       *)
(* failed statement or the connection broke.                               *)
AnswerIsTrue ==
  \A c \in Callers : \A d \in DOMAIN stack[c] :
    LET call == stack[c][d] IN
    (call.op = "tx" /\ call.at = "release") =>
      /\ call.answer = "ok" => call.durable = call.wrote
      /\ call.answer = "failed" => call.durable = 0
      /\ call.answer = "unknown" => call.durable \in {0, call.wrote}

(* With one connection more than the callers can hold while they all wait, *)
(* callers never wait for each other in a circle, though a unit inside a   *)
(* unit takes a second connection.                                         *)
EnoughConns == Cardinality(Conns) > Cardinality(Callers) * (MaxHeld - 1)
Waiting(c) == At(c, "acquire")
NoGridlock ==
  (EnoughConns /\ Callers # {} /\ \A c \in Callers : Waiting(c)) => taken # Conns
=============================================================================
