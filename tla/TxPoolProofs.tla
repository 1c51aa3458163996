----------------------------- MODULE TxPoolProofs -----------------------------
(***************************************************************************)
(* Theorems about TxPool, for any number of callers, connections, nested   *)
(* calls and statements.                                                   *)
(***************************************************************************)
EXTENDS TxPool, SequenceTheorems, FiniteSetTheorems, TLAPS

(* A call by itself: where it is tells what it is, what it holds and what  *)
(* its answer may say.                                                     *)
CallInv(call) ==
  /\ call.at = "acquire" <=> call.conn = NoConn
  /\ call.at = "release" <=> call.answer # "none"
  /\ call.at \in {"begin", "fn", "commit", "rollback"} => call.op = "tx"
  /\ call.at = "run" => call.op # "tx"
  /\ call.op # "tx" => call.wrote = 0
  /\ call.at # "release" => call.durable = 0
  /\ call.answer = "ok" => call.durable = call.wrote
  /\ call.answer = "failed" => call.durable = 0
  /\ call.answer = "unknown" => call.durable \in {0, call.wrote}

(* Only the innermost call of a caller is anywhere but in the fn of a unit. *)
StackInv(c) ==
  /\ \A d \in 1..Len(stack[c]) : CallInv(stack[c][d])
  /\ \A d \in 1..(Len(stack[c]) - 1) : stack[c][d].at = "fn"

Stacks ==
  /\ stack \in [Callers -> Seq(Calls)]
  /\ \A c \in Callers : StackInv(c)

Server ==
  /\ tx \in [Conns -> {"none", "open", "aborted"}]
  /\ broken \subseteq Conns

(* What c holds k for: the call at depth d, or at depth 0 an open result.  *)
Owns(c, d, k) ==
  IF d = 0 THEN k \in open[c] ELSE d <= Len(stack[c]) /\ stack[c][d].conn = k

Depths == 0..MaxHeld

Ownership ==
  /\ open \in [Callers -> SUBSET Conns]
  /\ taken \subseteq Conns
  /\ \A c \in Callers, d \in Depths, k \in Conns : Owns(c, d, k) => k \in taken
  /\ \A k \in taken : \E c \in Callers, d \in Depths : Owns(c, d, k)
  /\ \A b, c \in Callers, d, e \in Depths, k \in Conns :
       Owns(b, d, k) /\ Owns(c, e, k) => b = c /\ d = e

(* Start is the only step that makes a caller hold more.                   *)
Bounded ==
  \A c \in Callers :
    IsFiniteSet(open[c]) /\ Len(stack[c]) + Cardinality(open[c]) <= MaxHeld

PoolInv == Stacks /\ Server /\ Ownership /\ Bounded

-----------------------------------------------------------------------------
(* What the three ways to change a stack do to it. *)

LEMMA Heights ==
  ASSUME Stacks, NEW c \in Callers
  PROVE  /\ Len(stack[c]) \in Nat /\ DOMAIN stack[c] = 1..Len(stack[c])
         /\ \A d \in 1..Len(stack[c]) : stack[c][d] \in Calls
         /\ stack[c] # <<>> => Len(stack[c]) \in 1..Len(stack[c])
  <1>1. stack[c] \in Seq(Calls)
    BY DEF Stacks
  <1> QED
    BY <1>1, LenProperties, ElementOfSeq, EmptySeq

LEMMA FrontEffect ==
  ASSUME NEW s \in Seq(Calls), s # <<>>
  PROVE  /\ Front(s) \in Seq(Calls)
         /\ Len(Front(s)) = Len(s) - 1
         /\ \A d \in 1..(Len(s) - 1) : Front(s)[d] = s[d]
  <1>1. Len(s) \in Nat \ {0}
    BY EmptySeq
  <1> DEFINE m == Len(s) - 1
  <1>2. 1 \in Int /\ m \in Int /\ m >= 0
    BY <1>1
  <1>3. \A i \in 1..m : s[i] \in Calls
    BY <1>1, ElementOfSeq
  <1> HIDE DEF m
  <1>4. /\ SubSeq(s, 1, m) \in Seq(Calls)
        /\ Len(SubSeq(s, 1, m)) = IF 1 <= m THEN m - 1 + 1 ELSE 0
        /\ \A i \in 1..(m - 1 + 1) : SubSeq(s, 1, m)[i] = s[1 + i - 1]
    BY <1>2, <1>3, SubSeqProperties
  <1>5. /\ Len(SubSeq(s, 1, m)) = m
        /\ \A i \in 1..m : SubSeq(s, 1, m)[i] = s[i]
    BY <1>2, <1>4
  <1> QED
    BY <1>4, <1>5 DEF Front, m

Becomes(c, n, call) ==
  /\ stack' \in [Callers -> Seq(Calls)]
  /\ Len(stack'[c]) = n /\ n \in Nat
  /\ n > 0 => stack'[c][n] = call
  /\ n > 0 => \A d \in 1..(n - 1) : d <= Len(stack[c]) /\ stack'[c][d] = stack[c][d]
  /\ \A b \in Callers \ {c} : stack'[b] = stack[b]

LEMMA StepEffect ==
  ASSUME Stacks, NEW c \in Callers, stack[c] # <<>>, NEW call \in Calls, Step(c, call)
  PROVE  Becomes(c, Len(stack[c]), call)
  <1>1. stack[c] \in Seq(Calls) /\ stack \in [Callers -> Seq(Calls)]
    BY DEF Stacks
  <1>2. Len(stack[c]) \in Nat \ {0}
    BY <1>1, EmptySeq
  <1> DEFINE f == Front(stack[c])
  <1>3. /\ f \in Seq(Calls) /\ Len(f) = Len(stack[c]) - 1
        /\ \A d \in 1..(Len(stack[c]) - 1) : f[d] = stack[c][d]
    BY <1>1, FrontEffect
  <1>4. stack' = [stack EXCEPT ![c] = Append(f, call)]
    BY DEF Step
  <1> HIDE DEF f
  <1>5. /\ Append(f, call) \in Seq(Calls) /\ Len(Append(f, call)) = Len(f) + 1
        /\ \A i \in 1..Len(f) : Append(f, call)[i] = f[i]
        /\ Append(f, call)[Len(f) + 1] = call
    BY <1>3, AppendProperties
  <1> QED
    BY <1>1, <1>2, <1>3, <1>4, <1>5 DEF Becomes

LEMMA PushEffect ==
  ASSUME Stacks, NEW c \in Callers, NEW call \in Calls,
         stack' = [stack EXCEPT ![c] = Append(@, call)]
  PROVE  Becomes(c, Len(stack[c]) + 1, call)
  <1>1. stack[c] \in Seq(Calls) /\ stack \in [Callers -> Seq(Calls)]
    BY DEF Stacks
  <1>2. /\ Append(stack[c], call) \in Seq(Calls)
        /\ Len(Append(stack[c], call)) = Len(stack[c]) + 1
        /\ \A i \in 1..Len(stack[c]) : Append(stack[c], call)[i] = stack[c][i]
        /\ Append(stack[c], call)[Len(stack[c]) + 1] = call
    BY <1>1, AppendProperties
  <1>3. Len(stack[c]) \in Nat
    BY <1>1, LenProperties
  <1> QED
    BY <1>1, <1>2, <1>3 DEF Becomes

(* The call that becomes the innermost one was in fn: where it stood.      *)
LEMMA PopEffect ==
  ASSUME Stacks, NEW c \in Callers, stack[c] # <<>>, Pop(c)
  PROVE  Becomes(c, Len(stack[c]) - 1, stack[c][Len(stack[c]) - 1])
  <1>1. stack[c] \in Seq(Calls) /\ stack \in [Callers -> Seq(Calls)]
    BY DEF Stacks
  <1>2. Len(stack[c]) \in Nat \ {0}
    BY <1>1, EmptySeq
  <1>3. /\ Front(stack[c]) \in Seq(Calls) /\ Len(Front(stack[c])) = Len(stack[c]) - 1
        /\ \A d \in 1..(Len(stack[c]) - 1) : Front(stack[c])[d] = stack[c][d]
    BY <1>1, FrontEffect
  <1> QED
    BY <1>1, <1>2, <1>3 DEF Becomes, Pop

(* A new innermost call must be sound, and what it covers be in fn.        *)
LEMMA BecomesKeepsStacks ==
  ASSUME Stacks, NEW c \in Callers, NEW n, NEW call, Becomes(c, n, call),
         n > 0 => CallInv(call),
         \A d \in 1..(n - 1) : d <= Len(stack[c]) => stack[c][d].at = "fn"
  PROVE  Stacks'
  <1>1. StackInv(c)'
    <2>1. ASSUME NEW d \in 1..n PROVE CallInv(stack'[c][d])
      <3>1. CASE d = n
        BY <3>1 DEF Becomes
      <3>2. CASE d # n
        <4>1. d \in 1..Len(stack[c]) /\ stack'[c][d] = stack[c][d]
          BY <3>2, Heights DEF Becomes
        <4>2. CallInv(stack[c][d])
          BY <4>1 DEF Stacks, StackInv
        <4> QED
          BY <4>1, <4>2
      <3> QED
        BY <3>1, <3>2
    <2>2. \A d \in 1..(n - 1) : stack'[c][d].at = "fn"
      BY DEF Becomes
    <2> QED
      BY <2>1, <2>2 DEF StackInv, Becomes, CallInv
  <1>2. ASSUME NEW b \in Callers, b # c PROVE StackInv(b)'
    <2>1. stack'[b] = stack[b] /\ StackInv(b)
      BY <1>2 DEF Becomes, Stacks
    <2> QED
      BY <2>1 DEF StackInv, CallInv
  <1> QED
    BY <1>1, <1>2 DEF Stacks, Becomes

-----------------------------------------------------------------------------
(* Who owns what after a stack has changed. *)

LEMMA NewOwners ==
  ASSUME Stacks, NEW c \in Callers, NEW n, NEW call, Becomes(c, n, call), n >= Len(stack[c]) - 1,
         n < Len(stack[c]) => call = stack[c][n],
         NEW b \in Callers, NEW d \in Depths, d # 0, NEW k \in Conns
  PROVE  Owns(b, d, k)' <=>
           IF b = c /\ d = n /\ n >= Len(stack[c])
           THEN call.conn = k
           ELSE Owns(b, d, k) /\ (b = c => d <= n)
  <1>1. d \in Nat /\ d > 0
    BY BoundAssumption DEF Depths
  <1>2. Len(stack[c]) \in Nat
    BY Heights
  <1>3. CASE b # c
    BY <1>1, <1>3 DEF Becomes, Owns
  <1>4. CASE b = c /\ n > 0
    <2>1. CASE d = n /\ n >= Len(stack[c])
      BY <1>1, <1>2, <1>4, <2>1 DEF Becomes, Owns
    <2>2. CASE d < n
      BY <1>1, <1>2, <1>4, <2>2 DEF Becomes, Owns
    <2>3. CASE d > n
      BY <1>1, <1>2, <1>4, <2>3 DEF Becomes, Owns
    <2>4. CASE d = n /\ n < Len(stack[c])
      BY <1>1, <1>2, <1>4, <2>4 DEF Becomes, Owns
    <2> QED
      BY <1>1, <1>4, <2>1, <2>2, <2>3, <2>4 DEF Becomes
  <1>5. CASE b = c /\ n = 0
    BY <1>1, <1>2, <1>5 DEF Becomes, Owns
  <1> QED
    BY <1>1, <1>3, <1>4, <1>5 DEF Becomes

(* The three things a step does to the pool: nothing, one connection is    *)
(* taken, one is given back; and a result takes its connection over.       *)
SameOwners ==
  /\ open' = open
  /\ \A b \in Callers, d \in Depths \ {0}, k \in Conns : Owns(b, d, k)' <=> Owns(b, d, k)

LEMMA KeepsOwnership ==
  ASSUME Ownership, SameOwners, taken' = taken
  PROVE  Ownership'
  <1>1. \A b \in Callers, d \in Depths, k \in Conns : Owns(b, d, k)' <=> Owns(b, d, k)
    BY DEF SameOwners, Owns
  <1> QED
    BY <1>1 DEF Ownership, SameOwners

LEMMA TakesOwnership ==
  ASSUME Ownership, open' = open,
         NEW c \in Callers, NEW n \in Depths \ {0}, NEW j \in Conns \ taken,
         taken' = taken \cup {j},
         \A b \in Callers, d \in Depths \ {0}, k \in Conns :
           Owns(b, d, k)' <=> IF b = c /\ d = n THEN k = j ELSE Owns(b, d, k),
         \A k \in Conns : ~Owns(c, n, k)
  PROVE  Ownership'
  <1>1. \A b \in Callers, d \in Depths, k \in Conns :
          Owns(b, d, k)' <=> Owns(b, d, k) \/ (b = c /\ d = n /\ k = j)
    BY DEF Owns
  <1>2. \A b \in Callers, d \in Depths : ~Owns(b, d, j)
    BY DEF Ownership
  <1>3. \A k \in taken' : \E b \in Callers, d \in Depths : Owns(b, d, k)'
    BY <1>1 DEF Ownership
  <1> QED
    BY <1>1, <1>2, <1>3 DEF Ownership

LEMMA GivesBack ==
  ASSUME Ownership, open' \in [Callers -> SUBSET Conns],
         NEW c \in Callers, NEW n \in Depths, NEW j \in Conns, Owns(c, n, j),
         taken' = taken \ {j},
         \A b \in Callers, d \in Depths, k \in Conns :
           Owns(b, d, k)' <=> Owns(b, d, k) /\ ~(b = c /\ d = n /\ k = j)
  PROVE  Ownership'
  <1>1. \A k \in taken' : \E b \in Callers, d \in Depths : Owns(b, d, k)'
    BY DEF Ownership
  <1>2. \A b \in Callers, d \in Depths : ~Owns(b, d, j)'
    BY DEF Ownership
  <1> QED
    BY <1>1, <1>2 DEF Ownership

LEMMA ResultTakesOver ==
  ASSUME Ownership, NEW c \in Callers, NEW n \in Depths \ {0}, NEW j \in Conns, Owns(c, n, j),
         open' \in [Callers -> SUBSET Conns], taken' = taken,
         open'[c] = open[c] \cup {j}, \A b \in Callers \ {c} : open'[b] = open[b],
         \A b \in Callers, d \in Depths \ {0}, k \in Conns :
           Owns(b, d, k)' <=> Owns(b, d, k) /\ ~(b = c /\ d = n /\ k = j)
  PROVE  Ownership'
  <1>1. \A b \in Callers, k \in Conns : Owns(b, 0, k)' <=> Owns(b, 0, k) \/ (b = c /\ k = j)
    BY DEF Ownership, Owns
  <1>2. 0 \in Depths
    BY BoundAssumption DEF Depths
  <1>3. \A b \in Callers, d \in Depths, k \in Conns :
          Owns(b, d, k)' <=> \/ Owns(b, d, k) /\ ~(b = c /\ d = n /\ k = j)
                             \/ b = c /\ d = 0 /\ k = j
    BY <1>1, <1>2
  <1>4. j \in taken
    BY DEF Ownership
  <1>5. \A k \in taken : \E b \in Callers, d \in Depths : Owns(b, d, k)'
    BY <1>2, <1>3 DEF Ownership
  <1>6. \A b \in Callers, d \in Depths : Owns(b, d, j) => b = c /\ d = n
    BY DEF Ownership
  <1>7. ASSUME NEW a \in Callers, NEW b \in Callers, NEW d \in Depths, NEW e \in Depths,
               NEW k \in Conns, Owns(a, d, k)', Owns(b, e, k)'
        PROVE  a = b /\ d = e
    <2>1. CASE k = j
      BY <1>3, <1>6, <1>7, <2>1
    <2>2. CASE k # j
      BY <1>3, <1>7, <2>2 DEF Ownership
    <2> QED
      BY <2>1, <2>2
  <1>8. \A b \in Callers, d \in Depths, k \in Conns : Owns(b, d, k)' => k \in taken'
    BY <1>3, <1>4 DEF Ownership
  <1> QED
    BY <1>4, <1>5, <1>7, <1>8 DEF Ownership

-----------------------------------------------------------------------------
(* The innermost call, and what its steps have in common. *)

LEMMA TopFacts ==
  ASSUME PoolInv, NEW c \in Callers, stack[c] # <<>>
  PROVE  /\ Len(stack[c]) \in Depths \ {0}
         /\ Top(c) = stack[c][Len(stack[c])] /\ Top(c) \in Calls /\ CallInv(Top(c))
         /\ Top(c).conn \in Conns => Owns(c, Len(stack[c]), Top(c).conn)
         /\ Top(c).at # "acquire" => Top(c).conn \in Conns
  <1>1. Len(stack[c]) \in 1..Len(stack[c]) /\ Len(stack[c]) \in Nat
    BY Heights DEF PoolInv
  <1>2. Cardinality(open[c]) \in Nat /\ Len(stack[c]) + Cardinality(open[c]) <= MaxHeld
    BY FS_CardinalityType DEF PoolInv, Bounded
  <1>3. Len(stack[c]) \in Depths \ {0}
    BY <1>1, <1>2, BoundAssumption DEF Depths
  <1>4. Top(c) = stack[c][Len(stack[c])]
    BY DEF Top, Last
  <1>5. Top(c) \in Calls /\ CallInv(Top(c))
    BY <1>1, <1>4, Heights DEF PoolInv, Stacks, StackInv
  <1>6. Top(c).conn \in Conns => Owns(c, Len(stack[c]), Top(c).conn)
    BY <1>3, <1>4, <1>1 DEF Owns
  <1>7. Top(c).at # "acquire" => Top(c).conn \in Conns
    BY <1>5 DEF CallInv, Calls
  <1> QED
    BY <1>3, <1>4, <1>5, <1>6, <1>7

(* The call goes on with the connection it has. *)
LEMMA CallStep ==
  ASSUME PoolInv, NEW c \in Callers, stack[c] # <<>>,
         NEW call \in Calls, call.conn = Top(c).conn, CallInv(call),
         Step(c, call), UNCHANGED <<open, taken>>, Server'
  PROVE  PoolInv'
  <1> DEFINE n == Len(stack[c])
  <1>1. Becomes(c, n, call)
    BY StepEffect DEF PoolInv
  <1>2. Stacks'
    BY <1>1, BecomesKeepsStacks DEF PoolInv, Stacks, StackInv
  <1>3. n \in Nat /\ n \in Depths /\ Top(c) = stack[c][n]
    BY TopFacts DEF Depths
  <1>4. \A b \in Callers, d \in Depths \ {0}, k \in Conns :
          Owns(b, d, k)' <=> IF b = c /\ d = n THEN call.conn = k
                             ELSE Owns(b, d, k) /\ (b = c => d <= n)
    BY <1>1, <1>3, NewOwners DEF PoolInv
  <1>5. \A b \in Callers, d \in Depths \ {0}, k \in Conns : Owns(b, d, k)' <=> Owns(b, d, k)
    BY <1>3, <1>4 DEF Owns, Depths
  <1>6. Ownership'
    BY <1>5, KeepsOwnership DEF SameOwners, PoolInv
  <1>7. Bounded'
    BY <1>1 DEF Bounded, PoolInv, Becomes
  <1> QED
    BY <1>2, <1>6, <1>7 DEF PoolInv

(* What a pop leaves. *)
LEMMA PopKeeps ==
  ASSUME PoolInv, NEW c \in Callers, stack[c] # <<>>, Pop(c)
  PROVE  /\ Stacks'
         /\ Len(stack'[c]) = Len(stack[c]) - 1
         /\ \A b \in Callers \ {c} : stack'[b] = stack[b]
         /\ \A b \in Callers, d \in Depths \ {0}, k \in Conns :
              Owns(b, d, k)' <=> Owns(b, d, k) /\ ~(b = c /\ d = Len(stack[c]))
  <1> DEFINE n == Len(stack[c])
             call == stack[c][n - 1]
  <1>1. Becomes(c, n - 1, call)
    BY PopEffect DEF PoolInv
  <1>2. n \in Nat \ {0} /\ n \in 1..n
    BY Heights DEF PoolInv
  <1>3. n - 1 > 0 => CallInv(call)
    BY <1>2 DEF PoolInv, Stacks, StackInv
  <1>4. \A d \in 1..(n - 1 - 1) : stack[c][d].at = "fn"
    BY <1>2 DEF PoolInv, Stacks, StackInv
  <1>5. Stacks'
    <2> HIDE DEF call, n
    <2> QED
      BY <1>1, <1>2, <1>3, <1>4, BecomesKeepsStacks DEF PoolInv
  <1>6. ASSUME NEW b \in Callers, NEW d \in Depths \ {0}, NEW k \in Conns
        PROVE  Owns(b, d, k)' <=> Owns(b, d, k) /\ ~(b = c /\ d = n)
    <2>1. Owns(b, d, k)' <=> IF b = c /\ d = n - 1 /\ n - 1 >= n THEN call.conn = k
                             ELSE Owns(b, d, k) /\ (b = c => d <= n - 1)
      BY <1>1, <1>2, NewOwners DEF PoolInv
    <2>2. d \in Nat /\ d # 0
      BY DEF Depths
    <2> QED
      BY <1>2, <2>1, <2>2 DEF Owns
  <1> QED
    BY <1>1, <1>5, <1>6 DEF Becomes

(* The call returns with its connection released. *)
LEMMA ReleaseStep ==
  ASSUME PoolInv, NEW c \in Callers, Release(c)
  PROVE  PoolInv'
  <1> DEFINE n == Len(stack[c])
             j == Top(c).conn
  <1>1. stack[c] # <<>> /\ Top(c).at = "release" /\ Pop(c) /\ open' = open /\ GiveBack(j)
    BY DEF Release, At, Conn
  <1>2. n \in Depths \ {0} /\ j \in Conns /\ Owns(c, n, j) /\ Top(c) = stack[c][n]
    BY <1>1, TopFacts
  <1>3. /\ Stacks' /\ Len(stack'[c]) = n - 1
        /\ \A b \in Callers \ {c} : stack'[b] = stack[b]
        /\ \A b \in Callers, d \in Depths \ {0}, k \in Conns :
             Owns(b, d, k)' <=> Owns(b, d, k) /\ ~(b = c /\ d = n)
    BY <1>1, PopKeeps
  <1>4. \A k \in Conns : Owns(c, n, k) => k = j
    BY <1>2 DEF Owns
  <1>5. \A b \in Callers, d \in Depths, k \in Conns :
          Owns(b, d, k)' <=> Owns(b, d, k) /\ ~(b = c /\ d = n /\ k = j)
    BY <1>1, <1>2, <1>3, <1>4 DEF Owns
  <1>6. Ownership'
    <2>1. open' \in [Callers -> SUBSET Conns] /\ taken' = taken \ {j}
      BY <1>1 DEF PoolInv, Ownership, GiveBack
    <2> HIDE DEF n, j
    <2> QED
      BY <1>2, <1>5, <2>1, GivesBack DEF PoolInv
  <1>7. Server'
    BY <1>1 DEF GiveBack, Server, PoolInv
  <1>8. Bounded'
    <2>1. n \in Nat
      BY <1>2 DEF Depths
    <2>2. \A b \in Callers : Cardinality(open[b]) \in Nat /\ IsFiniteSet(open[b])
      BY FS_CardinalityType DEF Bounded, PoolInv
    <2>3. n - 1 + Cardinality(open[c]) <= MaxHeld
      BY <2>1, <2>2, BoundAssumption DEF Bounded, PoolInv
    <2> QED
      BY <1>1, <1>3, <2>2, <2>3 DEF Bounded, PoolInv
  <1> QED
    BY <1>3, <1>6, <1>7, <1>8 DEF PoolInv

(* The call returns and its result keeps the connection. *)
LEMMA ResultStep ==
  ASSUME PoolInv, NEW c \in Callers, At(c, "run"), Pop(c), Server',
         open' = [open EXCEPT ![c] = @ \cup {Conn(c)}], taken' = taken
  PROVE  PoolInv'
  <1> DEFINE n == Len(stack[c])
             j == Top(c).conn
  <1>1. stack[c] # <<>> /\ Top(c).at = "run"
    BY DEF At
  <1>2. n \in Depths \ {0} /\ j \in Conns /\ Owns(c, n, j) /\ Top(c) = stack[c][n]
    BY <1>1, TopFacts
  <1>3. /\ Stacks' /\ Len(stack'[c]) = n - 1
        /\ \A b \in Callers \ {c} : stack'[b] = stack[b]
        /\ \A b \in Callers, d \in Depths \ {0}, k \in Conns :
             Owns(b, d, k)' <=> Owns(b, d, k) /\ ~(b = c /\ d = n)
    BY <1>1, PopKeeps
  <1>4. \A k \in Conns : Owns(c, n, k) => k = j
    BY <1>2 DEF Owns
  <1>5. Ownership'
    <2>1. \A b \in Callers, d \in Depths \ {0}, k \in Conns :
            Owns(b, d, k)' <=> Owns(b, d, k) /\ ~(b = c /\ d = n /\ k = j)
      BY <1>3, <1>4
    <2>2. Ownership /\ taken' = taken
      BY DEF PoolInv
    <2>3. /\ open' \in [Callers -> SUBSET Conns] /\ open'[c] = open[c] \cup {j}
          /\ \A b \in Callers \ {c} : open'[b] = open[b]
      BY <1>2, <2>2 DEF Conn, Ownership
    <2> HIDE DEF n, j
    <2> QED
      BY <1>2, <2>1, <2>2, <2>3, ResultTakesOver
  <1>6. Bounded'
    <2>1. n \in Nat
      BY <1>2 DEF Depths
    <2>2. IsFiniteSet(open[c]) /\ n + Cardinality(open[c]) <= MaxHeld
      BY DEF PoolInv, Bounded
    <2>3. /\ IsFiniteSet(open[c] \cup {j})
          /\ Cardinality(open[c]) \in Nat
          /\ Cardinality(open[c] \cup {j}) \in {Cardinality(open[c]), Cardinality(open[c]) + 1}
      <3> HIDE DEF j, n
      <3>1. /\ IsFiniteSet(open[c] \cup {j})
            /\ Cardinality(open[c] \cup {j}) =
                 IF j \in open[c] THEN Cardinality(open[c]) ELSE Cardinality(open[c]) + 1
        BY <2>2, FS_AddElement
      <3>2. Cardinality(open[c]) \in Nat
        BY <2>2, FS_CardinalityType
      <3> QED
        BY <3>1, <3>2
    <2>4. open'[c] = open[c] \cup {j} /\ \A b \in Callers \ {c} : open'[b] = open[b]
      BY DEF Conn, PoolInv, Ownership
    <2>5. n - 1 + Cardinality(open[c] \cup {j}) <= MaxHeld
      BY <2>1, <2>2, <2>3, BoundAssumption
    <2> HIDE DEF j, n
    <2> QED
      BY <1>3, <2>3, <2>4, <2>5 DEF Bounded, PoolInv
  <1> QED
    BY <1>3, <1>5, <1>6 DEF PoolInv

(* rowsWithRelease.Close, rowWithRelease.Scan. *)
LEMMA CloseStep ==
  ASSUME PoolInv, NEW c \in Callers, CloseResult(c)
  PROVE  PoolInv'
  <1>1. PICK j \in open[c] : GiveBack(j) /\ open' = [open EXCEPT ![c] = @ \ {j}]
    BY DEF CloseResult
  <1>2. stack' = stack /\ j \in Conns /\ Owns(c, 0, j) /\ 0 \in Depths
    BY BoundAssumption DEF CloseResult, PoolInv, Ownership, Owns, Depths
  <1>3. /\ open' \in [Callers -> SUBSET Conns] /\ open'[c] = open[c] \ {j}
        /\ \A b \in Callers \ {c} : open'[b] = open[b]
    BY <1>1 DEF PoolInv, Ownership
  <1>4. \A b \in Callers, d \in Depths, k \in Conns :
          Owns(b, d, k)' <=> Owns(b, d, k) /\ ~(b = c /\ d = 0 /\ k = j)
    BY <1>2, <1>3 DEF Owns
  <1>5. Ownership'
    <2>1. Ownership /\ taken' = taken \ {j}
      BY <1>1 DEF PoolInv, GiveBack
    <2> QED
      BY <1>2, <1>3, <1>4, <2>1, GivesBack
  <1>6. Stacks' /\ Server'
    <2>1. Stacks'
      BY <1>2 DEF PoolInv, Stacks, StackInv, CallInv
    <2>2. Server'
      BY <1>1 DEF PoolInv, Server, GiveBack
    <2> QED
      BY <2>1, <2>2
  <1>7. Bounded'
    <2>1. \A b \in Callers : Len(stack[b]) \in Nat
      BY Heights DEF PoolInv
    <2>2. /\ IsFiniteSet(open[c] \ {j}) /\ Cardinality(open[c]) \in Nat
          /\ Cardinality(open[c] \ {j}) = Cardinality(open[c]) - 1
      BY <1>1, FS_RemoveElement, FS_CardinalityType DEF PoolInv, Bounded
    <2>3. Len(stack[c]) + Cardinality(open[c] \ {j}) <= MaxHeld
      BY <2>1, <2>2, BoundAssumption DEF PoolInv, Bounded
    <2> QED
      BY <1>2, <1>3, <2>2, <2>3 DEF Bounded, PoolInv
  <1> QED
    BY <1>5, <1>6, <1>7 DEF PoolInv

LEMMA StartStep ==
  ASSUME PoolInv, NEW c \in Callers, NEW o \in Ops, Start(c, o)
  PROVE  PoolInv'
  <1> DEFINE n == Len(stack[c]) + 1
             call == [op |-> o, at |-> "acquire", conn |-> NoConn, wrote |-> 0, durable |-> 0,
                      answer |-> "none"]
  <1>1. call \in Calls /\ CallInv(call) /\ call.conn \notin Conns
    BY ConnAssumption, ChoiceAssumption, BoundAssumption DEF Calls, CallInv
  <1>2. Becomes(c, n, call)
    BY <1>1, PushEffect DEF Start, PoolInv
  <1>3. Len(stack[c]) \in Nat /\ DOMAIN stack[c] = 1..Len(stack[c])
    BY Heights DEF PoolInv
  <1>4. \A d \in 1..(n - 1) : stack[c][d].at = "fn"
    <2>1. CASE stack[c] = <<>>
      BY <1>3, <2>1
    <2>2. CASE Top(c).at = "fn" /\ stack[c] # <<>>
      BY <1>3, <2>2, TopFacts DEF PoolInv, Stacks, StackInv
    <2> QED
      BY <2>1, <2>2 DEF Start, InControl, At
  <1>5. Stacks'
    <2> HIDE DEF n, call
    <2> QED
      BY <1>1, <1>2, <1>4, BecomesKeepsStacks DEF PoolInv
  <1>6. \A b \in Callers, d \in Depths \ {0}, k \in Conns : Owns(b, d, k)' <=> Owns(b, d, k)
    <2> TAKE b \in Callers, d \in Depths \ {0}, k \in Conns
    <2> HIDE DEF call
    <2>1. Owns(b, d, k)' <=> IF b = c /\ d = n /\ n >= Len(stack[c]) THEN call.conn = k
                             ELSE Owns(b, d, k) /\ (b = c => d <= n)
      BY <1>2, <1>3, NewOwners DEF PoolInv
    <2>2. d \in Nat /\ d # 0 /\ call.conn # k
      BY <1>1 DEF Depths
    <2> QED
      BY <1>3, <2>1, <2>2 DEF Owns
  <1>7. Ownership' /\ Server'
    BY <1>6, KeepsOwnership DEF Start, SameOwners, PoolInv, Server
  <1>8. Bounded'
    <2>1. Cardinality(open[c]) \in Nat /\ Len(stack[c]) + Cardinality(open[c]) < MaxHeld
      BY FS_CardinalityType DEF PoolInv, Bounded, Start, Held
    <2>2. n + Cardinality(open[c]) <= MaxHeld
      BY <1>3, <2>1, BoundAssumption
    <2> HIDE DEF n
    <2> QED
      BY <1>2, <2>2 DEF Bounded, PoolInv, Start, Becomes
  <1> QED
    BY <1>5, <1>7, <1>8 DEF PoolInv

LEMMA AcquireStep ==
  ASSUME PoolInv, NEW c \in Callers, Acquire(c)
  PROVE  PoolInv'
  <1> DEFINE n == Len(stack[c])
             call(k) == [Top(c) EXCEPT !.conn = k, !.at = IF Top(c).op = "tx" THEN "begin" ELSE "run"]
  <1>1. stack[c] # <<>> /\ Top(c).at = "acquire" /\ UNCHANGED <<open, tx, broken>>
    BY DEF Acquire, At
  <1>2. PICK j \in Conns \ taken : taken' = taken \cup {j} /\ Step(c, call(j))
    BY DEF Acquire
  <1>3. /\ n \in Depths \ {0} /\ Top(c) = stack[c][n] /\ Top(c) \in Calls /\ CallInv(Top(c))
        /\ Top(c).conn = NoConn
    BY <1>1, TopFacts DEF CallInv
  <1>4. call(j) \in Calls /\ CallInv(call(j)) /\ call(j).conn = j
    BY <1>1, <1>3, ConnAssumption DEF Calls, CallInv, Operations
  <1>5. Becomes(c, n, call(j))
    BY <1>1, <1>2, <1>4, StepEffect DEF PoolInv
  <1>6. Stacks'
    <2> HIDE DEF call
    <2> QED
      BY <1>4, <1>5, BecomesKeepsStacks DEF PoolInv, Stacks, StackInv
  <1>7. \A b \in Callers, d \in Depths \ {0}, k \in Conns :
          Owns(b, d, k)' <=> IF b = c /\ d = n THEN k = j ELSE Owns(b, d, k)
    <2> TAKE b \in Callers, d \in Depths \ {0}, k \in Conns
    <2> HIDE DEF call
    <2>1. n \in Nat /\ d \in Nat /\ d # 0
      BY <1>3 DEF Depths
    <2>2. Owns(b, d, k)' <=> IF b = c /\ d = n /\ n >= Len(stack[c]) THEN call(j).conn = k
                             ELSE Owns(b, d, k) /\ (b = c => d <= n)
      BY <1>5, <2>1, NewOwners DEF PoolInv
    <2> QED
      BY <1>4, <2>1, <2>2 DEF Owns
  <1>8. \A k \in Conns : ~Owns(c, n, k)
    BY <1>3, ConnAssumption DEF Owns
  <1>9. Ownership'
    <2>1. Ownership /\ open' = open /\ taken' = taken \cup {j}
      BY <1>1, <1>2 DEF PoolInv
    <2> HIDE DEF n
    <2> QED
      BY <1>3, <1>7, <1>8, <2>1, TakesOwnership
  <1>10. Server' /\ Bounded'
    BY <1>1, <1>5 DEF Server, Bounded, PoolInv, Becomes
  <1> QED
    BY <1>6, <1>9, <1>10 DEF PoolInv

LEMMA AcquireFailsStep ==
  ASSUME PoolInv, NEW c \in Callers, AcquireFails(c)
  PROVE  PoolInv'
  <1> DEFINE n == Len(stack[c])
  <1>1. stack[c] # <<>> /\ Top(c).at = "acquire" /\ Pop(c) /\ UNCHANGED <<open, taken, tx, broken>>
    BY DEF AcquireFails, At
  <1>2. n \in Depths \ {0} /\ Top(c) = stack[c][n] /\ Top(c).conn = NoConn
    BY <1>1, TopFacts DEF CallInv
  <1>3. /\ Stacks' /\ Len(stack'[c]) = n - 1
        /\ \A b \in Callers \ {c} : stack'[b] = stack[b]
        /\ \A b \in Callers, d \in Depths \ {0}, k \in Conns :
             Owns(b, d, k)' <=> Owns(b, d, k) /\ ~(b = c /\ d = n)
    BY <1>1, PopKeeps
  <1>4. \A k \in Conns : ~Owns(c, n, k)
    BY <1>2, ConnAssumption DEF Owns
  <1>5. Ownership' /\ Server'
    BY <1>1, <1>3, <1>4, KeepsOwnership DEF SameOwners, PoolInv, Server
  <1>6. Bounded'
    <2>1. n \in Nat
      BY <1>2 DEF Depths
    <2>2. Cardinality(open[c]) \in Nat
      BY FS_CardinalityType DEF Bounded, PoolInv
    <2>3. n - 1 + Cardinality(open[c]) <= MaxHeld
      BY <2>1, <2>2, BoundAssumption DEF Bounded, PoolInv
    <2> QED
      BY <1>1, <1>3, <2>3 DEF Bounded, PoolInv
  <1> QED
    BY <1>3, <1>5, <1>6 DEF PoolInv

LEMMA StatementTypes ==
  ASSUME Server, NEW k \in Conns, StatementFails(k)
  PROVE  Server'
  BY DEF StatementFails, Server

LEMMA SameStacks ==
  ASSUME PoolInv, UNCHANGED <<stack, open, taken>>, Server'
  PROVE  PoolInv'
  <1>1. Stacks'
    BY DEF PoolInv, Stacks, StackInv, CallInv
  <1>2. SameOwners
    BY DEF SameOwners, Owns
  <1>3. Ownership'
    BY <1>2, KeepsOwnership DEF PoolInv
  <1>4. Bounded'
    BY DEF PoolInv, Bounded
  <1> QED
    BY <1>1, <1>3, <1>4 DEF PoolInv

LEMMA WriteStep ==
  ASSUME PoolInv, NEW c \in Callers, NEW d \in DOMAIN stack[c], Write(c, d)
  PROVE  PoolInv'
  <1> DEFINE s == stack[c]
             call == [s[d] EXCEPT !.wrote = @ + 1]
  <1>1. s \in Seq(Calls) /\ d \in 1..Len(s) /\ Len(s) \in Nat /\ s[d] \in Calls /\ CallInv(s[d])
    BY Heights DEF PoolInv, Stacks, StackInv
  <1>2. s[d].at = "fn"
    <2>1. s # <<>>
      BY <1>1, EmptySeq
    <2>2. s[Len(s)].at = "fn"
      BY <2>1, TopFacts DEF Write, InControl, At
    <2> QED
      BY <1>1, <2>2 DEF PoolInv, Stacks, StackInv
  <1>3. CASE /\ s[d].wrote < MaxWrites
             /\ stack' = [stack EXCEPT ![c][d].wrote = @ + 1]
             /\ UNCHANGED <<open, taken, tx, broken>>
    <2>1. call \in Calls /\ CallInv(call) /\ call.conn = s[d].conn /\ call.at = "fn"
      <3>1. s[d].wrote + 1 \in 0..MaxWrites
        BY <1>1, <1>3, BoundAssumption DEF Calls
      <3>2. s[d].op = "tx" /\ s[d].conn # NoConn /\ s[d].answer = "none" /\ s[d].durable = 0
        BY <1>1, <1>2 DEF CallInv
      <3>3. call \in Calls /\ call.wrote = s[d].wrote + 1 /\ call.op = s[d].op
            /\ call.at = s[d].at /\ call.conn = s[d].conn
            /\ call.answer = s[d].answer /\ call.durable = s[d].durable
        BY <1>1, <3>1 DEF Calls
      <3> HIDE DEF call, s
      <3> QED
        BY <1>2, <3>2, <3>3 DEF CallInv
    <2> DEFINE t == [s EXCEPT ![d] = call]
    <2>2. stack \in [Callers -> Seq(Calls)] /\ stack' = [stack EXCEPT ![c] = t]
      BY <1>3 DEF PoolInv, Stacks
    <2> HIDE DEF call
    <2>3. /\ t \in Seq(Calls) /\ Len(t) = Len(s)
          /\ \A i \in 1..Len(s) : t[i] = IF i = d THEN call ELSE s[i]
      BY <1>1, <2>1, ExceptSeq
    <2> HIDE DEF t
    <2>4. /\ stack' \in [Callers -> Seq(Calls)] /\ stack'[c] = t
          /\ \A b \in Callers \ {c} : stack'[b] = stack[b]
      BY <2>2, <2>3
    <2>5. Stacks'
      <3>1. ASSUME NEW b \in Callers
            PROVE  /\ \A i \in 1..Len(stack'[b]) : CallInv(stack'[b][i])
                   /\ \A i \in 1..(Len(stack'[b]) - 1) : stack'[b][i].at = "fn"
        <4>1. CASE b = c
          <5>1. \A i \in 1..Len(s) : CallInv(s[i])
            BY DEF PoolInv, Stacks, StackInv
          <5>2. \A i \in 1..(Len(s) - 1) : s[i].at = "fn"
            BY DEF PoolInv, Stacks, StackInv
          <5> HIDE DEF s
          <5> QED
            BY <1>1, <2>1, <2>3, <2>4, <4>1, <5>1, <5>2
        <4>2. CASE b # c
          BY <2>4, <4>2 DEF PoolInv, Stacks, StackInv
        <4> QED
          BY <4>1, <4>2
      <3> QED
        BY <2>4, <3>1 DEF Stacks, StackInv, CallInv
    <2>6. SameOwners
      <3>1. ASSUME NEW b \in Callers, NEW e \in Depths \ {0}, NEW k \in Conns
            PROVE  Owns(b, e, k)' <=> Owns(b, e, k)
        <4>1. CASE b = c
          <5>1. e \in Nat /\ e # 0
            BY DEF Depths
          <5>2. CASE e = d
            BY <1>1, <2>1, <2>3, <2>4, <4>1, <5>1, <5>2 DEF Owns
          <5>3. CASE e # d /\ e <= Len(s)
            BY <1>1, <2>3, <2>4, <4>1, <5>1, <5>3 DEF Owns
          <5>4. CASE e > Len(s)
            BY <1>1, <2>3, <2>4, <4>1, <5>1, <5>4 DEF Owns
          <5> QED
            BY <1>1, <5>1, <5>2, <5>3, <5>4
        <4>2. CASE b # c
          BY <2>4, <4>2 DEF Owns
        <4> QED
          BY <4>1, <4>2
      <3> QED
        BY <1>3, <3>1 DEF SameOwners
    <2>7. Ownership' /\ Server'
      BY <1>3, <2>6, KeepsOwnership DEF PoolInv, Server
    <2>8. Bounded'
      BY <1>3, <2>3, <2>4 DEF PoolInv, Bounded
    <2> QED
      BY <2>5, <2>7, <2>8 DEF PoolInv
  <1>4. CASE StatementFails(s[d].conn) /\ UNCHANGED <<stack, open, taken>>
    <2>1. s[d].conn \in Conns
      BY <1>1, <1>2 DEF CallInv, Calls
    <2> QED
      BY <1>4, <2>1, StatementTypes, SameStacks DEF PoolInv
  <1> QED
    BY <1>3, <1>4 DEF Write

(* The steps of a call between its Acquire and its Release. *)
LEMMA MachineryStep ==
  ASSUME PoolInv, NEW c \in Callers, Machinery(c) \/ FnEnds(c)
  PROVE  PoolInv'
  <1>1. ASSUME NEW w \in {"begin", "fn", "commit", "rollback", "run"}, At(c, w)
        PROVE  /\ stack[c] # <<>> /\ Top(c) \in Calls /\ CallInv(Top(c)) /\ Top(c).at = w
               /\ Conn(c) \in Conns /\ Top(c).conn # NoConn
               /\ Top(c).durable = 0 /\ Top(c).answer = "none"
    BY <1>1, TopFacts, ConnAssumption DEF At, Conn, CallInv
  <1>2. CASE Begin(c)
    <2> DEFINE call == [Top(c) EXCEPT !.at = "fn"]
    <2>1. call \in Calls /\ CallInv(call) /\ call.conn = Top(c).conn
      BY <1>1, <1>2 DEF Calls, CallInv, Begin
    <2>2. Server'
      BY <1>1, <1>2 DEF Begin, Server, PoolInv
    <2> HIDE DEF call
    <2> QED
      BY <1>1, <1>2, <2>1, <2>2, CallStep DEF Begin, Goto, call
  <1>3. CASE FnReturns(c) \/ FnFails(c)
    <2>1. \A w \in {"commit", "rollback"} :
            LET call == [Top(c) EXCEPT !.at = w]
            IN call \in Calls /\ CallInv(call) /\ call.conn = Top(c).conn
      BY <1>1, <1>3 DEF Calls, CallInv, FnReturns, FnFails
    <2>2. stack[c] # <<>> /\ Server' /\ UNCHANGED <<open, taken>>
      BY <1>1, <1>3 DEF FnReturns, FnFails, Server, PoolInv
    <2> QED
      BY <1>3, <2>1, <2>2, CallStep DEF FnReturns, FnFails, Goto, Undo
  <1>4. ASSUME NEW w \in {"begin", "rollback", "run"}, At(c, w), Answer(c, "failed"), Server',
               UNCHANGED <<open, taken>>
        PROVE  PoolInv'
    <2> DEFINE call == [Top(c) EXCEPT !.at = "release", !.answer = "failed"]
    <2>1. call \in Calls /\ CallInv(call) /\ call.conn = Top(c).conn
      BY <1>1, <1>4 DEF Calls, CallInv
    <2> HIDE DEF call
    <2> QED
      BY <1>1, <1>4, <2>1, CallStep DEF Answer, call
  <1>5. CASE BeginFails(c)
    <2>1. Server'
      BY <1>1, <1>5, StatementTypes DEF BeginFails, PoolInv
    <2> QED
      BY <1>4, <1>5, <2>1 DEF BeginFails, ReturnEarly
  <1>6. CASE Rollback(c)
    <2>1. Server'
      BY <1>1, <1>6 DEF Rollback, Server, PoolInv
    <2> QED
      BY <1>4, <1>6, <2>1 DEF Rollback
  <1>7. CASE Commit(c)
    <2> DEFINE call == [Top(c) EXCEPT !.at = "release", !.answer = "ok", !.durable = Top(c).wrote]
    <2>1. call \in Calls /\ CallInv(call) /\ call.conn = Top(c).conn
      BY <1>1, <1>7 DEF Calls, CallInv, Commit
    <2>2. Server'
      BY <1>1, <1>7 DEF Commit, Server, PoolInv
    <2> HIDE DEF call
    <2> QED
      BY <1>1, <1>7, <2>1, <2>2, CallStep DEF Commit, Committed, call
  <1>8. CASE CommitFails(c)
    <2> DEFINE call(n) == [Top(c) EXCEPT !.at = "release", !.answer = CommitError, !.durable = n]
    <2>1. \A n \in {0, Top(c).wrote} :
            call(n) \in Calls /\ CallInv(call(n)) /\ call(n).conn = Top(c).conn
      BY <1>1, <1>8, BoundAssumption DEF Calls, CallInv, CommitFails, CommitError
    <2>2. Server' /\ UNCHANGED <<open, taken>> /\ stack[c] # <<>>
      BY <1>1, <1>8 DEF CommitFails, Server, PoolInv
    <2>3. \E n \in {0, Top(c).wrote} : Step(c, call(n))
      BY <1>8 DEF CommitFails
    <2> HIDE DEF call
    <2> QED
      BY <2>1, <2>2, <2>3, CallStep
  <1>9. CASE Run(c)
    <2>1. Server' /\ taken' = taken
      BY <1>9 DEF Run, Server, PoolInv
    <2>2. CASE Answer(c, "ok") /\ Top(c).op = "exec" /\ UNCHANGED open
      <3> DEFINE call == [Top(c) EXCEPT !.at = "release", !.answer = "ok"]
      <3>1. call \in Calls /\ CallInv(call) /\ call.conn = Top(c).conn
        BY <1>1, <1>9, <2>2 DEF Calls, CallInv, Run
      <3> HIDE DEF call
      <3> QED
        BY <1>1, <1>9, <2>1, <2>2, <3>1, CallStep DEF Answer, Run, call
    <2>3. CASE Pop(c) /\ open' = [open EXCEPT ![c] = @ \cup {Conn(c)}]
      BY <1>9, <2>1, <2>3, ResultStep DEF Run
    <2> QED
      BY <1>9, <2>2, <2>3 DEF Run
  <1>10. CASE RunFails(c)
    <2>1. Server'
      BY <1>1, <1>10, StatementTypes DEF RunFails, PoolInv
    <2>2. CASE ReturnEarly(c) /\ UNCHANGED open
      BY <1>4, <1>10, <2>1, <2>2 DEF RunFails, ReturnEarly
    <2>3. CASE Pop(c) /\ open' = [open EXCEPT ![c] = @ \cup {Conn(c)}]
      BY <1>10, <2>1, <2>3, ResultStep DEF RunFails
    <2> QED
      BY <1>10, <2>2, <2>3 DEF RunFails
  <1>11. CASE Release(c)
    BY <1>11, ReleaseStep
  <1> QED
    BY <1>2, <1>3, <1>5, <1>6, <1>7, <1>8, <1>9, <1>10, <1>11 DEF Machinery, FnEnds

-----------------------------------------------------------------------------
(* The invariant. *)

LEMMA PoolInvInit == Init => PoolInv
  <1> SUFFICES ASSUME Init PROVE PoolInv
    OBVIOUS
  <1>1. \A c \in Callers : stack[c] = <<>> /\ Len(stack[c]) = 0 /\ open[c] = {}
    BY DEF Init
  <1>2. Stacks
    BY <1>1, EmptySeq DEF Init, Stacks, StackInv
  <1>3. \A c \in Callers, d \in Depths, k \in Conns : ~Owns(c, d, k)
    BY <1>1, BoundAssumption DEF Owns, Depths
  <1>4. Ownership
    BY <1>3 DEF Init, Ownership
  <1>5. Bounded
    BY <1>1, FS_EmptySet, BoundAssumption DEF Bounded
  <1>6. Server
    BY DEF Init, Server
  <1> QED
    BY <1>2, <1>4, <1>5, <1>6 DEF PoolInv

LEMMA PoolInvNext == PoolInv /\ [Next]_vars => PoolInv'
  <1> SUFFICES ASSUME PoolInv, [Next]_vars PROVE PoolInv'
    OBVIOUS
  <1>1. CASE UNCHANGED vars
    <2>1. UNCHANGED <<stack, open, taken>> /\ Server'
      BY <1>1 DEF vars, Server, PoolInv
    <2> QED
      BY <2>1, SameStacks
  <1>2. ASSUME NEW c \in Callers, NEW o \in Ops, Start(c, o) PROVE PoolInv'
    BY <1>2, StartStep
  <1>3. ASSUME NEW c \in Callers, Acquire(c) PROVE PoolInv'
    BY <1>3, AcquireStep
  <1>4. ASSUME NEW c \in Callers, AcquireFails(c) PROVE PoolInv'
    BY <1>4, AcquireFailsStep
  <1>5. ASSUME NEW c \in Callers, NEW d \in DOMAIN stack[c], Write(c, d) PROVE PoolInv'
    BY <1>5, WriteStep
  <1>6. ASSUME NEW c \in Callers, CloseResult(c) PROVE PoolInv'
    BY <1>6, CloseStep
  <1>7. ASSUME NEW c \in Callers, Machinery(c) \/ FnEnds(c) PROVE PoolInv'
    BY <1>7, MachineryStep
  <1> QED
    BY <1>1, <1>2, <1>3, <1>4, <1>5, <1>6, <1>7 DEF Next

THEOREM PoolInvariant == Spec => []PoolInv
  BY PoolInvInit, PoolInvNext, PTL DEF Spec

-----------------------------------------------------------------------------
(* txpostgres: a call has a connection exactly while it is past Acquire,   *)
(* and an answer exactly when its deferred Release is due; everything the  *)
(* pool and the server keep has its type.                                  *)
THEOREM TypeCorrect == Spec => []TypeOK
  <1>1. PoolInv => TypeOK
    <2> SUFFICES ASSUME PoolInv PROVE TypeOK
      OBVIOUS
    <2>1. \A c \in Callers : \A d \in DOMAIN stack[c] : CallInv(stack[c][d])
      BY Heights DEF PoolInv, Stacks, StackInv
    <2> QED
      BY <2>1 DEF PoolInv, Stacks, Server, Ownership, TypeOK, CallInv
  <1> QED
    BY PoolInvariant, <1>1, PTL

(* WithinTx: however units are nested, statements fail and connections     *)
(* break, nil means that everything is durable, an error from before       *)
(* Commit that nothing is, an error of Commit all or nothing.              *)
THEOREM AnswersAreTrue == Spec => []AnswerIsTrue
  <1>1. PoolInv => AnswerIsTrue
    <2> SUFFICES ASSUME PoolInv PROVE AnswerIsTrue
      OBVIOUS
    <2>1. \A c \in Callers : \A d \in DOMAIN stack[c] : CallInv(stack[c][d])
      BY Heights DEF PoolInv, Stacks, StackInv
    <2> QED
      BY <2>1 DEF AnswerIsTrue, CallInv
  <1> QED
    BY PoolInvariant, <1>1, PTL

LEMMA OwnersOwn ==
  ASSUME PoolInv, NEW k \in Conns
  PROVE  /\ Owners(k) \subseteq Callers \X Depths
         /\ \A c \in Callers, d \in Depths : <<c, d>> \in Owners(k) <=> Owns(c, d, k)
  <1>1. Depths = (1..MaxHeld) \cup {0} /\ 0 \notin 1..MaxHeld
    BY BoundAssumption DEF Depths
  <1>2. Owners(k) \subseteq Callers \X Depths
    BY <1>1 DEF Owners
  <1>3. ASSUME NEW c \in Callers, NEW d \in Depths
        PROVE  <<c, d>> \in Owners(k) <=> Owns(c, d, k)
    <2>1. CASE d = 0
      BY <1>1, <2>1 DEF Owners, Owns
    <2>2. CASE d # 0
      <3>1. d \in 1..MaxHeld /\ (d \in DOMAIN stack[c] <=> d <= Len(stack[c]))
        BY <1>1, <2>2, Heights DEF PoolInv
      <3> QED
        BY <1>1, <2>2, <3>1 DEF Owners, Owns
    <2> QED
      BY <2>1, <2>2
  <1> QED
    BY <1>2, <1>3

(* txpostgres.go:54, "no leaks": every connection out of the pool is held  *)
(* by exactly one call in progress or open result, whatever fails, for any *)
(* number of callers, units in units and results left open.                *)
THEOREM OwnersAreUnique == Spec => []OneOwner
  <1>1. PoolInv => OneOwner
    <2> SUFFICES ASSUME PoolInv, NEW k \in Conns
                 PROVE  Cardinality(Owners(k)) = IF k \in taken THEN 1 ELSE 0
      BY DEF OneOwner
    <2>1. CASE k \notin taken
      <3>1. Owners(k) = {}
        <4>1. \A c \in Callers, d \in Depths : <<c, d>> \notin Owners(k)
          BY <2>1, OwnersOwn DEF PoolInv, Ownership
        <4> QED
          BY <4>1, OwnersOwn
      <3> QED
        BY <2>1, <3>1, FS_EmptySet
    <2>2. CASE k \in taken
      <3>1. PICK c \in Callers, d \in Depths : Owns(c, d, k)
        BY <2>2 DEF PoolInv, Ownership
      <3>2. \A b \in Callers, e \in Depths : <<b, e>> \in Owners(k) <=> b = c /\ e = d
        BY <3>1, OwnersOwn DEF PoolInv, Ownership
      <3>3. Owners(k) = {<<c, d>>}
        BY <3>1, <3>2, OwnersOwn
      <3> QED
        BY <2>2, <3>3, FS_Singleton
    <2> QED
      BY <2>1, <2>2
  <1> QED
    BY PoolInvariant, <1>1, PTL

(* The slots of a waiting caller: each of the calls below the one that     *)
(* waits has one connection, and each open result one more, which makes    *)
(* less than MaxHeld.                                                      *)
LEMMA SlotsOfWaiting ==
  ASSUME PoolInv, NEW c \in Callers, Waiting(c)
  PROVE  /\ MaxHeld \in Nat \ {0}
         /\ \E f \in [1..(MaxHeld - 1) -> Conns \cup {NoConn}] :
              \A d \in Depths, k \in Conns : Owns(c, d, k) => \E i \in 1..(MaxHeld - 1) : f[i] = k
  <1> DEFINE n == Len(stack[c])
             m == Cardinality(open[c])
  <1>1. n \in Nat \ {0} /\ stack[c][n].conn = NoConn
    BY TopFacts DEF Waiting, At, CallInv, Depths
  <1>2. m \in Nat /\ n + m <= MaxHeld /\ MaxHeld \in Nat
    BY FS_CardinalityType, BoundAssumption DEF PoolInv, Bounded
  <1>3. PICK g \in Surjection(1..m, open[c]) : TRUE
    BY FS_CardinalityType DEF PoolInv, Bounded, ExistsBijection, Bijection
  <1>4. /\ g \in [1..m -> open[c]] /\ open[c] \subseteq Conns
        /\ \A k \in open[c] : \E i \in 1..m : g[i] = k
    BY <1>3 DEF Surjection, PoolInv, Ownership
  <1> DEFINE f == [i \in 1..(MaxHeld - 1) |->
                     IF i < n THEN stack[c][i].conn
                     ELSE IF i - (n - 1) \in 1..m THEN g[i - (n - 1)] ELSE NoConn]
  <1>5. f \in [1..(MaxHeld - 1) -> Conns \cup {NoConn}]
    <2>1. \A i \in 1..(MaxHeld - 1) : i < n => stack[c][i].conn \in Conns \cup {NoConn}
      BY <1>1, <1>2, Heights DEF PoolInv, Calls
    <2> QED
      BY <1>4, <2>1
  <1>6. ASSUME NEW d \in Depths, NEW k \in Conns, Owns(c, d, k)
        PROVE  \E i \in 1..(MaxHeld - 1) : f[i] = k
    <2>1. CASE d = 0
      <3>1. PICK i \in 1..m : g[i] = k
        BY <1>4, <1>6, <2>1 DEF Owns
      <3>2. i + (n - 1) \in 1..(MaxHeld - 1) /\ ~(i + (n - 1) < n) /\ (i + (n - 1)) - (n - 1) = i
        BY <1>1, <1>2
      <3>3. f[i + (n - 1)] = k
        BY <3>1, <3>2
      <3> QED
        BY <3>2, <3>3
    <2>2. CASE d # 0
      <3>1. d \in Nat \ {0} /\ d <= n /\ stack[c][d].conn = k
        BY <1>6, <2>2 DEF Owns, Depths
      <3>2. d # n
        BY <1>1, <3>1, ConnAssumption
      <3>3. d \in 1..(MaxHeld - 1) /\ d < n
        BY <1>1, <1>2, <3>1, <3>2
      <3> QED
        BY <3>1, <3>3
    <2> QED
      BY <2>1, <2>2
  <1>7. MaxHeld \in Nat \ {0}
    BY <1>1, <1>2
  <1> HIDE DEF f
  <1> QED
    BY <1>5, <1>6, <1>7

(* pgxpool.go, MaxConns: callers that all wait at once have not taken the  *)
(* whole pool between them if it has more than MaxHeld - 1 connections for *)
(* each, so one of them can go on; for any pool, callers and nesting.      *)
THEOREM WaitingCallersCanGoOn == Spec => []NoGridlock
  <1>1. PoolInv => NoGridlock
    <2> SUFFICES ASSUME PoolInv, EnoughConns, Callers # {}, \A c \in Callers : Waiting(c),
                        taken = Conns
                 PROVE  FALSE
      BY DEF NoGridlock
    <2> DEFINE Slots == 1..(MaxHeld - 1)
               Covers(c, f) == \A d \in Depths, k \in Conns :
                                 Owns(c, d, k) => \E i \in Slots : f[i] = k
               pick == [c \in Callers |->
                          CHOOSE f \in [Slots -> Conns \cup {NoConn}] : Covers(c, f)]
    <2>1. MaxHeld \in Nat \ {0}
      BY SlotsOfWaiting
    <2>2. \A c \in Callers :
            pick[c] \in [Slots -> Conns \cup {NoConn}] /\ Covers(c, pick[c])
      BY SlotsOfWaiting
    <2> HIDE DEF pick, Covers
    <2>3. /\ IsFiniteSet(Callers \X Slots)
          /\ Cardinality(Callers \X Slots) = Cardinality(Callers) * (MaxHeld - 1)
          /\ Cardinality(Callers \X Slots) \in Nat
      <3>1. IsFiniteSet(Slots) /\ Cardinality(Slots) = MaxHeld - 1
        <4>1. /\ IsFiniteSet(1..(MaxHeld - 1))
              /\ Cardinality(1..(MaxHeld - 1)) =
                   IF 1 > MaxHeld - 1 THEN 0 ELSE (MaxHeld - 1) - 1 + 1
          BY <2>1, FS_Interval
        <4> QED
          BY <2>1, <4>1
      <3> HIDE DEF Slots
      <3>2. /\ IsFiniteSet(Callers \X Slots)
            /\ Cardinality(Callers \X Slots) = Cardinality(Callers) * Cardinality(Slots)
        BY <3>1, CallersAssumption, FS_Product
      <3> QED
        BY <3>1, <3>2, FS_CardinalityType
    <2>4. Conns # {}
      <3>1. Cardinality(Conns) > Cardinality(Callers \X Slots)
        BY <2>3 DEF EnoughConns
      <3>2. ASSUME Conns = {} PROVE Cardinality(Conns) = 0
        BY <3>2, FS_EmptySet
      <3> QED
        BY <2>3, <3>1, <3>2
    <2>5. PICK k0 \in Conns : TRUE
      BY <2>4
    <2> HIDE DEF Slots
    <2> DEFINE F == [p \in Callers \X Slots |->
                       IF pick[p[1]][p[2]] \in Conns THEN pick[p[1]][p[2]] ELSE k0]
    <2>6. F \in [Callers \X Slots -> Conns]
      BY <2>5
    <2>7. ASSUME NEW k \in Conns
          PROVE  \E p \in Callers \X Slots : F[p] = k
      <3>1. PICK c \in Callers, d \in Depths : Owns(c, d, k)
        BY DEF PoolInv, Ownership
      <3>2. PICK i \in Slots : pick[c][i] = k
        BY <2>2, <3>1 DEF Covers
      <3>3. <<c, i>> \in Callers \X Slots /\ F[<<c, i>>] = k
        BY <3>2
      <3> QED
        BY <3>3
    <2> HIDE DEF F
    <2>8. F \in Surjection(Callers \X Slots, Conns)
      BY <2>6, <2>7 DEF Surjection
    <2>9. IsFiniteSet(Conns) /\ Cardinality(Conns) <= Cardinality(Callers \X Slots)
      BY <2>3, <2>8, FS_Surjection
    <2>10. Cardinality(Conns) > Cardinality(Callers \X Slots)
      BY <2>3 DEF EnoughConns
    <2> QED
      BY <2>3, <2>9, <2>10, FS_CardinalityType
  <1> QED
    BY PoolInvariant, <1>1, PTL
=============================================================================
