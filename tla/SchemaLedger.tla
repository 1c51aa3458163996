---------------------------- MODULE SchemaLedger ----------------------------
(***************************************************************************)
(* What migrating a database promises, with no runner, lock or table in    *)
(* sight: the schema is a stack of versions.  Applying pushes the smallest *)
(* version a catalog offers that is not on the stack; reverting pops the   *)
(* top, and only the top.  A catalog is the set of versions one build of   *)
(* the program ships.                                                      *)
(***************************************************************************)
EXTENDS Naturals, Sequences, SequencesExt

CONSTANT Catalogs \* the sets of versions shipped by the builds in use

VARIABLE stack

Missing(catalog) == catalog \ ToSet(stack)

Init == stack = <<>>

Apply ==
  \E catalog \in Catalogs : \E v \in Missing(catalog) :
    /\ \A w \in Missing(catalog) : v <= w
    /\ stack' = Append(stack, v)

Revert ==
  /\ stack # <<>>
  /\ stack' = Front(stack)

Next == Apply \/ Revert

Spec == Init /\ [][Next]_stack
=============================================================================
