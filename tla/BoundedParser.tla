--------------------------- MODULE BoundedParser ---------------------------
(***************************************************************************)
(* What a parser run promises, whatever the program (section 5 of           *)
(* docs/reference/ir-semantics.md): it enters at most max_depth states, it  *)
(* consumes bits only forwards and never past the input, a lookahead        *)
(* consumes nothing, and it ends with one verdict that stays.               *)
(***************************************************************************)
EXTENDS Naturals

VARIABLES
  budget,      \* max_depth
  available,   \* the length of the input
  entered,     \* states entered
  consumed,    \* bits committed
  verdict      \* "none", "accept", "reject", "exhausted", or "err" for a malformed program

vars == <<budget, available, entered, consumed, verdict>>

Init ==
  /\ budget \in Nat
  /\ available \in Nat
  /\ entered = 0
  /\ consumed = 0
  /\ verdict = "none"

\* Enter one more state of the budget.
Enter ==
  /\ verdict = "none"
  /\ entered < budget
  /\ entered' = entered + 1
  /\ UNCHANGED <<budget, available, consumed, verdict>>

\* Commit bits of the input; only inside a state.
Consume ==
  /\ verdict = "none"
  /\ entered > 0
  /\ consumed' > consumed
  /\ consumed' <= available
  /\ UNCHANGED <<budget, available, entered, verdict>>

\* Accept, reject or give up inside a state, or find the budget spent.
Conclude ==
  /\ verdict = "none"
  /\ \/ entered > 0 /\ verdict' \in {"accept", "reject", "err"}
     \/ entered = budget /\ verdict' = "exhausted"
  /\ UNCHANGED <<budget, available, entered, consumed>>

Next == Enter \/ Consume \/ Conclude

Spec == Init /\ [][Next]_vars

\* Every run concludes.
EventuallyConcludes == <>(verdict # "none")
=============================================================================
