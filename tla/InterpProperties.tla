-------------------------- MODULE InterpProperties -------------------------
(***************************************************************************)
(* What the reference interpreter guarantees: the invariants that its       *)
(* comments and docs/reference/ir-semantics.md rely on, and the abstract    *)
(* parser it implements.                                                    *)
(***************************************************************************)
EXTENDS Interp, SequencesExt

FieldValue == [uint : Word] \cup [bits : Seq({0, 1})]
ParsedField == [bit_offset : Nat, bit_len : Nat, value : FieldValue]
ParsedHeader == [instance : Name, header_type : Name, start_bit : Nat, fields : Seq(ParsedField)]
Decisions == {"none", "direct", "arm", "default"}
TraceStep == [state : Name, decision : Decisions \X Nat]
Result == [outcome : {"running", "accept", "reject", "err"},
           reason : BuiltinReasons \cup Reasons \cup {""},
           bit_offset : Nat, consumed_bits : Nat]

\* The type of every variable of a run.
TypeOK ==
  /\ ir \in Programs
  /\ packet \in Packets
  /\ pc \in {"enter", "body", "field", "done"}
  /\ ix \in Nat \ {0}
  /\ fx \in Nat \ {0}
  /\ current \in Name
  /\ depth \in Nat
  /\ cursor_bits \in Nat
  /\ entry_cursor \in Nat
  /\ regions \in Seq(Nat)
  /\ DOMAIN env \subseteq Name \X Name
  /\ \A r \in DOMAIN env : env[r] \in Word
  /\ DOMAIN meta = DOMAIN ir.metadata
  /\ \A m \in DOMAIN meta : meta[m] \in Word
  /\ headers \in Seq(ParsedHeader)
  /\ trace \in Seq(TraceStep)
  /\ result \in Result

\* Regions nest and the cursor never leaves the innermost one, so remaining()
\* is an exact subtraction (interp/mod.rs: "c <= top is invariant"), and no
\* read goes past the input; a lookahead restores a cursor behind its reads.
CursorInsideRegions ==
  /\ cursor_bits <= avail_bits
  /\ entry_cursor <= cursor_bits
  /\ \A i, j \in DOMAIN regions : i <= j => regions[j] <= regions[i]
  /\ \A i \in DOMAIN regions : cursor_bits <= regions[i]

\* The extracts of the first n states entered, in order.
Extracted(n) == FlattenSeq([k \in 1..n |-> ir.states[trace[k].state].extracts])

HeaderEnd(h) ==
  IF h.fields = <<>> THEN h.start_bit ELSE Last(h.fields).bit_offset + Last(h.fields).bit_len

\* Every consumed bit belongs to exactly one field: the headers are a prefix of
\* the extracts of the states entered, complete for the states left behind;
\* each starts where the last one that was not a lookahead ended, its fields
\* are contiguous, and a verdict consumes up to the end of the last
\* (interp/mod.rs: the lookahead restore, consumed_on_reject, partial headers).
HeadersTileTheInput ==
  LET extracts == Extracted(depth)
      end[k \in 0..Len(headers)] ==
        IF k = 0 THEN 0
        ELSE IF extracts[k].lookahead THEN end[k - 1] ELSE HeaderEnd(headers[k])
  IN /\ Len(headers) <= Len(extracts)
     /\ depth > 0 => Len(headers) >= Len(Extracted(depth - 1))
     /\ \A k \in DOMAIN headers :
          /\ headers[k].instance = InstanceOf(extracts[k])
          /\ headers[k].start_bit = end[k - 1]
          /\ \A i \in DOMAIN headers[k].fields :
               headers[k].fields[i].bit_offset =
                 IF i = 1 THEN headers[k].start_bit
                 ELSE headers[k].fields[i - 1].bit_offset + headers[k].fields[i - 1].bit_len
     /\ pc = "done" => result.consumed_bits = end[Len(headers)]

DecidedTarget(step) ==
  LET t == ir.states[step.state].transition
  IN CASE step.decision[1] = "direct"  -> t.next
       [] step.decision[1] = "arm"     -> t.arms[step.decision[2]].next
       [] step.decision[1] = "default" -> t.default_target

\* The trace explains the run: it is a path of the state graph from the start
\* state, one decision per state left behind; its length is the budget spent,
\* and one more exactly when the last entry trips the bound; a verdict reached
\* by a decision is the verdict of the decided target (TraceStep, Decision).
TraceExplainsRun ==
  /\ \A k \in DOMAIN trace :
       IF k = 1 THEN trace[k].state = ir.start_state
       ELSE DecidedTarget(trace[k - 1]) = [kind |-> "state", name |-> trace[k].state]
  /\ Len(trace) = depth \/ (Len(trace) = depth + 1 /\ depth = ir.max_depth /\ pc = "done")
  /\ (pc = "done" /\ trace # <<>> /\ Last(trace).decision[1] # "none") =>
       LET t == DecidedTarget(Last(trace))
       IN t # NoTarget => result.outcome = t.kind /\ (t.kind = "reject" => result.reason = t.reason)

----------------------------------------------------------------------------
(* The interpreter implements the bounded parser.                          *)

\* Bits are committed when a field is read, except under a lookahead.
Committed ==
  IF pc = "done" THEN result.consumed_bits
  ELSE IF pc = "field" /\ Ex.lookahead THEN entry_cursor ELSE cursor_bits

Verdict ==
  CASE result.outcome = "running" -> "none"
    [] Len(trace) > depth         -> "exhausted"
    [] OTHER                      -> result.outcome

Bounded == INSTANCE BoundedParser WITH
  budget <- ir.max_depth, available <- avail_bits, entered <- depth,
  consumed <- Committed, verdict <- Verdict

\* A run implements the bounded parser: no step enters a state past the
\* budget, commits a bit under a lookahead or past the input, takes a commitment
\* back, or follows a verdict (ir-semantics section 5, termination).
ImplementsBounded == Bounded!Spec

\* What is left of a run: entries of the depth budget, then items of the state
\* entered, then fields of the header begun.
LeftToDo ==
  <<ir.max_depth - depth,
    CASE pc = "done" -> 0
      [] pc = "enter" -> 1
      [] OTHER -> NExtracts + NAssigns + NOps + 3 - ix,
    CASE pc = "field" -> Len(Fields) + 1 - fx
      [] AtExtract /\ Ex.header_type \in DOMAIN ir.header_types -> Len(Fields) + 1
      [] OTHER -> 0>>

\* Every run ends, whatever the program's cycles, because every step leaves
\* less of it: on a cycle of states that read nothing only the entries that
\* the loop head counts and checks get fewer (ir-semantics section 5,
\* termination; the depth budget of run_bits).
Terminates ==
  /\ Bounded!EventuallyConcludes
  /\ [][\E i \in 1..3 : /\ (LeftToDo[i])' \in 0..(LeftToDo[i] - 1)
                       /\ \A j \in 1..(i - 1) : (LeftToDo[j])' = LeftToDo[j]]_vars
=============================================================================
