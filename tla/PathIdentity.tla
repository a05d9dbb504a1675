---------------------------- MODULE PathIdentity ----------------------------
(***************************************************************************)
(* The name of the path a concrete run took (rust/pakeles/src/symex/        *)
(* pathid.rs), rebuilt from the report of the interpreter alone: its trace, *)
(* its headers and its outcome.                                             *)
(***************************************************************************)
EXTENDS InterpProperties, PathEngine

\* The values that some headers hold; of an instance extracted twice, the last.
ValuesOf(hs) ==
  LET uints == {u \in UNION {{k} \X DOMAIN hs[k].fields : k \in DOMAIN hs} :
                  "uint" \in DOMAIN hs[u[1]].fields[u[2]].value}
      last(r) == Max({k \in DOMAIN hs : hs[k].instance = r[1] /\ <<k, r[2]>> \in uints})
  IN [r \in {<<hs[u[1]].instance, u[2]>> : u \in uints} |->
        hs[last(r)].fields[r[2]].value.uint]
FinalEnv == ValuesOf(headers)

\* eval_expr_pub: no metadata, no region.
LengthOf(e) == EvalExpr(e, FinalEnv, <<>>, Undef)

\* What the states of the trace do, in order.
EventsOf(k) ==
  LET s == ir.states[trace[k].state]
      fields(i) == [f \in DOMAIN ir.header_types[s.extracts[i].header_type] |->
                      [event |-> "field", extract |-> s.extracts[i], field |-> f]]
      extract(i) == <<[event |-> "begin", extract |-> s.extracts[i]]>> \o fields(i)
                      \o <<[event |-> "end", extract |-> s.extracts[i]]>>
      ops == [i \in DOMAIN s.region_ops |->
                [event |-> "op", state |-> trace[k].state, idx |-> i, op |-> s.region_ops[i]]]
      too_deep == k = Len(trace) /\ trace[k].decision[1] = "none"
                    /\ result.reason = "max depth exceeded"
  IN <<[event |-> "state", state |-> trace[k].state]>>
       \o (IF too_deep THEN <<>>
           ELSE FlattenSeq([i \in DOMAIN s.extracts |-> extract(i)]) \o ops
                  \o <<[event |-> "decision", decision |-> trace[k].decision]>>)

\* Replay one event: r.stop once a segment that ends the path is written.
Extend(r, segment) == [r EXCEPT !.segments = Append(@, segment)]
Stop(r, segment) == [Extend(r, segment) EXCEPT !.stop = TRUE]

ReplayField(r, ev) ==
  LET parsed == r.header <= Len(headers) /\ ev.field <= Len(headers[r.header].fields)
      field == headers[r.header].fields[ev.field]
      width == ir.header_types[ev.extract.header_type][ev.field]
      mark == CASE result.reason = "out of region bounds" -> "roob"
                [] width.kind = "bit_len" /\ LengthOf(width.expr) > BoundOf(width.expr) -> "oob"
                [] OTHER -> "trunc"
  IN IF parsed THEN [r EXCEPT !.cursor = field.bit_offset + field.bit_len]
     ELSE Stop(r, <<mark, InstanceOf(ev.extract), ev.field>>)

\* Mutant of ReplayPush: the length is compared with the region around it only.
ReplayPushUnbounded(r, ev) ==
  LET end == r.cursor + LengthOf(ev.op.len)
  IN IF r.regions # <<>> /\ end > Last(r.regions) THEN Stop(r, <<"rpush", ev.state, ev.idx>>)
     ELSE [r EXCEPT !.regions = Append(@, end)]

ReplayPush(r, ev) ==
  LET len == LengthOf(ev.op.len)
      end == r.cursor + len
  IN IF len > BoundOf(ev.op.len) \/ (r.regions # <<>> /\ end > Last(r.regions))
     THEN Stop(r, <<"rpush", ev.state, ev.idx>>)
     ELSE [r EXCEPT !.regions = Append(@, end)]

ReplayPop(r, ev) ==
  IF r.cursor < Last(r.regions) THEN Stop(r, <<"rtrail", ev.state, ev.idx>>)
  ELSE [r EXCEPT !.regions = Front(@)]

Replay(r, ev) ==
  CASE r.stop -> r
    [] ev.event = "state" -> Extend(r, <<"state", ev.state, 0>>)
    [] ev.event = "begin" -> [r EXCEPT !.entry = r.cursor, !.header = @ + 1]
    [] ev.event = "field" -> ReplayField(r, ev)
    [] ev.event = "end" -> IF ev.extract.lookahead THEN [r EXCEPT !.cursor = r.entry] ELSE r
    [] ev.event = "op" -> IF ev.op.kind = "push" THEN ReplayPush(r, ev) ELSE ReplayPop(r, ev)
    [] ev.event = "decision" ->
         CASE ev.decision[1] = "arm" -> Extend(r, <<"arm", ev.decision[2], 0>>)
           [] ev.decision[1] = "default" -> Extend(r, <<"default", 0, 0>>)
           [] OTHER -> r

PathId ==
  FoldLeft(Replay,
           [segments |-> <<>>, cursor |-> 0, entry |-> 0, regions |-> <<>>, header |-> 0,
            stop |-> FALSE],
           FlattenSeq([k \in DOMAIN trace |-> EventsOf(k)])).segments
=============================================================================
