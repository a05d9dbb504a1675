--------------------------- MODULE ProcessRunner ---------------------------
(* process.rs: run_with_input, the bounded execution of an external command.
   Four threads of this program (the caller, one writer, two drains) meet a
   child process and what the child forks, over three pipes and a clock.

   The caller looks at the clock at every tick (the code sleeps at most 20 ms
   between two looks), so time moves when the caller has looked, and while it
   is blocked in wait() on a child that has not died. The child, its
   descendants, the pipes and the signals are the operating system's: they
   may write, read, fork, close and exit at any time, and a killed process
   may take any time to die. Bytes are counted, not named: nothing in this
   code depends on their values.                                           *)
EXTENDS Integers, FiniteSets, Sequences

CONSTANTS
    Heirs,        \* the processes the child may fork
    Timeouts,     \* limits.timeout, in ticks
    MaxInstant,   \* the last instant the clock can name
    GRACE,        \* how long the drains may outlive a terminated group
    Cap,          \* limits.max_output_bytes_per_stream
    Inputs,       \* lengths of the input; 0 is an empty one
    PipeSize,     \* bytes a pipe holds
    MaxWritten,   \* bound on the bytes written to both streams
    Closable,     \* bound on the pipes a process may close before it exits
    Horizon       \* bound on the clock

ASSUME SizesAssumption ==
    /\ GRACE \in Nat /\ Cap \in Nat /\ PipeSize \in Nat \ {0}
    /\ MaxWritten \in Nat /\ Horizon \in Nat /\ MaxInstant \in Nat
    /\ Timeouts \subseteq Nat /\ Inputs \subseteq Nat
ASSUME HeirsAssumption == "child" \notin Heirs

Streams == {"stdout", "stderr"}
Pipes == {"stdin"} \cup Streams
Procs == {"child"} \cup Heirs
Threads == {"writer"} \cup Streams

VARIABLES
    main,       \* where the caller is
    waits,      \* the threads it has still to wait for
    looked,     \* it has looked at the clock at this instant
    now, timeout, grace,
    child,      \* "running", "zombie" (exited, not waited for) or "reaped"
    died,       \* the instant of its death; no code reads it
    alive, grouped, signalled,   \* processes; in the group; sent SIGKILL
    open,       \* the ends of the pipes each process holds
    pipe,       \* bytes in each pipe
    in_left, writer,
    reader, retained, truncated,
    written,    \* bytes ever written to each stream
    result

clock == <<now, timeout, grace>>
procs == <<child, died, alive, grouped, signalled, open>>
threads == <<in_left, writer, reader, retained, truncated>>
vars == <<main, waits, looked, clock, procs, pipe, threads, written, result>>

Holders(s) == {p \in alive : s \in open[p]}
LeastOf(a, b) == IF a < b THEN a ELSE b

\* is_finished of a thread handle, and a thread that returned an error.
Finished(t) == IF t = "writer" THEN writer # "writing" ELSE reader[t] # "reading"
Failed(t) == IF t = "writer" THEN writer = "broken" ELSE reader[t] = "failed"

\* input None gives no writer; otherwise it is waited for first.
Spawn ==
    /\ main = "spawned" /\ waits = << >> /\ looked = FALSE
    /\ now = 0 /\ grace = 0 /\ timeout \in Timeouts
    /\ child = "running" /\ died = 0 /\ alive = {"child"} /\ grouped = {"child"}
    /\ signalled = {} /\ open = [p \in Procs |-> IF p = "child" THEN Pipes ELSE {}]
    /\ pipe = [s \in Pipes |-> 0] /\ written = [s \in Streams |-> 0]
    /\ \/ in_left \in Inputs /\ writer = "writing"
       \/ in_left = 0 /\ writer = "none"
    /\ reader = [s \in Streams |-> "reading"]
    /\ retained = [s \in Streams |-> 0] /\ truncated = [s \in Streams |-> FALSE]
    /\ result = "none"

-----------------------------------------------------------------------------
(* The caller. *)

Return(r) ==
    /\ main' = "done" /\ result' = r
    /\ UNCHANGED <<looked, clock, procs, pipe, threads, written>>

\* Joins in order: the writer if there is one, then stdout, then stderr.
WaitFor == (IF writer = "none" THEN << >> ELSE <<"writer">>) \o <<"stdout", "stderr">>

\* checked_add: the early return leaves the child and the threads behind.
StartClock ==
    /\ main = "spawned"
    /\ IF timeout > MaxInstant
       THEN Return("timeout too large") /\ UNCHANGED waits
       ELSE /\ main' = "poll"
            /\ UNCHANGED <<waits, looked, clock, procs, pipe, threads, written, result>>

\* try_wait finds an exit status and reaps the child.
PollExited ==
    /\ main = "poll" /\ ~looked /\ child = "zombie"
    /\ child' = "reaped" /\ main' = "join" /\ waits' = WaitFor
    /\ UNCHANGED <<looked, clock, died, alive, grouped, signalled, open, pipe, threads, written, result>>

\* try_wait itself fails: the `?` leaves the child and the threads behind.
PollFails ==
    /\ main = "poll" /\ ~looked
    /\ Return("wait error") /\ UNCHANGED waits

\* No status yet; the deadline is looked at after try_wait.
PollRunning ==
    /\ main = "poll" /\ ~looked /\ child = "running"
    /\ IF now >= timeout THEN main' = "kill" /\ UNCHANGED looked
                         ELSE looked' = TRUE /\ UNCHANGED main
    /\ UNCHANGED <<waits, clock, procs, pipe, threads, written, result>>

\* Mutant: Child::kill alone, which spares the descendants.
TerminateChildOnly ==
    /\ main = "kill" /\ main' = "wait"
    /\ signalled' = signalled \cup ({"child"} \cap alive)
    /\ UNCHANGED <<waits, looked, clock, child, died, alive, grouped, open, pipe, threads, written, result>>

\* terminate up to its wait: SIGKILL to the group, then to the child. The
\* child may have exited since try_wait; nobody else has reaped it.
Terminate ==
    /\ main = "kill" /\ main' = "wait"
    /\ signalled' = signalled \cup ((grouped \cup {"child"}) \cap alive)
    /\ UNCHANGED <<waits, looked, clock, child, died, alive, grouped, open, pipe, threads, written, result>>

\* Its wait blocks until the child is dead, however long that takes; only
\* then is the clock asked for the end of the grace period.
TerminateWait ==
    /\ main = "wait" /\ child = "zombie"
    /\ child' = "reaped" /\ main' = "grace" /\ waits' = WaitFor
    /\ grace' = now + GRACE
    /\ UNCHANGED <<looked, now, timeout, died, alive, grouped, signalled, open, pipe, threads, written, result>>

\* Mutant: every join under one generous deadline.
LateDeadline == timeout + GRACE + 1

\* finish_by: is_finished is asked before the clock is.
Deadline == IF main = "grace" THEN grace ELSE timeout
KeepWaiting ==
    /\ main \in {"join", "grace"} /\ waits # << >> /\ ~looked
    /\ ~Finished(Head(waits)) /\ now < Deadline
    /\ looked' = TRUE
    /\ UNCHANGED <<main, waits, clock, procs, pipe, threads, written, result>>

Joined ==
    /\ main = "join" /\ waits # << >> /\ ~looked /\ Finished(Head(waits))
    /\ waits' = Tail(waits)
    /\ IF Failed(Head(waits)) THEN Return("i/o error")
       ELSE IF Tail(waits) = << >> THEN Return("ok")
       ELSE UNCHANGED <<main, looked, clock, procs, pipe, threads, written, result>>

\* Mutant: the group is signalled on this path too, its id long recycled.
GiveUpAndKill ==
    /\ main = "join" /\ waits # << >> /\ ~looked
    /\ ~Finished(Head(waits)) /\ now >= timeout
    /\ main' = "done" /\ result' = Head(waits)
    /\ signalled' = signalled \cup (grouped \cap alive)
    /\ UNCHANGED <<waits, looked, clock, child, died, alive, grouped, open, pipe, threads, written>>

GiveUp ==
    /\ main = "join" /\ waits # << >> /\ ~looked
    /\ ~Finished(Head(waits)) /\ now >= timeout
    /\ Return(Head(waits)) /\ UNCHANGED waits

\* Mutant: the joins after a timeout wait for the threads, come what may.
GraceUnbounded ==
    /\ main = "grace" /\ waits # << >> /\ ~looked
    /\ Finished(Head(waits))
    /\ waits' = Tail(waits)
    /\ IF Tail(waits) = << >> THEN Return("timed out")
       ELSE UNCHANGED <<main, looked, clock, procs, pipe, threads, written, result>>

\* After a timeout each join is best effort and its outcome is dropped.
GraceOver ==
    /\ main = "grace" /\ waits # << >> /\ ~looked
    /\ Finished(Head(waits)) \/ now >= grace
    /\ waits' = Tail(waits)
    /\ IF Tail(waits) = << >> THEN Return("timed out")
       ELSE UNCHANGED <<main, looked, clock, procs, pipe, threads, written, result>>

Caller == \/ StartClock \/ PollExited \/ PollFails \/ PollRunning
          \/ Terminate \/ TerminateWait \/ KeepWaiting \/ Joined \/ GiveUp \/ GraceOver

\* Horizon leaves room for the grace period of the latest death.
Tick ==
    /\ looked \/ (main = "wait" /\ child = "running" /\ now + GRACE < Horizon)
    /\ looked' = FALSE
    /\ now' = LeastOf(now + 1, Horizon)
    /\ UNCHANGED <<main, waits, timeout, grace, procs, pipe, threads, written, result>>

-----------------------------------------------------------------------------
(* The writer and the two drains; they go on after the caller returned. *)

WriteAll ==
    /\ writer = "writing"
    /\ \/ /\ in_left > 0 /\ Holders("stdin") # {} /\ pipe["stdin"] < PipeSize
          /\ in_left' = in_left - 1 /\ pipe' = [pipe EXCEPT !["stdin"] = @ + 1]
          /\ UNCHANGED writer
       \/ /\ in_left > 0 /\ Holders("stdin") = {}
          /\ writer' = "broken" /\ UNCHANGED <<in_left, pipe>>
       \/ /\ in_left = 0
          /\ writer' = "ok" /\ UNCHANGED <<in_left, pipe>>
    /\ UNCHANGED <<main, waits, looked, clock, procs, reader, retained, truncated, written, result>>

\* Mutant: the cap bounds each read, not their sum.
KeptPerRead(s, read) == LeastOf(read, Cap)

Kept(s, read) == LeastOf(read, Cap - retained[s])

\* Mutants: a drain that stops at the cap, and one that takes an empty pipe
\* for the end once the child was reaped.
ReadToCap(s) ==
    /\ reader[s] = "reading"
    /\ IF retained[s] = Cap \/ (pipe[s] = 0 /\ Holders(s) = {})
       THEN /\ reader' = [reader EXCEPT ![s] = "done"]
            /\ UNCHANGED <<pipe, retained, truncated>>
       ELSE /\ pipe[s] > 0 /\ pipe' = [pipe EXCEPT ![s] = @ - 1]
            /\ retained' = [retained EXCEPT ![s] = @ + 1]
            /\ UNCHANGED <<reader, truncated>>
    /\ UNCHANGED <<main, waits, looked, clock, procs, in_left, writer, written, result>>

ReadTillReaped(s) ==
    /\ reader[s] = "reading"
    /\ IF pipe[s] = 0 /\ child = "reaped"
       THEN /\ reader' = [reader EXCEPT ![s] = "done"]
            /\ UNCHANGED <<pipe, retained, truncated>>
       ELSE /\ pipe[s] > 0 /\ pipe' = [pipe EXCEPT ![s] = @ - 1]
            /\ retained' = [retained EXCEPT ![s] = @ + Kept(s, 1)]
            /\ truncated' = [truncated EXCEPT ![s] = @ \/ Kept(s, 1) < 1]
            /\ UNCHANGED reader
    /\ UNCHANGED <<main, waits, looked, clock, procs, in_left, writer, written, result>>

ReadBounded(s) ==
    /\ reader[s] = "reading"
    /\ \/ \E read \in 1..pipe[s] :
            /\ pipe' = [pipe EXCEPT ![s] = @ - read]
            /\ retained' = [retained EXCEPT ![s] = @ + Kept(s, read)]
            /\ truncated' = [truncated EXCEPT ![s] = @ \/ Kept(s, read) < read]
            /\ UNCHANGED reader
       \/ /\ pipe[s] = 0 /\ Holders(s) = {}
          /\ reader' = [reader EXCEPT ![s] = "done"]
          /\ UNCHANGED <<pipe, retained, truncated>>
    /\ UNCHANGED <<main, waits, looked, clock, procs, in_left, writer, written, result>>

\* A read error, Interrupted included, ends the drain and drops what it kept
\* and its end of the pipe.
ReadFails(s) ==
    /\ reader[s] = "reading"
    /\ reader' = [reader EXCEPT ![s] = "failed"] /\ pipe' = [pipe EXCEPT ![s] = 0]
    /\ retained' = [retained EXCEPT ![s] = 0] /\ truncated' = [truncated EXCEPT ![s] = FALSE]
    /\ UNCHANGED <<main, waits, looked, clock, procs, in_left, writer, written, result>>

-----------------------------------------------------------------------------
(* The operating system's side. *)

Runs(p) == p \in alive /\ p \notin signalled

\* A pipe whose drain is gone takes no more bytes: the write fails at once.
Emit(p, s) ==
    /\ Runs(p) /\ s \in open[p] /\ reader[s] = "reading"
    /\ pipe[s] < PipeSize /\ written["stdout"] + written["stderr"] < MaxWritten
    /\ pipe' = [pipe EXCEPT ![s] = @ + 1] /\ written' = [written EXCEPT ![s] = @ + 1]
    /\ UNCHANGED <<main, waits, looked, clock, procs, threads, result>>

Consume(p) ==
    /\ Runs(p) /\ "stdin" \in open[p] /\ pipe["stdin"] > 0
    /\ pipe' = [pipe EXCEPT !["stdin"] = @ - 1]
    /\ UNCHANGED <<main, waits, looked, clock, procs, threads, written, result>>

Close(p, s) ==
    /\ Runs(p) /\ s \in open[p] \cap Closable
    /\ open' = [open EXCEPT ![p] = @ \ {s}]
    /\ UNCHANGED <<main, waits, looked, clock, child, died, alive, grouped, signalled, pipe, threads, written, result>>

\* A descendant inherits what the child holds and may leave the group.
Fork(h) ==
    /\ Runs("child") /\ h \notin alive
    /\ alive' = alive \cup {h} /\ open' = [open EXCEPT ![h] = open["child"]]
    /\ grouped' \in {grouped \ {h}, grouped \cup {h}}
    /\ UNCHANGED <<main, waits, looked, clock, child, died, signalled, pipe, threads, written, result>>

Exit(p) ==
    /\ p \in alive /\ alive' = alive \ {p} /\ open' = [open EXCEPT ![p] = {}]
    /\ IF p = "child" THEN child' = "zombie" /\ died' = now ELSE UNCHANGED <<child, died>>
    /\ UNCHANGED <<main, waits, looked, clock, grouped, signalled, pipe, threads, written, result>>

System == \/ \E p \in Procs, s \in Streams : Emit(p, s)
          \/ \E p \in Procs : Consume(p)
          \/ \E p \in Procs, s \in Pipes : Close(p, s)
          \/ \E h \in Heirs : Fork(h)
          \/ \E p \in Procs : Exit(p)

-----------------------------------------------------------------------------
Next == \/ Caller \/ Tick \/ WriteAll
        \/ (\E s \in Streams : ReadBounded(s) \/ ReadFails(s)) \/ System

\* The threads of this program are scheduled and time passes; a killed
\* process dies, some time. Of the child and its heirs nothing else is
\* assumed, and no read has to fail.
Fairness ==
    /\ WF_vars(Caller) /\ WF_vars(Tick) /\ WF_vars(WriteAll)
    /\ \A s \in Streams : WF_vars(ReadBounded(s))
    /\ \A p \in Procs : WF_vars(p \in signalled /\ Exit(p))

ProcessSpec == Spawn /\ [][Next]_vars /\ Fairness

-----------------------------------------------------------------------------
(* Types. *)
ProcessTypeOK ==
    /\ main \in {"spawned", "poll", "kill", "wait", "join", "grace", "done"}
    /\ waits \in Seq(Threads) /\ looked \in BOOLEAN
    /\ now \in Nat /\ timeout \in Nat /\ grace \in Nat /\ died \in Nat
    /\ child \in {"running", "zombie", "reaped"}
    /\ alive \subseteq Procs /\ grouped \subseteq Procs /\ signalled \subseteq Procs
    /\ open \in [Procs -> SUBSET Pipes] /\ pipe \in [Pipes -> 0..PipeSize]
    /\ in_left \in Nat /\ writer \in {"none", "writing", "ok", "broken"}
    /\ reader \in [Streams -> {"reading", "done", "failed"}]
    /\ retained \in [Streams -> 0..Cap] /\ truncated \in [Streams -> BOOLEAN]
    /\ written \in [Streams -> Nat]
    /\ result \in {"none", "ok", "timed out", "i/o error", "wait error",
                   "timeout too large"} \cup Threads

-----------------------------------------------------------------------------
(* Properties. *)

\* The call is over by its deadline; or, when it had to kill the group, by the
\* grace period after the deadline or after the death of the child if that
\* came later. While the call is past its deadline and outside the grace
\* period the killed child is not dead: no heir, no full pipe and no dead
\* child can hold it (the deadline loop, terminate and finish_by).
LaterOf(a, b) == IF a < b THEN b ELSE a
ReturnsInTime ==
    /\ main \in {"poll", "kill", "join"} => now <= timeout
    /\ main = "wait" /\ child = "zombie" => now <= LaterOf(timeout, died)
    /\ main = "grace" \/ result = "timed out" => now <= LaterOf(timeout, died) + GRACE
    /\ main = "done" /\ result # "timed out" => now <= timeout

\* A successful result is all the command said: each stream was read to its
\* end with no one left to write to it, the kept bytes are the first Cap ones
\* and the flag says whether there were more (read_bounded and the joins).
OutputIsWhole ==
    result = "ok" => \A s \in Streams :
        /\ Holders(s) = {} /\ pipe[s] = 0
        /\ retained[s] = LeastOf(Cap, written[s])
        /\ truncated[s] <=> written[s] > Cap

\* A call that timed out leaves no one of its process group running, and one
\* that ended in any way but the two early returns has reaped the child.
NoOneLeftBehind ==
    /\ result = "timed out" => \A p \in grouped \cap alive : p \in signalled
    /\ main = "done" /\ result \notin {"wait error", "timeout too large"} => child = "reaped"

\* The group is signalled only while the unreaped child keeps its number from
\* being given to someone else (terminate, and the comment before the joins).
SignalsItsOwnGroup == [][signalled' # signalled => child # "reaped"]_vars

\* Every call ends, whatever the child does or fails to do (run_with_input).
Returns == <>(main = "done")

\* A full stdout or stderr pipe is always emptied again, so a noisy child is
\* never stuck on it, before or after the caller gave up (read_bounded).
DrainsNeverStall == \A s \in Streams : pipe[s] = PipeSize ~> pipe[s] < PipeSize
=============================================================================
