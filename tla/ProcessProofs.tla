--------------------------- MODULE ProcessProofs ---------------------------
(* Safety of run_with_input for every command, pipe, cap and deadline.     *)
EXTENDS ProcessRunner, SequenceTheorems, TLAPS

\* The child is reaped by the two waits of the caller and by nothing else; from
\* the signals on the group stays signalled whole, for a signalled child adds
\* no one to it while the caller waits for its death.
PhaseOK ==
  /\ child # "running" => "child" \notin alive
  /\ main \in {"spawned", "poll", "kill", "wait"} => child # "reaped"
  /\ main \in {"join", "grace"} => child = "reaped"
  /\ main = "done" /\ result \notin {"wait error", "timeout too large"} => child = "reaped"
  /\ main \in {"wait", "grace"} \/ result = "timed out" =>
       \A p \in (grouped \cup {"child"}) \cap alive : p \in signalled
  /\ main # "done" => result = "none"

ProcessIInv == ProcessTypeOK /\ PhaseOK

\* Joins are in a sequence of threads.
LEMMA WaitForType == WaitFor \in Seq(Threads)
<1>1. <<"stdout", "stderr">> \in Seq(Threads) /\ <<"writer">> \in Seq(Threads)
  BY DEF Threads, Streams
<1>2. << >> \in Seq(Threads)
  OBVIOUS
<1> QED BY <1>1, <1>2 DEF WaitFor

LEMMA HeadAndTail ==
  ASSUME NEW S, NEW q \in Seq(S), q # << >>
  PROVE  Head(q) \in S /\ Tail(q) \in Seq(S)
OBVIOUS

LEMMA Sizes ==
  /\ PipeSize \in Nat /\ 0 < PipeSize /\ Cap \in Nat /\ GRACE \in Nat /\ Horizon \in Nat
  /\ 0 \in 0..PipeSize /\ 0 \in 0..Cap
BY SizesAssumption

LEMMA Counters ==
  ASSUME ProcessTypeOK
  PROVE  now \in Nat /\ written \in [Streams -> Nat]
BY Zenon DEF ProcessTypeOK

\* What a pipe holds.
LEMMA PipeBytes ==
  ASSUME ProcessTypeOK, NEW s \in Pipes
  PROVE  pipe[s] \in Nat /\ pipe[s] <= PipeSize
<1>1. pipe[s] \in 0..PipeSize
  BY DEF ProcessTypeOK
<1> QED BY <1>1, Sizes

\* The kept part of a read fits under the cap.
LEMMA KeptBound ==
  ASSUME ProcessTypeOK, NEW s \in Streams, NEW read \in 1..pipe[s]
  PROVE  retained[s] + Kept(s, read) \in 0..Cap
<1>1. retained[s] \in 0..Cap
  BY DEF ProcessTypeOK
<1>2. pipe[s] \in Nat
  BY PipeBytes DEF Pipes
<1>3. read \in Nat
  BY <1>2
<1> QED BY <1>1, <1>3, Sizes DEF Kept, LeastOf

LEMMA SpawnIInv ==
  ASSUME Spawn
  PROVE  ProcessIInv
<1>1. open \in [Procs -> SUBSET Pipes] /\ alive \subseteq Procs /\ grouped \subseteq Procs
  BY DEF Spawn, Procs
<1>2. /\ pipe \in [Pipes -> 0..PipeSize] /\ retained \in [Streams -> 0..Cap]
      /\ written \in [Streams -> Nat]
  BY Sizes DEF Spawn
<1>3. reader \in [Streams -> {"reading", "done", "failed"}] /\ truncated \in [Streams -> BOOLEAN]
  BY DEF Spawn
<1>4. waits \in Seq(Threads) /\ in_left \in Nat /\ timeout \in Nat
  <2>1. Timeouts \subseteq Nat /\ Inputs \subseteq Nat
    BY SizesAssumption
  <2>2. timeout \in Timeouts /\ (in_left \in Inputs \/ in_left = 0)
    BY DEF Spawn
  <2>3. waits \in Seq(Threads)
    BY DEF Spawn
  <2>4. timeout \in Nat /\ in_left \in Nat
    <3>1. in_left \in Inputs => in_left \in Nat
      BY <2>1, Zenon
    <3>2. timeout \in Nat
      BY <2>1, <2>2, Zenon
    <3>3. in_left = 0 => in_left \in Nat
      OBVIOUS
    <3> QED BY <2>2, <3>1, <3>2, <3>3, Zenon
  <2> QED BY <2>3, <2>4
<1>5. ProcessTypeOK
  BY <1>1, <1>2, <1>3, <1>4 DEF Spawn, ProcessTypeOK
<1>6. PhaseOK
  BY DEF Spawn, PhaseOK
<1> QED BY <1>5, <1>6 DEF ProcessIInv

\* The caller's steps.
LEMMA CallerIInv ==
  ASSUME ProcessIInv, Caller
  PROVE  ProcessIInv'
<1> USE DEF ProcessIInv
<1>1. CASE StartClock
  <2>1. ProcessTypeOK'
    BY <1>1 DEF StartClock, Return, ProcessTypeOK, clock, procs, threads
  <2>2. PhaseOK'
    BY <1>1 DEF StartClock, Return, PhaseOK, procs
  <2> QED BY <2>1, <2>2
<1>2. CASE PollExited
  <2>1. ProcessTypeOK'
    BY <1>2, WaitForType DEF PollExited, ProcessTypeOK, clock, threads
  <2>2. PhaseOK'
    BY <1>2 DEF PollExited, PhaseOK
  <2> QED BY <2>1, <2>2
<1>3. CASE PollFails
  <2>1. ProcessTypeOK'
    BY <1>3 DEF PollFails, Return, ProcessTypeOK, clock, procs, threads
  <2>2. PhaseOK'
    BY <1>3 DEF PollFails, Return, PhaseOK, procs
  <2> QED BY <2>1, <2>2
<1>4. CASE PollRunning
  <2>1. ProcessTypeOK'
    BY <1>4 DEF PollRunning, ProcessTypeOK, clock, procs, threads
  <2>2. PhaseOK'
    BY <1>4 DEF PollRunning, PhaseOK, procs
  <2> QED BY <2>1, <2>2
<1>5. CASE Terminate
  <2>1. ProcessTypeOK'
    BY <1>5 DEF Terminate, ProcessTypeOK, clock, threads, Procs
  <2>2. PhaseOK'
    BY <1>5 DEF Terminate, PhaseOK
  <2> QED BY <2>1, <2>2
<1>10. CASE TerminateWait
  <2>1. grace' \in Nat
    BY <1>10, Sizes, Counters DEF TerminateWait
  <2>2. ProcessTypeOK'
    BY <1>10, <2>1, WaitForType DEF TerminateWait, ProcessTypeOK, threads
  <2>3. PhaseOK'
    BY <1>10 DEF TerminateWait, PhaseOK
  <2> QED BY <2>2, <2>3
<1>6. CASE KeepWaiting
  <2>1. ProcessTypeOK'
    BY <1>6 DEF KeepWaiting, ProcessTypeOK, clock, procs, threads
  <2>2. PhaseOK'
    BY <1>6 DEF KeepWaiting, PhaseOK, procs
  <2> QED BY <2>1, <2>2
<1>7. CASE Joined
  <2>1. waits' \in Seq(Threads)
    BY <1>7, HeadAndTail DEF Joined, ProcessTypeOK
  <2>2. /\ main' \in {"join", "done"} /\ result' \in {result, "ok", "i/o error"}
        /\ main' = "join" => result' = result
        /\ UNCHANGED <<looked, clock, procs, pipe, threads, written>>
    BY <1>7 DEF Joined, Return
  <2>3. ProcessTypeOK'
    BY <2>1, <2>2 DEF ProcessTypeOK, clock, procs, threads
  <2>4. PhaseOK'
    BY <1>7, <2>2 DEF Joined, PhaseOK, procs
  <2> QED BY <2>3, <2>4
<1>8. CASE GiveUp
  <2>1. Head(waits) \in Threads
    BY <1>8, HeadAndTail DEF GiveUp, ProcessTypeOK
  <2>2. ProcessTypeOK'
    BY <1>8, <2>1 DEF GiveUp, Return, ProcessTypeOK, clock, procs, threads
  <2>3. PhaseOK'
    BY <1>8, <2>1 DEF GiveUp, Return, PhaseOK, procs, Threads, Streams
  <2> QED BY <2>2, <2>3
<1>9. CASE GraceOver
  <2>1. waits' \in Seq(Threads)
    BY <1>9, HeadAndTail DEF GraceOver, ProcessTypeOK
  <2>2. /\ main' \in {"grace", "done"} /\ result' \in {result, "timed out"}
        /\ main' = "grace" => result' = result
        /\ UNCHANGED <<looked, clock, procs, pipe, threads, written>>
    BY <1>9 DEF GraceOver, Return
  <2>3. ProcessTypeOK'
    BY <2>1, <2>2 DEF ProcessTypeOK, clock, procs, threads
  <2>4. PhaseOK'
    BY <1>9, <2>2 DEF GraceOver, PhaseOK, procs
  <2> QED BY <2>3, <2>4
<1> QED BY <1>1, <1>2, <1>3, <1>4, <1>5, <1>6, <1>7, <1>8, <1>9, <1>10 DEF Caller

\* What the phases say is about the caller and the processes only.
LEMMA PhaseStutter ==
  ASSUME PhaseOK, UNCHANGED <<main, procs, result>>
  PROVE  PhaseOK'
BY DEF PhaseOK, procs

\* A step that moves a number of bytes in one pipe.
LEMMA PipeType ==
  ASSUME ProcessTypeOK, NEW s \in Pipes, NEW n \in 0..PipeSize, pipe' = [pipe EXCEPT ![s] = n]
  PROVE  pipe' \in [Pipes -> 0..PipeSize]
BY DEF ProcessTypeOK

\* The clock and the three threads.
LEMMA ThreadsIInv ==
  ASSUME ProcessIInv, Tick \/ WriteAll \/ \E s \in Streams : ReadBounded(s) \/ ReadFails(s)
  PROVE  ProcessIInv'
<1> USE DEF ProcessIInv
<1>1. CASE Tick
  <2>1. now' \in Nat
    BY <1>1, Sizes, Counters DEF Tick, LeastOf
  <2>2. ProcessTypeOK'
    BY <1>1, <2>1 DEF Tick, ProcessTypeOK, procs, threads
  <2> QED BY <1>1, <2>2, PhaseStutter DEF Tick
<1>2. CASE WriteAll
  <2>1. pipe' \in [Pipes -> 0..PipeSize] /\ in_left' \in Nat
    <3>1. pipe["stdin"] \in 0..PipeSize /\ "stdin" \in Pipes
      BY DEF ProcessTypeOK, Pipes
    <3>2. pipe["stdin"] < PipeSize => pipe["stdin"] + 1 \in 0..PipeSize
      BY <3>1, SizesAssumption
    <3>3. in_left \in Nat /\ pipe \in [Pipes -> 0..PipeSize]
      BY DEF ProcessTypeOK
    <3> QED BY <1>2, <3>1, <3>2, <3>3, PipeType DEF WriteAll
  <2>2. ProcessTypeOK'
    <3>1. /\ UNCHANGED <<main, waits, looked, now, timeout, grace, child, died, alive, grouped, signalled, open>>
          /\ UNCHANGED <<reader, retained, truncated, written, result>>
      BY <1>2 DEF WriteAll, clock, procs
    <3>2. writer' \in {"none", "writing", "ok", "broken"}
      BY <1>2 DEF WriteAll, ProcessTypeOK
    <3> QED BY <2>1, <3>1, <3>2 DEF ProcessTypeOK
  <2> QED BY <1>2, <2>2, PhaseStutter DEF WriteAll
<1>3. ASSUME NEW s \in Streams, ReadBounded(s)
      PROVE  ProcessIInv'
  <2>1. /\ UNCHANGED <<main, waits, looked, clock, procs, in_left, writer, written, result>>
        /\ \/ \E read \in 1..pipe[s] :
                /\ pipe' = [pipe EXCEPT ![s] = @ - read]
                /\ retained' = [retained EXCEPT ![s] = @ + Kept(s, read)]
                /\ truncated' = [truncated EXCEPT ![s] = @ \/ Kept(s, read) < read]
                /\ UNCHANGED reader
           \/ /\ reader' = [reader EXCEPT ![s] = "done"]
              /\ UNCHANGED <<pipe, retained, truncated>>
    BY <1>3 DEF ReadBounded
  <2>2. ASSUME NEW read \in 1..pipe[s],
               pipe' = [pipe EXCEPT ![s] = @ - read],
               retained' = [retained EXCEPT ![s] = @ + Kept(s, read)],
               truncated' = [truncated EXCEPT ![s] = @ \/ Kept(s, read) < read],
               UNCHANGED reader
        PROVE  ProcessTypeOK'
    <3>1. retained' \in [Streams -> 0..Cap]
      BY <2>2, KeptBound DEF ProcessTypeOK
    <3>2. pipe' \in [Pipes -> 0..PipeSize]
      <4>1. s \in Pipes /\ pipe[s] \in Nat /\ pipe[s] <= PipeSize
        BY PipeBytes DEF Pipes
      <4>2. pipe[s] - read \in 0..PipeSize
        BY <4>1, Sizes
      <4> QED BY <2>2, <4>1, <4>2, PipeType
    <3>3. truncated' \in [Streams -> BOOLEAN]
      BY <2>2, Zenon DEF ProcessTypeOK
    <3> QED BY <2>1, <2>2, <3>1, <3>2, <3>3 DEF ProcessTypeOK, clock, procs
  <2>3. ASSUME reader' = [reader EXCEPT ![s] = "done"], UNCHANGED <<pipe, retained, truncated>>
        PROVE  ProcessTypeOK'
    BY <2>1, <2>3 DEF ProcessTypeOK, clock, procs
  <2>4. ProcessTypeOK'
    BY <2>1, <2>2, <2>3
  <2>5. PhaseOK'
    BY <2>1, PhaseStutter
  <2> QED BY <2>4, <2>5
<1>4. ASSUME NEW s \in Streams, ReadFails(s)
      PROVE  ProcessIInv'
  <2>1. s \in Pipes
    BY DEF Pipes
  <2>2. pipe' \in [Pipes -> 0..PipeSize]
    BY <1>4, <2>1, Sizes, PipeType DEF ReadFails
  <2>3. /\ reader' \in [Streams -> {"reading", "done", "failed"}]
        /\ retained' \in [Streams -> 0..Cap] /\ truncated' \in [Streams -> BOOLEAN]
    BY <1>4, Sizes DEF ReadFails, ProcessTypeOK
  <2>4. ProcessTypeOK'
    <3>1. /\ UNCHANGED <<main, waits, looked, now, timeout, grace, child, died, alive, grouped, signalled, open>>
          /\ UNCHANGED <<in_left, writer, written, result>>
      BY <1>4 DEF ReadFails, clock, procs
    <3> QED BY <2>2, <2>3, <3>1 DEF ProcessTypeOK
  <2> QED BY <1>4, <2>4, PhaseStutter DEF ReadFails
<1>5. Tick \/ WriteAll \/ \E s \in Streams : ReadBounded(s) \/ ReadFails(s)
  OBVIOUS
<1> QED BY <1>1, <1>2, <1>3, <1>4, <1>5

\* The operating system's steps: no one joins the group of a reaped child.
LEMMA SystemIInv ==
  ASSUME ProcessIInv, System
  PROVE  ProcessIInv'
<1> USE DEF ProcessIInv
<1>1. ASSUME NEW p \in Procs, NEW s \in Streams, Emit(p, s)
      PROVE  ProcessIInv'
  <2>1. s \in Pipes /\ pipe[s] + 1 \in 0..PipeSize
    <3>1. s \in Pipes
      BY DEF Pipes
    <3> QED BY <1>1, <3>1, PipeBytes, Sizes DEF Emit
  <2>2. pipe' \in [Pipes -> 0..PipeSize]
    BY <1>1, <2>1, PipeType DEF Emit
  <2>3. written' \in [Streams -> Nat]
    <3>1. written[s] + 1 \in Nat /\ written \in [Streams -> Nat]
      BY Counters
    <3>2. written' = [written EXCEPT ![s] = written[s] + 1]
      BY <1>1 DEF Emit
    <3> QED BY <3>1, <3>2
  <2>4. ProcessTypeOK'
    BY <1>1, <2>2, <2>3 DEF Emit, ProcessTypeOK, clock, procs, threads
  <2> QED BY <1>1, <2>4, PhaseStutter DEF Emit
<1>2. ASSUME NEW p \in Procs, Consume(p)
      PROVE  ProcessIInv'
  <2>1. "stdin" \in Pipes /\ pipe["stdin"] - 1 \in 0..PipeSize
    <3>1. "stdin" \in Pipes
      BY DEF Pipes
    <3> QED BY <1>2, <3>1, PipeBytes, Sizes DEF Consume
  <2>2. pipe' \in [Pipes -> 0..PipeSize]
    BY <1>2, <2>1, PipeType DEF Consume
  <2>3. ProcessTypeOK'
    BY <1>2, <2>2 DEF Consume, ProcessTypeOK, clock, procs, threads
  <2> QED BY <1>2, <2>3, PhaseStutter DEF Consume
<1>3. ASSUME NEW h \in Heirs, Fork(h)
      PROVE  ProcessIInv'
  <2>1. /\ alive' = alive \cup {h} /\ open' = [open EXCEPT ![h] = open["child"]]
        /\ grouped' \in {grouped \ {h}, grouped \cup {h}}
        /\ "child" \in alive /\ "child" \notin signalled
        /\ UNCHANGED <<main, waits, looked, clock, child, died, signalled, pipe, threads, written, result>>
    BY <1>3 DEF Fork, Runs
  <2>2. h \in Procs /\ h # "child"
    BY HeirsAssumption DEF Procs
  <2>3. ProcessTypeOK'
    <3>1. open' \in [Procs -> SUBSET Pipes]
      BY <2>1, <2>2 DEF ProcessTypeOK, Procs
    <3>2. alive' \subseteq Procs /\ grouped' \subseteq Procs
      BY <2>1, <2>2 DEF ProcessTypeOK
    <3> QED BY <2>1, <3>1, <3>2 DEF ProcessTypeOK, clock, threads
  <2>4. PhaseOK'
    BY <2>1, <2>2 DEF PhaseOK
  <2> QED BY <2>3, <2>4
<1>4. ASSUME NEW p \in Procs, Exit(p)
      PROVE  ProcessIInv'
  <2>1. /\ p \in alive /\ alive' = alive \ {p} /\ open' = [open EXCEPT ![p] = {}]
        /\ \/ p = "child" /\ child' = "zombie" /\ died' = now
           \/ p # "child" /\ UNCHANGED <<child, died>>
        /\ UNCHANGED <<main, waits, looked, clock, grouped, signalled, pipe, threads, written, result>>
    BY <1>4 DEF Exit
  <2>2. open' \in [Procs -> SUBSET Pipes] /\ died' \in Nat
    BY <2>1 DEF ProcessTypeOK
  <2>3. ProcessTypeOK'
    <3>1. /\ UNCHANGED <<main, waits, looked, now, timeout, grace, grouped, signalled>>
          /\ UNCHANGED <<pipe, in_left, writer, reader, retained, truncated, written, result>>
      BY <2>1 DEF clock, threads
    <3>2. child' \in {"running", "zombie", "reaped"} /\ alive' \subseteq Procs
      BY <2>1 DEF ProcessTypeOK
    <3> QED BY <2>2, <3>1, <3>2 DEF ProcessTypeOK
  <2>4. PhaseOK'
    BY <2>1 DEF PhaseOK
  <2> QED BY <2>3, <2>4
<1>5. ASSUME NEW p \in Procs, NEW s \in Pipes, Close(p, s)
      PROVE  ProcessIInv'
  <2>1. open' \in [Procs -> SUBSET Pipes]
    BY <1>5 DEF Close, ProcessTypeOK
  <2>2. ProcessTypeOK'
    BY <1>5, <2>1 DEF Close, ProcessTypeOK, clock, threads
  <2>3. PhaseOK'
    BY <1>5 DEF Close, PhaseOK
  <2> QED BY <2>2, <2>3
<1> QED BY <1>1, <1>2, <1>3, <1>4, <1>5 DEF System

LEMMA NextProcessIInv ==
  ASSUME ProcessIInv, [Next]_vars
  PROVE  ProcessIInv'
<1>1. CASE Next
  BY <1>1, CallerIInv, ThreadsIInv, SystemIInv DEF Next
<1>2. CASE UNCHANGED vars
  <2>1. ProcessTypeOK'
    BY <1>2 DEF vars, clock, procs, threads, ProcessIInv, ProcessTypeOK
  <2>2. PhaseOK'
    BY <1>2, PhaseStutter DEF vars, ProcessIInv
  <2> QED BY <2>1, <2>2 DEF ProcessIInv
<1> QED BY <1>1, <1>2

-----------------------------------------------------------------------------
(* Time.  That the deadline is not passed rests on the clock moving only    *)
(* after a look, and on what the look found; past it the clock moves with   *)
(* the caller in wait() until the child is dead, and in the grace period,   *)
(* which begins at once then.                                               *)

TimeOK ==
  /\ ReturnsInTime
  /\ main = "spawned" => now <= timeout
  /\ main \in {"spawned", "kill", "wait", "done"} => ~looked
  /\ main = "grace" => now <= grace /\ grace <= LaterOf(timeout, died) + GRACE
  /\ looked /\ main \in {"poll", "join"} => now < timeout
  /\ looked /\ main = "grace" => now < grace

\* The instants of a call.
LEMMA Instants ==
  ASSUME ProcessTypeOK
  PROVE  /\ now \in Nat /\ timeout \in Nat /\ grace \in Nat /\ died \in Nat
         /\ GRACE \in Nat /\ Horizon \in Nat /\ looked \in BOOLEAN
         /\ timeout <= LaterOf(timeout, died) /\ LaterOf(timeout, died) \in Nat
<1>1. /\ now \in Nat /\ timeout \in Nat /\ grace \in Nat /\ died \in Nat
      /\ GRACE \in Nat /\ Horizon \in Nat /\ looked \in BOOLEAN
  BY Sizes, Zenon DEF ProcessTypeOK
<1> QED BY <1>1 DEF LaterOf

\* A call begins before its deadline.
LEMMA SpawnTimeOK ==
  ASSUME Spawn
  PROVE  TimeOK
<1>1. main = "spawned" /\ now = 0 /\ looked = FALSE /\ result = "none"
  BY DEF Spawn
<1>2. now <= timeout
  BY <1>1, SpawnIInv, Instants DEF ProcessIInv
<1> QED BY <1>1, <1>2 DEF TimeOK, ReturnsInTime

\* What neither looks nor lets time pass nor kills the child changes nothing.
LEMMA TimeStutter ==
  ASSUME TimeOK, UNCHANGED <<main, looked, clock, child, died, result>>
  PROVE  TimeOK'
BY DEF TimeOK, ReturnsInTime, LaterOf, clock

\* A caller that returns does so at an instant its deadlines allow.
LEMMA TimeReturn ==
  ASSUME ProcessTypeOK, TimeOK, main' = "done", ~looked, UNCHANGED <<looked, clock, died>>,
         \/ main = "grace" /\ result' = "timed out"
         \/ main \in {"spawned", "poll", "join"} /\ result' # "timed out"
  PROVE  TimeOK'
<1>1. /\ UNCHANGED <<now, timeout, LaterOf(timeout, died)>>
  BY DEF clock, LaterOf
<1>2. CASE main = "grace" /\ result' = "timed out"
  <2>1. now <= LaterOf(timeout, died) + GRACE
    BY <1>2 DEF TimeOK, ReturnsInTime
  <2> QED BY <1>1, <1>2, <2>1 DEF TimeOK, ReturnsInTime
<1>3. CASE main \in {"spawned", "poll", "join"} /\ result' # "timed out"
  <2>1. now <= timeout
    BY <1>3 DEF TimeOK, ReturnsInTime
  <2> QED BY <1>1, <1>3, <2>1 DEF TimeOK, ReturnsInTime
<1> QED BY <1>2, <1>3

\* The caller looks before it waits.
LEMMA CallerTimeOK ==
  ASSUME ProcessIInv, TimeOK, Caller
  PROVE  TimeOK'
<1> USE DEF ProcessIInv
<1>0. main # "done" => result = "none"
  BY DEF PhaseOK
<1>1. CASE StartClock
  <2>1. \/ main' = "done" /\ main = "spawned" /\ result' = "timeout too large"
           /\ UNCHANGED <<looked, clock, died>>
        \/ main = "spawned" /\ main' = "poll" /\ UNCHANGED <<looked, clock, died, result>>
    BY <1>1 DEF StartClock, Return, procs
  <2>2. main = "spawned" => ~looked /\ now <= timeout
    BY DEF TimeOK
  <2>3. CASE main = "spawned" /\ main' = "poll" /\ UNCHANGED <<looked, clock, died, result>>
    BY <1>0, <2>2, <2>3 DEF TimeOK, ReturnsInTime, clock
  <2> QED BY <2>1, <2>2, <2>3, TimeReturn
<1>2. CASE PollExited
  <2>1. main = "poll" /\ ~looked /\ main' = "join" /\ UNCHANGED <<looked, clock, died, result>>
    BY <1>2 DEF PollExited
  <2> QED BY <1>0, <2>1 DEF TimeOK, ReturnsInTime, clock
<1>3. CASE PollFails \/ GiveUp
  <2>1. /\ main \in {"poll", "join"} /\ main' = "done" /\ ~looked /\ UNCHANGED <<looked, clock, died>>
        /\ \/ result' = "wait error"
           \/ result' = Head(waits) /\ waits # << >>
    <3>1. PollFails => main = "poll" /\ ~looked /\ Return("wait error")
      BY DEF PollFails
    <3>2. GiveUp => main = "join" /\ ~looked /\ waits # << >> /\ Return(Head(waits))
      BY DEF GiveUp
    <3> QED BY <1>3, <3>1, <3>2 DEF Return, procs
  <2>2. waits # << >> => Head(waits) \in Threads
    BY HeadAndTail DEF ProcessTypeOK
  <2>3. result' # "timed out"
    BY <2>1, <2>2 DEF Threads, Streams
  <2> QED BY <2>1, <2>3, TimeReturn
<1>4. CASE PollRunning
  <2>1. main = "poll" /\ ~looked /\ UNCHANGED <<now, timeout, grace, died, result>>
    BY <1>4 DEF PollRunning, clock, procs
  <2>2. \/ main' = "kill" /\ looked' = looked
        \/ ~(now >= timeout) /\ looked' = TRUE /\ main' = main
    BY <1>4 DEF PollRunning
  <2> QED BY <1>0, <2>1, <2>2, Instants DEF TimeOK, ReturnsInTime
<1>5. CASE Terminate
  <2>1. /\ main = "kill" /\ main' = "wait"
        /\ UNCHANGED <<looked, now, timeout, grace, died, result>>
    BY <1>5 DEF Terminate, clock
  <2>2. now <= timeout /\ ~looked
    BY <2>1 DEF TimeOK, ReturnsInTime
  <2>3. now <= LaterOf(timeout, died) /\ LaterOf(timeout, died)' = LaterOf(timeout, died)
    BY <2>1, <2>2, Instants DEF LaterOf
  <2> QED BY <1>0, <2>1, <2>2, <2>3 DEF TimeOK, ReturnsInTime
<1>9. CASE TerminateWait
  <2>1. /\ main = "wait" /\ child = "zombie" /\ main' = "grace" /\ grace' = now + GRACE
        /\ UNCHANGED <<looked, now, timeout, died, result>>
    BY <1>9 DEF TerminateWait
  <2>2. now <= LaterOf(timeout, died) /\ ~looked
    BY <2>1 DEF TimeOK, ReturnsInTime
  <2>3. LaterOf(timeout, died)' = LaterOf(timeout, died)
    BY <2>1 DEF LaterOf
  <2>4. now <= now + GRACE /\ now + GRACE <= LaterOf(timeout, died) + GRACE
    BY <2>2, Instants
  <2>5. now <= LaterOf(timeout, died) + GRACE
    BY <2>4, Instants
  <2> QED BY <1>0, <2>1, <2>2, <2>3, <2>4, <2>5 DEF TimeOK, ReturnsInTime
<1>6. CASE KeepWaiting
  <2>1. /\ main \in {"join", "grace"} /\ now < Deadline /\ looked' = TRUE
        /\ UNCHANGED <<main, now, timeout, grace, child, died, result>>
    BY <1>6 DEF KeepWaiting, clock, procs
  <2> QED BY <1>0, <2>1 DEF Deadline, TimeOK, ReturnsInTime, LaterOf
<1>7. CASE Joined
  <2>1. /\ main = "join" /\ ~looked /\ UNCHANGED <<looked, clock, child, died>>
        /\ \/ main' = "done" /\ result' \in {"ok", "i/o error"}
           \/ UNCHANGED <<main, result>>
    BY <1>7 DEF Joined, Return, procs
  <2> QED BY <2>1, TimeReturn, TimeStutter
<1>8. CASE GraceOver
  <2>1. /\ main = "grace" /\ ~looked /\ UNCHANGED <<looked, clock, child, died>>
        /\ \/ main' = "done" /\ result' = "timed out"
           \/ UNCHANGED <<main, result>>
    BY <1>8 DEF GraceOver, Return, procs
  <2> QED BY <2>1, TimeReturn, TimeStutter
<1> QED BY <1>1, <1>2, <1>3, <1>4, <1>5, <1>6, <1>7, <1>8, <1>9 DEF Caller

\* Time passes by one tick, after a look that found some left or while the
\* killed child is not dead.
LEMMA TickTimeOK ==
  ASSUME ProcessIInv, TimeOK, Tick
  PROVE  TimeOK'
<1>1. /\ looked \/ (main = "wait" /\ child = "running")
      /\ ~looked' /\ now' = LeastOf(now + 1, Horizon)
      /\ UNCHANGED <<main, timeout, grace, child, died, result>>
  BY DEF Tick, procs
<1>2. now' <= now + 1 /\ now' \in Nat
  BY <1>1, Instants DEF LeastOf, ProcessIInv
<1>3. LaterOf(timeout, died)' = LaterOf(timeout, died)
  BY <1>1 DEF LaterOf
<1>4. main # "done" => result = "none"
  BY DEF ProcessIInv, PhaseOK
<1>5. CASE looked
  <2>1. main \in {"poll", "join"} => now < timeout
    BY <1>5 DEF TimeOK
  <2>2. main = "grace" => now < grace /\ grace <= LaterOf(timeout, died) + GRACE
    BY <1>5 DEF TimeOK
  <2>3. main \notin {"spawned", "kill", "wait", "done"}
    BY <1>5 DEF TimeOK
  <2>4. main \in {"poll", "join"} => now' <= timeout
    BY <1>2, <2>1, Instants DEF ProcessIInv
  <2>5. main = "grace" => now' <= grace /\ now' <= LaterOf(timeout, died) + GRACE
    BY <1>2, <2>2, Instants DEF ProcessIInv
  <2> QED BY <1>1, <1>3, <1>4, <2>2, <2>3, <2>4, <2>5 DEF TimeOK, ReturnsInTime
<1>6. CASE main = "wait" /\ child = "running"
  BY <1>1, <1>4, <1>6 DEF TimeOK, ReturnsInTime
<1> QED BY <1>1, <1>5, <1>6

\* A process dies at the instant it dies.
LEMMA SystemTimeOK ==
  ASSUME ProcessIInv, TimeOK, System
  PROVE  TimeOK'
<1>1. UNCHANGED <<main, looked, clock, result>>
  BY DEF System, Emit, Consume, Close, Fork, Exit
<1>2. \/ UNCHANGED <<child, died>>
      \/ "child" \in alive /\ child' = "zombie" /\ died' = now
  BY DEF System, Emit, Consume, Close, Fork, Exit, procs
<1>3. CASE UNCHANGED <<child, died>>
  BY <1>1, <1>3, TimeStutter
<1>4. CASE "child" \in alive /\ child' = "zombie" /\ died' = now
  <2>1. main # "grace" /\ result # "timed out"
    <3>1. main \in {"spawned", "poll", "kill", "wait", "join", "grace", "done"} /\ child = "running"
      BY <1>4 DEF ProcessIInv, ProcessTypeOK, PhaseOK
    <3> QED BY <3>1 DEF ProcessIInv, PhaseOK
  <2>2. now <= LaterOf(timeout, died)'
    BY <1>1, <1>4, Instants DEF ProcessIInv, LaterOf, clock
  <2> QED BY <1>1, <2>1, <2>2 DEF TimeOK, ReturnsInTime, clock
<1> QED BY <1>2, <1>3, <1>4

\* The deadlines hold throughout.
LEMMA NextTimeOK ==
  ASSUME ProcessIInv, TimeOK, [Next]_vars
  PROVE  TimeOK'
<1>1. CASE Caller
  BY <1>1, CallerTimeOK
<1>2. CASE Tick
  BY <1>2, TickTimeOK
<1>3. CASE WriteAll \/ (\E s \in Streams : ReadBounded(s) \/ ReadFails(s)) \/ UNCHANGED vars
  <2>1. UNCHANGED <<main, looked, clock, child, died, result>>
    BY <1>3 DEF WriteAll, ReadBounded, ReadFails, procs, vars
  <2> QED BY <2>1, TimeStutter
<1>4. CASE System
  BY <1>4, SystemTimeOK
<1> QED BY <1>1, <1>2, <1>3, <1>4 DEF Next

-----------------------------------------------------------------------------
(* Output.  A drain keeps count of what it read unless it fails, ends only  *)
(* when no one is left to write, and no one can start to; the caller has    *)
(* waited for both.                                                         *)

Counted(s) ==
  reader[s] # "failed" =>
    /\ pipe[s] <= written[s]
    /\ retained[s] = LeastOf(Cap, written[s] - pipe[s])
    /\ truncated[s] <=> written[s] - pipe[s] > Cap

Drained(s) == reader[s] = "done"

OutputOK ==
  /\ \A s \in Streams : Counted(s)
  /\ \A s \in Streams : Drained(s) => pipe[s] = 0 /\ Holders(s) = {}
  /\ main = "join" =>
       \/ waits = <<"writer", "stdout", "stderr">>
       \/ waits = <<"stdout", "stderr">>
       \/ waits = <<"stderr">> /\ Drained("stdout")
  /\ result = "ok" => \A s \in Streams : Drained(s)

\* The counters of a stream.
LEMMA StreamCounters ==
  ASSUME ProcessTypeOK, NEW s \in Streams
  PROVE  /\ s \in Pipes /\ s # "stdin" /\ pipe[s] \in Nat /\ written[s] \in Nat /\ retained[s] \in Nat
         /\ Cap \in Nat /\ truncated[s] \in BOOLEAN
<1>1. s \in Pipes /\ s # "stdin"
  BY DEF Pipes, Streams
<1>2. pipe[s] \in Nat
  BY <1>1, PipeBytes
<1>3. written[s] \in Nat
  BY Counters
<1>4. retained[s] \in 0..Cap /\ truncated[s] \in BOOLEAN
  BY DEF ProcessTypeOK
<1> QED BY <1>1, <1>2, <1>3, <1>4, Sizes

\* Nothing has been written, and nothing read.
LEMMA SpawnOutputOK ==
  ASSUME Spawn
  PROVE  OutputOK
<1>1. /\ \A s \in Streams : pipe[s] = 0 /\ written[s] = 0 /\ retained[s] = 0 /\ truncated[s] = FALSE
      /\ \A s \in Streams : ~Drained(s)
      /\ main = "spawned" /\ result = "none"
  BY DEF Spawn, Pipes, Drained
<1>2. \A s \in Streams : Counted(s)
  BY <1>1, Sizes DEF Counted, LeastOf
<1> QED BY <1>1, <1>2 DEF OutputOK

\* One element before two: the order in which the caller joins its threads.
LEMMA OneThenTwo ==
  ASSUME NEW a, NEW b, NEW c
  PROVE  <<a>> \o <<b, c>> = <<a, b, c>>
<1> DEFINE S == {a, b, c}
<1>1. <<a>> \in Seq(S) /\ <<b, c>> \in Seq(S) /\ <<a, b, c>> \in Seq(S)
  OBVIOUS
<1>2. /\ <<a>> \o <<b, c>> \in Seq(S)
      /\ Len(<<a>> \o <<b, c>>) = 3 /\ Len(<<a, b, c>>) = 3
  BY <1>1, ConcatProperties
<1>3. \A i \in 1..3 : (<<a>> \o <<b, c>>)[i] = <<a, b, c>>[i]
  <2>1. (<<a>> \o <<b, c>>)[1] = a
    OBVIOUS
  <2>2. (<<a>> \o <<b, c>>)[2] = b
    OBVIOUS
  <2>3. (<<a>> \o <<b, c>>)[3] = c
    OBVIOUS
  <2> QED BY <2>1, <2>2, <2>3
<1> HIDE DEF S
<1> QED BY <1>1, <1>2, <1>3, SeqEqual

\* The caller touches no stream, and reports success past both drains.
LEMMA CallerOutputOK ==
  ASSUME ProcessIInv, OutputOK, Caller
  PROVE  OutputOK'
<1>1. /\ UNCHANGED <<open, pipe, written, reader, retained, truncated>>
      /\ UNCHANGED alive
  BY DEF Caller, StartClock, PollExited, PollFails, PollRunning, Terminate, TerminateWait, KeepWaiting,
         Joined, GiveUp, GraceOver, Return, procs, threads
<1>2. \A s \in Streams : Counted(s)' /\ (Drained(s)' <=> Drained(s))
  BY <1>1 DEF OutputOK, Counted, Drained
<1>3. \A s \in Streams : Drained(s)' => (pipe[s] = 0 /\ Holders(s) = {})'
  BY <1>1, <1>2 DEF OutputOK, Holders
<1>4. /\ main' = "join" =>
            \/ waits' = <<"writer", "stdout", "stderr">>
            \/ waits' = <<"stdout", "stderr">>
            \/ waits' = <<"stderr">> /\ Drained("stdout")
      /\ result' = "ok" => \A s \in Streams : Drained(s)
  <2>1. CASE PollExited
    <3>1. waits' = WaitFor /\ UNCHANGED result
      BY <2>1 DEF PollExited
    <3>2. WaitFor = <<"stdout", "stderr">> \/ WaitFor = <<"writer", "stdout", "stderr">>
      <4>1. << >> \o <<"stdout", "stderr">> = <<"stdout", "stderr">>
        OBVIOUS
      <4>2. <<"writer">> \o <<"stdout", "stderr">> = <<"writer", "stdout", "stderr">>
        BY OneThenTwo
      <4> QED BY <4>1, <4>2, Zenon DEF WaitFor
    <3> QED BY <3>1, <3>2 DEF OutputOK
  <2>2. CASE Joined
    <3>1. /\ main = "join" /\ Finished(Head(waits)) /\ waits' = Tail(waits)
          /\ result' = "ok" => Tail(waits) = << >> /\ ~Failed(Head(waits))
          /\ main' = "join" => ~Failed(Head(waits))
          /\ result = "none"
      BY <2>2 DEF Joined, Return, ProcessIInv, PhaseOK
    <3>5. \A s \in Streams : Finished(s) /\ ~Failed(s) => Drained(s)
      BY DEF Finished, Failed, Drained, ProcessIInv, ProcessTypeOK, Streams
    <3>2. CASE waits = <<"writer", "stdout", "stderr">>
      <4>1. Tail(waits) = <<"stdout", "stderr">>
        BY <3>2
      <4> QED BY <3>1, <4>1
    <3>3. CASE waits = <<"stdout", "stderr">>
      <4>1. Tail(waits) = <<"stderr">> /\ Head(waits) = "stdout"
        BY <3>3
      <4> QED BY <3>1, <3>5, <4>1 DEF Streams
    <3>4. CASE waits = <<"stderr">> /\ Drained("stdout")
      <4>1. Head(waits) = "stderr" /\ Tail(waits) = << >>
        BY <3>4
      <4>2. result' = "ok" => Drained("stderr")
        BY <3>1, <3>5, <4>1 DEF Streams
      <4>3. main' = "done"
        BY <2>2, <4>1 DEF Joined, Return
      <4> QED BY <3>4, <4>2, <4>3 DEF Streams
    <3> QED BY <3>1, <3>2, <3>3, <3>4 DEF OutputOK
  <2>3. CASE StartClock \/ PollFails \/ PollRunning \/ Terminate \/ TerminateWait \/ GraceOver
    <3>1. main' # "join" /\ result' \in {result, "wait error", "timeout too large", "timed out"}
      BY <2>3 DEF StartClock, PollFails, PollRunning, Terminate, TerminateWait, GraceOver, Return
    <3> QED BY <3>1 DEF OutputOK
  <2>4. CASE KeepWaiting
    BY <2>4 DEF KeepWaiting, OutputOK
  <2>5. CASE GiveUp
    <3>1. main' = "done" /\ result' = Head(waits) /\ Head(waits) \in Threads
      BY <2>5, HeadAndTail DEF GiveUp, Return, ProcessIInv, ProcessTypeOK
    <3>2. Head(waits) # "ok"
      BY <3>1 DEF Threads, Streams
    <3> QED BY <3>1, <3>2
  <2> QED BY <2>1, <2>2, <2>3, <2>4, <2>5 DEF Caller
<1> QED BY <1>2, <1>3, <1>4, Zenon DEF OutputOK, Streams

\* What a drain reads it counts, and it ends on an empty pipe that no one holds.
LEMMA ReadOutputOK ==
  ASSUME ProcessIInv, OutputOK, NEW s \in Streams, ReadBounded(s)
  PROVE  OutputOK'
<1>1. /\ UNCHANGED <<main, waits, alive, open, written, result>> /\ reader[s] = "reading"
  BY DEF ReadBounded, procs
<1>2. \A p \in Streams : Holders(p)' = Holders(p)
  BY <1>1 DEF Holders
<1>3. CASE \E read \in 1..pipe[s] :
             /\ pipe' = [pipe EXCEPT ![s] = @ - read]
             /\ retained' = [retained EXCEPT ![s] = @ + Kept(s, read)]
             /\ truncated' = [truncated EXCEPT ![s] = @ \/ Kept(s, read) < read]
             /\ UNCHANGED reader
  <2>1. PICK read \in 1..pipe[s] :
             /\ pipe' = [pipe EXCEPT ![s] = pipe[s] - read]
             /\ retained' = [retained EXCEPT ![s] = retained[s] + Kept(s, read)]
             /\ truncated' = [truncated EXCEPT ![s] = truncated[s] \/ Kept(s, read) < read]
             /\ UNCHANGED reader
    BY <1>3
  <2>2. /\ pipe'[s] = pipe[s] - read /\ retained'[s] = retained[s] + Kept(s, read)
        /\ truncated'[s] <=> (truncated[s] \/ Kept(s, read) < read)
    BY <2>1, StreamCounters DEF ProcessIInv, ProcessTypeOK
  <2>3. \A p \in Streams \ {s} : pipe'[p] = pipe[p] /\ retained'[p] = retained[p] /\ truncated'[p] = truncated[p]
    BY <2>1, StreamCounters DEF ProcessIInv, ProcessTypeOK
  <2>4. Counted(s)'
    <3>1. /\ pipe[s] \in Nat /\ written[s] \in Nat /\ Cap \in Nat /\ read \in Nat
          /\ 1 <= read /\ read <= pipe[s] /\ pipe[s] <= written[s]
          /\ retained[s] = LeastOf(Cap, written[s] - pipe[s])
          /\ truncated[s] <=> written[s] - pipe[s] > Cap
      BY <1>1, StreamCounters DEF ProcessIInv, OutputOK, Counted
    <3>2. pipe[s] - read <= written[s]
      BY <3>1
    <3>3. retained[s] + Kept(s, read) = LeastOf(Cap, written[s] - (pipe[s] - read))
      BY <3>1 DEF Kept, LeastOf
    <3>4. (truncated[s] \/ Kept(s, read) < read) <=> written[s] - (pipe[s] - read) > Cap
      BY <3>1 DEF Kept, LeastOf
    <3> QED BY <1>1, <2>2, <3>2, <3>3, <3>4 DEF Counted
  <2>5. \A p \in Streams : Counted(p)'
    BY <1>1, <2>1, <2>3, <2>4 DEF OutputOK, Counted
  <2>6. \A p \in Streams : Drained(p)' => Drained(p) /\ p # s
    BY <1>1, <2>1 DEF Drained
  <2>7. \A p \in Streams : Drained(p)' => (pipe[p] = 0 /\ Holders(p) = {})'
    BY <1>2, <2>3, <2>6 DEF OutputOK
  <2> QED BY <1>1, <2>1, <2>5, <2>7 DEF OutputOK, Drained
<1>4. CASE /\ pipe[s] = 0 /\ Holders(s) = {}
           /\ reader' = [reader EXCEPT ![s] = "done"]
           /\ UNCHANGED <<pipe, retained, truncated>>
  <2>1. \A p \in Streams : Drained(p) => Drained(p)'
    BY <1>4 DEF Drained, ProcessIInv, ProcessTypeOK
  <2>2. \A p \in Streams : Drained(p)' => p = s \/ Drained(p)
    BY <1>4 DEF Drained
  <2>3. \A p \in Streams : Drained(p)' => (pipe[p] = 0 /\ Holders(p) = {})'
    BY <1>2, <1>4, <2>2 DEF OutputOK
  <2>4. \A p \in Streams : Counted(p)'
    BY <1>1, <1>4 DEF OutputOK, Counted
  <2>5. "stdout" \in Streams
    BY DEF Streams
  <2> QED BY <1>1, <2>1, <2>3, <2>4, <2>5 DEF OutputOK
<1> QED BY <1>3, <1>4 DEF ReadBounded

\* A drain that fails promises nothing.
LEMMA ReadFailsOutputOK ==
  ASSUME ProcessIInv, OutputOK, NEW s \in Streams, ReadFails(s)
  PROVE  OutputOK'
<1>1. /\ UNCHANGED <<main, waits, alive, open, written, result>> /\ reader[s] = "reading"
      /\ reader' = [reader EXCEPT ![s] = "failed"] /\ pipe' = [pipe EXCEPT ![s] = 0]
      /\ retained' = [retained EXCEPT ![s] = 0] /\ truncated' = [truncated EXCEPT ![s] = FALSE]
  BY DEF ReadFails, procs
<1>2. /\ reader'[s] = "failed"
      /\ \A p \in Streams \ {s} : /\ reader'[p] = reader[p] /\ pipe'[p] = pipe[p]
                                 /\ retained'[p] = retained[p] /\ truncated'[p] = truncated[p]
  BY <1>1, StreamCounters DEF ProcessIInv, ProcessTypeOK
<1>3. \A p \in Streams : Counted(p)'
  BY <1>1, <1>2 DEF OutputOK, Counted
<1>4. \A p \in Streams : Drained(p)' <=> Drained(p)
  BY <1>1, <1>2 DEF Drained
<1>5. \A p \in Streams : Drained(p)' => (pipe[p] = 0 /\ Holders(p) = {})'
  BY <1>1, <1>2, <1>4 DEF OutputOK, Holders, Drained
<1>6. "stdout" \in Streams
  BY DEF Streams
<1> QED BY <1>1, <1>3, <1>4, <1>5, <1>6 DEF OutputOK

\* Bytes are written by someone who holds the pipe, and a process that comes
\* late has it from the child, which holds it then.
LEMMA SystemOutputOK ==
  ASSUME ProcessIInv, OutputOK, System
  PROVE  OutputOK'
<1>1. ASSUME NEW p \in Procs, NEW s \in Streams, Emit(p, s)
      PROVE  OutputOK'
  <2>1. /\ p \in alive /\ s \in open[p]
        /\ pipe' = [pipe EXCEPT ![s] = pipe[s] + 1]
        /\ written' = [written EXCEPT ![s] = written[s] + 1]
        /\ UNCHANGED <<main, waits, alive, open, reader, retained, truncated, result>>
        /\ reader[s] = "reading"
    BY <1>1 DEF Emit, Runs, procs, threads
  <2>2. ~Drained(s)
    BY <2>1 DEF OutputOK, Holders
  <2>3. pipe'[s] = pipe[s] + 1 /\ written'[s] = written[s] + 1
    BY <2>1, StreamCounters DEF ProcessIInv, ProcessTypeOK
  <2>4. \A q \in Streams \ {s} : pipe'[q] = pipe[q] /\ written'[q] = written[q]
    BY <2>1, StreamCounters DEF ProcessIInv, ProcessTypeOK
  <2>5. Counted(s)'
    <3>1. pipe[s] \in Nat /\ written[s] \in Nat /\ Counted(s)
      BY StreamCounters DEF ProcessIInv, OutputOK
    <3>2. (written[s] + 1) - (pipe[s] + 1) = written[s] - pipe[s] /\ pipe[s] + 1 <= written[s] + 1
      BY <2>1, <3>1 DEF Counted
    <3> QED BY <2>1, <2>3, <3>1, <3>2 DEF Counted
  <2>6. \A q \in Streams : Counted(q)'
    BY <2>1, <2>4, <2>5 DEF OutputOK, Counted
  <2>7. \A q \in Streams : Drained(q)' => Drained(q) /\ q # s
    BY <2>1, <2>2 DEF Drained
  <2>8. \A q \in Streams : Drained(q)' => (pipe[q] = 0 /\ Holders(q) = {})'
    BY <2>1, <2>4, <2>7 DEF OutputOK, Holders
  <2> QED BY <2>1, <2>6, <2>8 DEF OutputOK, Drained
<1>2. ASSUME NEW p \in Procs, Consume(p)
      PROVE  OutputOK'
  <2>1. /\ pipe' = [pipe EXCEPT !["stdin"] = pipe["stdin"] - 1]
        /\ UNCHANGED <<main, waits, alive, open, reader, retained, truncated, written, result>>
    BY <1>2 DEF Consume, procs, threads
  <2>2. \A s \in Streams : pipe'[s] = pipe[s]
    BY <2>1, StreamCounters DEF ProcessIInv, ProcessTypeOK
  <2> QED BY <2>1, <2>2 DEF OutputOK, Counted, Drained, Holders
<1>3. ASSUME NEW h \in Heirs, Fork(h)
      PROVE  OutputOK'
  <2>1. /\ "child" \in alive /\ alive' = alive \cup {h}
        /\ open' = [open EXCEPT ![h] = open["child"]]
        /\ UNCHANGED <<main, waits, pipe, reader, retained, truncated, written, result>>
    BY <1>3 DEF Fork, Runs, threads
  <2>2. ASSUME NEW s \in Streams, Drained(s)
        PROVE  Holders(s)' = {}
    <3>1. Holders(s) = {}
      BY <2>2 DEF OutputOK
    <3>2. s \notin open["child"]
      BY <2>1, <3>1 DEF Holders
    <3>3. \A p \in alive' : s \notin open'[p]
      BY <2>1, <3>1, <3>2 DEF Holders, ProcessIInv, ProcessTypeOK, Procs
    <3> QED BY <3>3 DEF Holders
  <2>3. \A s \in Streams : Counted(s)' /\ (Drained(s)' <=> Drained(s))
    BY <2>1 DEF OutputOK, Counted, Drained
  <2>4. \A s \in Streams : Drained(s)' => (pipe[s] = 0 /\ Holders(s) = {})'
    BY <2>1, <2>2, <2>3 DEF OutputOK
  <2> QED BY <2>1, <2>3, <2>4 DEF OutputOK, Streams
<1>4. ASSUME NEW p \in Procs, Exit(p) \/ \E s \in Pipes : Close(p, s)
      PROVE  OutputOK'
  <2>1. /\ alive' \subseteq alive
        /\ \E rest \in SUBSET open[p] : open' = [open EXCEPT ![p] = rest]
        /\ UNCHANGED <<main, waits, pipe, reader, retained, truncated, written, result>>
    BY <1>4 DEF Exit, Close, threads
  <2>2. \A q \in Procs : open'[q] \subseteq open[q]
    BY <2>1 DEF ProcessIInv, ProcessTypeOK
  <2>3. \A s \in Streams : Holders(s)' \subseteq Holders(s)
    BY <2>1, <2>2 DEF Holders, ProcessIInv, ProcessTypeOK
  <2> QED BY <2>1, <2>3 DEF OutputOK, Counted, Drained
<1> QED BY <1>1, <1>2, <1>3, <1>4 DEF System

\* The account of both streams holds throughout.
LEMMA NextOutputOK ==
  ASSUME ProcessIInv, OutputOK, [Next]_vars
  PROVE  OutputOK'
<1>1. CASE Caller
  BY <1>1, CallerOutputOK
<1>2. CASE Tick \/ UNCHANGED vars
  <2>1. UNCHANGED <<main, waits, alive, open, pipe, reader, retained, truncated, written, result>>
    BY <1>2 DEF Tick, vars, procs, threads
  <2> QED BY <2>1 DEF OutputOK, Counted, Drained, Holders
<1>3. CASE WriteAll
  <2>1. /\ UNCHANGED <<main, waits, alive, open, reader, retained, truncated, written, result>>
        /\ \A s \in Streams : pipe'[s] = pipe[s]
    BY <1>3, StreamCounters DEF WriteAll, procs, ProcessIInv, ProcessTypeOK
  <2> QED BY <2>1 DEF OutputOK, Counted, Drained, Holders
<1>4. CASE \E s \in Streams : ReadBounded(s) \/ ReadFails(s)
  BY <1>4, ReadOutputOK, ReadFailsOutputOK
<1>5. CASE System
  BY <1>5, SystemOutputOK
<1> QED BY <1>1, <1>2, <1>3, <1>4, <1>5 DEF Next

-----------------------------------------------------------------------------
(* The theorems. *)

\* The inductive invariant holds throughout a call and after it.
THEOREM ProcessInvariance == ProcessSpec => []ProcessIInv
BY SpawnIInv, NextProcessIInv, PTL DEF ProcessSpec

\* The variables of a call keep their types; in particular a stream never
\* keeps more bytes than the cap, whatever the command prints (read_bounded).
THEOREM ProcessTypes == ProcessSpec => []ProcessTypeOK
<1>1. ProcessIInv => ProcessTypeOK
  BY DEF ProcessIInv
<1> QED BY <1>1, ProcessInvariance, PTL

\* A timed-out group is signalled whole, and a call that reached a verdict has
\* reaped its child (terminate, run_with_input).
THEOREM NoOneLeft == ProcessSpec => []NoOneLeftBehind
<1>1. ProcessIInv => NoOneLeftBehind
  BY DEF ProcessIInv, PhaseOK, NoOneLeftBehind
<1> QED BY <1>1, ProcessInvariance, PTL

\* The group is signalled only while the unreaped child keeps its number from
\* being given away (terminate).
THEOREM SignalsSafe == ProcessSpec => SignalsItsOwnGroup
<1>1. ProcessIInv /\ [Next]_vars => [signalled' # signalled => child # "reaped"]_vars
  <2> SUFFICES ASSUME ProcessIInv, Next, signalled' # signalled
               PROVE  child # "reaped"
    OBVIOUS
  <2>1. Caller
    BY DEF Next, Tick, WriteAll, ReadBounded, ReadFails, System, Emit, Consume, Close, Fork, Exit, procs
  <2>2. Terminate
    BY <2>1 DEF Caller, StartClock, PollExited, PollFails, PollRunning, TerminateWait, KeepWaiting, Joined,
               GiveUp, GraceOver, Return, procs
  <2> QED BY <2>2 DEF Terminate, ProcessIInv, PhaseOK
<1> QED BY <1>1, ProcessInvariance, PTL DEF ProcessSpec, SignalsItsOwnGroup

\* A call is over by its deadline, or by the grace period after the deadline
\* or the later death of the child it killed, whatever its heirs and pipes do
\* (the deadline loop, terminate, finish_by).
THEOREM InTime == ProcessSpec => []ReturnsInTime
<1>1. TimeOK => ReturnsInTime
  BY DEF TimeOK
<1> QED BY <1>1, SpawnTimeOK, NextTimeOK, ProcessInvariance, PTL DEF ProcessSpec

\* A success reports all that the command and its descendants wrote, up to the
\* cap, and says whether there was more (read_bounded, the joins).
THEOREM WholeOutput == ProcessSpec => []OutputIsWhole
<1>1. ProcessIInv /\ OutputOK => OutputIsWhole
  <2> SUFFICES ASSUME ProcessIInv, OutputOK, result = "ok", NEW s \in Streams
               PROVE  /\ Holders(s) = {} /\ pipe[s] = 0
                      /\ retained[s] = LeastOf(Cap, written[s])
                      /\ truncated[s] <=> written[s] > Cap
    BY DEF OutputIsWhole
  <2>1. Holders(s) = {} /\ pipe[s] = 0 /\ Counted(s) /\ reader[s] # "failed"
    BY DEF OutputOK, Drained
  <2>2. written[s] - pipe[s] = written[s]
    BY <2>1, StreamCounters DEF ProcessIInv
  <2> QED BY <2>1, <2>2 DEF Counted
<1> QED BY <1>1, SpawnOutputOK, NextOutputOK, ProcessInvariance, PTL DEF ProcessSpec
=============================================================================
