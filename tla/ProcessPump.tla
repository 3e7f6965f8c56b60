---------------------------- MODULE ProcessPump ----------------------------
(***************************************************************************)
(* How the agent drains the output of one BDS process                      *)
(* (apps/agent/internal/lifecycle/manager.go:161-245).                     *)
(*                                                                         *)
(* The child writes lines to two pipes.  One pump goroutine per pipe reads *)
(* chunks into its scanner and hands line after line to onLog.  A third    *)
(* goroutine calls cmd.Wait, which on the child's exit closes the read     *)
(* ends of both pipes, then pumps.Wait, and only then reports the exit.    *)
(* What is still in a pipe when its read end is closed is gone; what the   *)
(* scanner has read already is still handed on.                            *)
(*                                                                         *)
(* Lines are numbered per stream in the order they are written.  A line    *)
(* longer than the scanner's 1 MiB buffer ends its pump for good.          *)
(***************************************************************************)
EXTENDS Naturals, Sequences

CONSTANTS Streams,   \* the child's pipes: stdout and stderr
          MaxLines,  \* bound: lines the child writes to one stream
          Capacity,  \* lines a pipe holds before the writer blocks
          LongLines  \* the child may write a line the scanner cannot hold

ASSUME PumpAssumption ==
  /\ MaxLines \in Nat
  /\ Capacity \in Nat \ {0}
  /\ LongLines \in BOOLEAN

VARIABLES
  child,   \* "running", "exited"
  open,    \* the read ends are open: cmd.Wait has not closed them
  waiter,  \* the goroutine of manager.go:199: where it stands
  written, \* per stream: how many lines the child has written
  long,    \* per stream: the number of its over-long line, or 0
  pipe,    \* per stream: the lines in the kernel's pipe
  scanner, \* per stream: the lines in the scanner's buffer
  pump,    \* per stream: "scanning", "failed" (of ErrTooLong), "done"
  onLog    \* per stream: the lines handed to the log handler, in order

pumpVars == <<child, open, waiter, written, long, pipe, scanner, pump, onLog>>

PumpTypeOK ==
  /\ child \in {"running", "exited"}
  /\ open \in BOOLEAN
  /\ waiter \in {"Wait", "pumps.Wait", "onExit", "reported"}
  /\ written \in [Streams -> 0..MaxLines]
  /\ long \in [Streams -> 0..MaxLines]
  /\ pump \in [Streams -> {"scanning", "failed", "done"}]
  /\ \A lines \in {pipe, scanner, onLog} : lines \in [Streams -> Seq(1..MaxLines)]
  /\ \A st \in Streams : Len(pipe[st]) <= Capacity

PumpInit ==
  /\ child = "running"
  /\ open = TRUE
  /\ waiter = "Wait"
  /\ written = [st \in Streams |-> 0]
  /\ long = [st \in Streams |-> 0]
  /\ pipe = [st \in Streams |-> <<>>]
  /\ scanner = [st \in Streams |-> <<>>]
  /\ pump = [st \in Streams |-> "scanning"]
  /\ onLog = [st \in Streams |-> <<>>]

-----------------------------------------------------------------------------
(* The child                                                                *)

Room(st) == Len(pipe[st]) < Capacity

\* The child blocks while the pipe is full.
ChildWrites(st, isLong) ==
  /\ child = "running"
  /\ written[st] < MaxLines
  /\ Room(st)
  /\ isLong => LongLines /\ long[st] = 0
  /\ written' = [written EXCEPT ![st] = @ + 1]
  /\ pipe' = [pipe EXCEPT ![st] = Append(@, written[st] + 1)]
  /\ long' = [long EXCEPT ![st] = IF isLong THEN written[st] + 1 ELSE @]
  /\ UNCHANGED <<child, open, waiter, scanner, pump, onLog>>

Die ==
  /\ child = "running"
  /\ child' = "exited"
  /\ UNCHANGED <<open, waiter, written, long, pipe, scanner, pump, onLog>>

-----------------------------------------------------------------------------
(* pumpLines (manager.go:231-245), once per stream                          *)

\* One read takes some first part of what the pipe holds.
PumpReads(st) ==
  /\ pump[st] = "scanning"
  /\ scanner[st] = <<>>
  /\ open
  /\ \E n \in 1..Len(pipe[st]) :
       /\ scanner' = [scanner EXCEPT ![st] = SubSeq(pipe[st], 1, n)]
       /\ pipe' = [pipe EXCEPT ![st] = SubSeq(@, n + 1, Len(@))]
  /\ UNCHANGED <<child, open, waiter, written, long, pump, onLog>>

\* Mutation: a token that does not fit is skipped.
SkipLongLine(st) ==
  /\ onLog' = onLog
  /\ pump' = pump

\* scanner.Scan returns false on a token that does not fit, and the loop ends.
StopAtLongLine(st) ==
  /\ onLog' = onLog
  /\ pump' = [pump EXCEPT ![st] = "failed"]

HandOn(st) ==
  /\ pump[st] = "scanning"
  /\ scanner[st] # <<>>
  /\ scanner' = [scanner EXCEPT ![st] = Tail(@)]
  /\ IF Head(scanner[st]) = long[st]
     THEN StopAtLongLine(st)
     ELSE /\ onLog' = [onLog EXCEPT ![st] = Append(@, Head(scanner[st]))]
          /\ pump' = pump
  /\ UNCHANGED <<child, open, waiter, written, long, pipe>>

\* End of file, or a read end that cmd.Wait has closed.
EndOfInput(st) ==
  /\ scanner[st] = <<>>
  /\ ~open \/ (child = "exited" /\ pipe[st] = <<>>)

PumpDone(st) ==
  /\ \/ pump[st] = "failed"
     \/ pump[st] = "scanning" /\ EndOfInput(st)
  /\ pump' = [pump EXCEPT ![st] = "done"]
  /\ UNCHANGED <<child, open, waiter, written, long, pipe, scanner, onLog>>

-----------------------------------------------------------------------------
(* The goroutine that waits for the process (manager.go:199-223)            *)

\* Mutation: the read ends are closed while the child still runs.
WaitAtOnce ==
  /\ waiter = "Wait"
  /\ waiter' = "pumps.Wait"
  /\ open' = FALSE
  /\ UNCHANGED <<child, written, long, pipe, scanner, pump, onLog>>

\* cmd.Wait: the exit status is collected, then the read ends are closed.
CmdWait ==
  /\ waiter = "Wait"
  /\ child = "exited"
  /\ waiter' = "pumps.Wait"
  /\ open' = FALSE
  /\ UNCHANGED <<child, written, long, pipe, scanner, pump, onLog>>

\* Mutation: no WaitGroup.
NoBarrier == TRUE

Drained == \A st \in Streams : pump[st] = "done"

PumpsWait ==
  /\ waiter = "pumps.Wait"
  /\ Drained
  /\ waiter' = "onExit"
  /\ UNCHANGED <<child, open, written, long, pipe, scanner, pump, onLog>>

OnExit ==
  /\ waiter = "onExit"
  /\ waiter' = "reported"
  /\ UNCHANGED <<child, open, written, long, pipe, scanner, pump, onLog>>

Waiter == CmdWait \/ PumpsWait \/ OnExit
Pump(st) == PumpReads(st) \/ HandOn(st) \/ PumpDone(st)

PumpNext ==
  \/ Die
  \/ \E st \in Streams : Pump(st) \/ \E isLong \in BOOLEAN : ChildWrites(st, isLong)
  \/ Waiter

\* Goroutines run.  Nothing obliges the child to write or to exit.
Fairness == WF_pumpVars(Waiter) /\ \A st \in Streams : WF_pumpVars(Pump(st))

PumpSpec == PumpInit /\ [][PumpNext]_pumpVars
FairSpec == PumpSpec /\ Fairness

-----------------------------------------------------------------------------
(* Properties *)

\* The handler sees the lines of a stream in the order they were written and
\* with no gap: only a last part of a stream can ever be missing, whether it
\* was cut off by the closing of the pipe or by an over-long line.
NoGap ==
  \A st \in Streams :
    onLog[st] = [i \in 1..Len(onLog[st]) |-> i]

\* Once the exit of the process is being reported, nobody hands on its lines
\* any more, so a log line never follows the CRASH frame it explains.
NoLogAfterExit ==
  [][(waiter \in {"onExit", "reported"}) => onLog' = onLog]_pumpVars

\* A process that exits is reported, however much output it left and even if
\* an over-long line has stopped its pump.
ExitGetsThrough == child = "exited" ~> waiter = "reported"

\* While the child runs and its lines fit, what it wrote reaches the handler:
\* output piles up only behind a pump that an over-long line has stopped.
OutputFlows ==
  \A st \in Streams : \A n \in 1..MaxLines :
    written[st] = n ~> \/ Len(onLog[st]) >= n
                       \/ child = "exited"
                       \/ long[st] # 0

\* Nothing is stuck in the pipes, neither the lines of a process that runs nor
\* the report of one that has exited.
NothingIsStuck == OutputFlows /\ ExitGetsThrough

\* manager.go:186: log handlers "always see lines that were written before
\* the child quit".  So when the exit is reported, all of them were handed on.
AllLinesSeen ==
  waiter = "reported" => \A st \in Streams : Len(onLog[st]) = written[st]

=============================================================================
