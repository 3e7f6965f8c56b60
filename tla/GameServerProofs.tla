-------------------------- MODULE GameServerProofs ---------------------------
(***************************************************************************)
(* What the game server says: the lines of its log, which the agent's      *)
(* pumps hand on (ProcessPump), and its answers on the remote console      *)
(* (Rcon).  For any pipes, any capacity and any amount of output, and for  *)
(* any calls and any ids they start from.                                  *)
(*                                                                         *)
(* The log.  NoGap alone is not inductive: what is handed on next comes    *)
(* from the scanner's buffer, and that from the pipe, so the invariant     *)
(* says that as long as a pump is scanning, what was handed on, what the   *)
(* scanner holds and what the pipe holds continue one another.             *)
(*                                                                         *)
(* The remote console.  A call tells its answer from the reply to its      *)
(* authentication by the request id alone, so that the answer is its own   *)
(* rests on the two ids of a call being different, also where the ids      *)
(* start again at 1 and whatever other calls take ids in between.  The     *)
(* invariant counts: the packets still to be written are at most as many   *)
(* as the ids given away before the one of the authentication comes again. *)
(***************************************************************************)
EXTENDS ProcessPump, Rcon, SequenceTheorems, FiniteSetTheorems, TLAPS

-----------------------------------------------------------------------------
(* ProcessPump: the invariant *)

\* The lines are numbered from + 1, from + 2, ...
Continues(lines, from) == \A i \in 1..Len(lines) : lines[i] = from + i

\* Lines handed on, lines in a scanner and lines in a pipe follow each other
\* without a gap, up to the last of w lines.
Chain(o, s, p, w) ==
  /\ Continues(s, Len(o))
  /\ Continues(p, Len(o) + Len(s))
  /\ w = Len(o) + Len(s) + Len(p)

NothingMissing ==
  \A st \in Streams :
    /\ Continues(onLog[st], 0)
    /\ pump[st] = "scanning" =>
         Chain(onLog[st], scanner[st], pipe[st], written[st])

\* The exit is reported when every pump is done.
DrainedBeforeExit == waiter \in {"onExit", "reported"} => Drained

PumpIInv == PumpTypeOK /\ NothingMissing /\ DrainedBeforeExit

-----------------------------------------------------------------------------
(* ProcessPump: sequences of lines *)

\* Appending one element.
LEMMA Appended ==
  ASSUME NEW S, NEW s \in Seq(S), NEW e \in S
  PROVE  /\ Append(s, e) \in Seq(S)
         /\ Len(Append(s, e)) = Len(s) + 1
         /\ \A i \in 1..Len(s) : Append(s, e)[i] = s[i]
         /\ Append(s, e)[Len(s) + 1] = e
OBVIOUS

\* The next line can be added to lines that continue a count.
LEMMA NextLine ==
  ASSUME NEW s \in Seq(1..MaxLines), NEW from \in Nat, Continues(s, from),
         from + Len(s) + 1 \in 1..MaxLines
  PROVE  Continues(Append(s, from + Len(s) + 1), from)
<1> DEFINE t == Append(s, from + Len(s) + 1)
<1>1. Len(s) \in Nat
  OBVIOUS
<1>2. /\ Len(t) = Len(s) + 1
      /\ \A i \in 1..Len(s) : t[i] = s[i]
      /\ t[Len(s) + 1] = from + Len(s) + 1
  BY Appended
<1> HIDE DEF t
<1>3. Continues(t, from)
  BY <1>1, <1>2 DEF Continues
<1> QED
  BY <1>3 DEF t

\* Lines that continue a count can be cut in two that do.
LEMMA CutLines ==
  ASSUME NEW s \in Seq(1..MaxLines), NEW from \in Nat, Continues(s, from),
         NEW n \in 1..Len(s)
  PROVE  LET a == SubSeq(s, 1, n)
             b == SubSeq(s, n + 1, Len(s))
         IN /\ a \in Seq(1..MaxLines) /\ b \in Seq(1..MaxLines)
            /\ Len(a) = n /\ Len(b) = Len(s) - n
            /\ Continues(a, from) /\ Continues(b, from + n)
<1> DEFINE a == SubSeq(s, 1, n)
           b == SubSeq(s, n + 1, Len(s))
<1>1. Len(s) \in Nat /\ \A i \in 1..Len(s) : s[i] \in 1..MaxLines
  BY LenProperties, ElementOfSeq
<1>2. /\ a \in Seq(1..MaxLines) /\ Len(a) = n
      /\ \A i \in 1..n : a[i] = s[i]
  BY <1>1, SubSeqProperties
<1>3. /\ b \in Seq(1..MaxLines) /\ Len(b) = Len(s) - n
      /\ \A i \in 1..(Len(s) - n) : b[i] = s[n + i]
  BY <1>1, SubSeqProperties
<1> HIDE DEF a, b
<1>4. Continues(a, from)
  BY <1>1, <1>2 DEF Continues
<1>5. Continues(b, from + n)
  <2> SUFFICES ASSUME NEW i \in 1..Len(b) PROVE b[i] = (from + n) + i
    BY DEF Continues
  <2>1. n + i \in 1..Len(s) /\ b[i] = s[n + i]
    BY <1>1, <1>3
  <2>2. s[n + i] = from + (n + i)
    BY <2>1 DEF Continues
  <2> QED
    BY <2>1, <2>2
<1> QED
  BY <1>2, <1>3, <1>4, <1>5 DEF a, b

\* The first of some lines that continue a count, and the others.
LEMMA FirstLine ==
  ASSUME NEW s \in Seq(1..MaxLines), s # <<>>, NEW from \in Nat, Continues(s, from)
  PROVE  /\ Head(s) = from + 1 /\ Head(s) \in 1..MaxLines
         /\ Tail(s) \in Seq(1..MaxLines) /\ Len(Tail(s)) = Len(s) - 1
         /\ Continues(Tail(s), from + 1)
<1>1. Len(s) \in Nat \ {0}
  BY EmptySeq
<1>2. Head(s) = s[1]
  BY <1>1
<1>3. /\ Head(s) \in 1..MaxLines
      /\ Tail(s) \in Seq(1..MaxLines) /\ Len(Tail(s)) = Len(s) - 1
      /\ \A i \in 1..Len(Tail(s)) : Tail(s)[i] = s[i + 1]
  BY HeadTailProperties
<1> QED
  BY <1>1, <1>2, <1>3 DEF Continues

\* Before the first line.
LEMMA ChainStarts == Continues(<<>>, 0) /\ Chain(<<>>, <<>>, <<>>, 0)
BY DEF Chain, Continues

\* The child writes line w + 1.
LEMMA ChainWrites ==
  ASSUME NEW o \in Seq(1..MaxLines), NEW s \in Seq(1..MaxLines),
         NEW p \in Seq(1..MaxLines), NEW w \in Nat, Chain(o, s, p, w),
         w + 1 \in 1..MaxLines
  PROVE  Chain(o, s, Append(p, w + 1), w + 1)
<1>1. Len(o) \in Nat /\ Len(s) \in Nat /\ Len(p) \in Nat
  BY LenProperties
<1> DEFINE from == Len(o) + Len(s)
<1>2. from \in Nat /\ w + 1 = from + Len(p) + 1 /\ Continues(p, from)
  BY <1>1 DEF Chain
<1> HIDE DEF from
<1>3. Continues(Append(p, w + 1), from) /\ Len(Append(p, w + 1)) = Len(p) + 1
  BY <1>2, NextLine, Appended
<1> QED
  BY <1>1, <1>2, <1>3 DEF Chain, from

\* The scanner, being empty, reads the first n lines of the pipe.
LEMMA ChainReads ==
  ASSUME NEW o \in Seq(1..MaxLines), NEW s \in Seq(1..MaxLines),
         NEW p \in Seq(1..MaxLines), NEW w \in Nat, Chain(o, s, p, w),
         s = <<>>, NEW n \in 1..Len(p)
  PROVE  Chain(o, SubSeq(p, 1, n), SubSeq(p, n + 1, Len(p)), w)
<1> DEFINE a == SubSeq(p, 1, n)
           b == SubSeq(p, n + 1, Len(p))
<1>1. Len(o) \in Nat /\ Len(p) \in Nat /\ Len(s) = 0
  BY LenProperties
<1>2. Continues(p, Len(o)) /\ w = Len(o) + Len(p)
  BY <1>1 DEF Chain
<1>3. /\ Len(a) = n /\ Len(b) = Len(p) - n
      /\ Continues(a, Len(o)) /\ Continues(b, Len(o) + n)
  BY <1>1, <1>2, CutLines
<1> HIDE DEF a, b
<1>4. Chain(o, a, b, w)
  BY <1>1, <1>2, <1>3 DEF Chain
<1> QED
  BY <1>4 DEF a, b

\* The pump hands on the first line its scanner holds.
LEMMA ChainHandsOn ==
  ASSUME NEW o \in Seq(1..MaxLines), NEW s \in Seq(1..MaxLines),
         NEW p \in Seq(1..MaxLines), NEW w \in Nat, Chain(o, s, p, w),
         Continues(o, 0), s # <<>>
  PROVE  /\ Continues(Append(o, Head(s)), 0)
         /\ Chain(Append(o, Head(s)), Tail(s), p, w)
<1> DEFINE h == Head(s)
           b == Tail(s)
           a == Append(o, h)
<1>1. Len(o) \in Nat /\ Len(s) \in Nat /\ Len(p) \in Nat
  BY LenProperties
<1>2. /\ h = Len(o) + 1 /\ h \in 1..MaxLines
      /\ Len(b) = Len(s) - 1 /\ Continues(b, Len(o) + 1)
  BY <1>1, FirstLine DEF Chain
<1>3. h = 0 + Len(o) + 1
  BY <1>1, <1>2
<1>4. Continues(a, 0) /\ Len(a) = Len(o) + 1
  BY <1>2, <1>3, NextLine, Appended
<1> HIDE DEF a, b, h
<1>5. Chain(a, b, p, w)
  <2>1. Len(a) + Len(b) = Len(o) + Len(s)
    BY <1>1, <1>2, <1>4
  <2> QED
    BY <1>2, <1>4, <2>1 DEF Chain
<1> QED
  BY <1>4, <1>5 DEF a, b, h

-----------------------------------------------------------------------------
(* ProcessPump: the initial states *)

\* The initial states satisfy the invariant.
LEMMA InitPumpIInv == PumpInit => PumpIInv
<1> SUFFICES ASSUME PumpInit PROVE PumpIInv
  OBVIOUS
<1> USE PumpAssumption DEF PumpInit
<1>0. \A st \in Streams :
        /\ Len(onLog[st]) = 0 /\ Len(scanner[st]) = 0 /\ Len(pipe[st]) = 0
        /\ written[st] = 0
  OBVIOUS
<1>1. PumpTypeOK
  <2>1. [st \in Streams |-> <<>>] \in [Streams -> Seq(1..MaxLines)]
    OBVIOUS
  <2>2. \A lines \in {pipe, scanner, onLog} : lines \in [Streams -> Seq(1..MaxLines)]
    BY <2>1
  <2>3. \A st \in Streams : Len(pipe[st]) <= Capacity
    <3>1. 0 <= Capacity
      BY PumpAssumption
    <3> QED
      BY <1>0, <3>1
  <2>4. /\ written \in [Streams -> 0..MaxLines]
        /\ long \in [Streams -> 0..MaxLines]
        /\ pump \in [Streams -> {"scanning", "failed", "done"}]
    OBVIOUS
  <2>5. /\ child \in {"running", "exited"} /\ open \in BOOLEAN
        /\ waiter \in {"Wait", "pumps.Wait", "onExit", "reported"}
    OBVIOUS
  <2> QED
    BY ONLY <2>2, <2>3, <2>4, <2>5 DEF PumpTypeOK
<1>2. NothingMissing
  BY ChainStarts DEF NothingMissing
<1>3. DrainedBeforeExit
  BY DEF DrainedBeforeExit
<1> QED
  BY <1>1, <1>2, <1>3 DEF PumpIInv

\* What the type invariant says of one stream.
LEMMA StreamTypes ==
  ASSUME PumpTypeOK, NEW st \in Streams
  PROVE  /\ onLog[st] \in Seq(1..MaxLines) /\ Len(onLog[st]) \in Nat
         /\ scanner[st] \in Seq(1..MaxLines) /\ Len(scanner[st]) \in Nat
         /\ pipe[st] \in Seq(1..MaxLines) /\ Len(pipe[st]) \in Nat
         /\ written[st] \in 0..MaxLines
<1>1. /\ onLog[st] \in Seq(1..MaxLines) /\ scanner[st] \in Seq(1..MaxLines)
      /\ pipe[st] \in Seq(1..MaxLines) /\ written[st] \in 0..MaxLines
  BY DEF PumpTypeOK
<1> QED
  BY <1>1, LenProperties

-----------------------------------------------------------------------------
(* ProcessPump: the steps *)

\* Every step keeps the types.
LEMMA TypeStep == PumpIInv /\ [PumpNext]_pumpVars => PumpTypeOK'
<1> SUFFICES ASSUME PumpIInv, [PumpNext]_pumpVars PROVE PumpTypeOK'
  OBVIOUS
<1>0. PumpTypeOK
  BY DEF PumpIInv
<1> USE PumpAssumption
<1>1. ASSUME NEW st \in Streams, NEW isLong \in BOOLEAN, ChildWrites(st, isLong)
      PROVE  PumpTypeOK'
  <2>0. written[st] + 1 \in 1..MaxLines /\ Len(pipe[st]) < Capacity
    BY <1>0, <1>1, StreamTypes DEF ChildWrites, Room
  <2> DEFINE p == Append(pipe[st], written[st] + 1)
  <2>1. p \in Seq(1..MaxLines) /\ Len(p) <= Capacity
    BY <1>0, <2>0, StreamTypes, Appended
  <2> HIDE DEF p
  <2>2. pipe' = [pipe EXCEPT ![st] = p]
    BY <1>1 DEF ChildWrites, p
  <2>3. written' \in [Streams -> 0..MaxLines] /\ long' \in [Streams -> 0..MaxLines]
    BY <1>0, <1>1, <2>0 DEF PumpTypeOK, ChildWrites
  <2>4. pipe' \in [Streams -> Seq(1..MaxLines)] /\ \A s \in Streams : Len(pipe'[s]) <= Capacity
    BY <1>0, <2>1, <2>2 DEF PumpTypeOK
  <2>5. UNCHANGED <<child, open, waiter, scanner, pump, onLog>>
    BY <1>1 DEF ChildWrites
  <2> QED
    BY <1>0, <2>3, <2>4, <2>5 DEF PumpTypeOK
<1>2. ASSUME NEW st \in Streams, PumpReads(st)
      PROVE  PumpTypeOK'
  <2>1. PICK n \in 1..Len(pipe[st]) :
          /\ scanner' = [scanner EXCEPT ![st] = SubSeq(pipe[st], 1, n)]
          /\ pipe' = [pipe EXCEPT ![st] = SubSeq(pipe[st], n + 1, Len(pipe[st]))]
    BY <1>2 DEF PumpReads
  <2>2. Continues(pipe[st], Len(onLog[st]) + Len(scanner[st]))
    BY <1>2 DEF PumpReads, PumpIInv, NothingMissing, Chain
  <2> DEFINE a == SubSeq(pipe[st], 1, n)
             b == SubSeq(pipe[st], n + 1, Len(pipe[st]))
  <2>3. /\ a \in Seq(1..MaxLines) /\ b \in Seq(1..MaxLines)
        /\ Len(b) = Len(pipe[st]) - n
    BY <1>0, <2>2, StreamTypes, CutLines
  <2> HIDE DEF a, b
  <2>4. /\ scanner' = [scanner EXCEPT ![st] = a]
        /\ pipe' = [pipe EXCEPT ![st] = b]
    BY <2>1 DEF a, b
  <2>5. Len(b) <= Capacity
    <3>1. Len(pipe[st]) <= Capacity /\ Len(pipe[st]) \in Nat
      BY <1>0, StreamTypes DEF PumpTypeOK
    <3> QED
      BY <2>3, <3>1
  <2>6. UNCHANGED <<child, open, waiter, written, long, pump, onLog>>
    BY <1>2 DEF PumpReads
  <2> QED
    BY <1>0, <2>3, <2>4, <2>5, <2>6 DEF PumpTypeOK
<1>3. ASSUME NEW st \in Streams, HandOn(st)
      PROVE  PumpTypeOK'
  <2>1. Continues(scanner[st], Len(onLog[st])) /\ scanner[st] # <<>>
    BY <1>3 DEF HandOn, PumpIInv, NothingMissing, Chain
  <2> DEFINE a == Append(onLog[st], Head(scanner[st]))
             b == Tail(scanner[st])
  <2>2. Head(scanner[st]) \in 1..MaxLines /\ b \in Seq(1..MaxLines)
    BY <1>0, <2>1, StreamTypes, FirstLine
  <2>3. a \in Seq(1..MaxLines)
    BY <1>0, <2>2, StreamTypes, Appended
  <2> HIDE DEF a, b
  <2>4. /\ scanner' = [scanner EXCEPT ![st] = b]
        /\ \/ onLog' = onLog /\ pump' = [pump EXCEPT ![st] = "failed"]
           \/ onLog' = [onLog EXCEPT ![st] = a] /\ pump' = pump
        /\ UNCHANGED <<child, open, waiter, written, long, pipe>>
    BY <1>3 DEF HandOn, StopAtLongLine, a, b
  <2> QED
    BY <1>0, <2>2, <2>3, <2>4 DEF PumpTypeOK
<1>4. ASSUME NEW st \in Streams, PumpDone(st)
      PROVE  PumpTypeOK'
  BY <1>0, <1>4 DEF PumpTypeOK, PumpDone
<1>5. CASE Die \/ Waiter
  BY <1>0, <1>5 DEF PumpTypeOK, Die, Waiter, CmdWait, PumpsWait, OnExit
<1>6. CASE UNCHANGED pumpVars
  BY <1>0, <1>6 DEF PumpTypeOK, pumpVars
<1> QED
  BY <1>1, <1>2, <1>3, <1>4, <1>5, <1>6 DEF PumpNext, Pump

\* Every step keeps the three places a line can be in contiguous.
LEMMA NothingMissingStep == PumpIInv /\ [PumpNext]_pumpVars => NothingMissing'
<1> SUFFICES ASSUME PumpIInv, [PumpNext]_pumpVars, NEW st \in Streams
             PROVE  /\ Continues(onLog'[st], 0)
                    /\ pump'[st] = "scanning" =>
                         Chain(onLog'[st], scanner'[st], pipe'[st], written'[st])
  BY DEF NothingMissing
<1>0. PumpTypeOK /\ Continues(onLog[st], 0)
  BY DEF PumpIInv, NothingMissing
<1>1. pump[st] = "scanning" =>
        Chain(onLog[st], scanner[st], pipe[st], written[st])
  BY DEF PumpIInv, NothingMissing
<1>2. /\ onLog[st] \in Seq(1..MaxLines) /\ scanner[st] \in Seq(1..MaxLines)
      /\ pipe[st] \in Seq(1..MaxLines)
      /\ written[st] \in Nat /\ written[st] \in 0..MaxLines
  BY <1>0, StreamTypes, PumpAssumption
<1>3. CASE /\ UNCHANGED <<onLog[st], scanner[st], pipe[st], written[st]>>
           /\ pump'[st] = "scanning" => pump[st] = "scanning"
  BY <1>0, <1>1, <1>3
<1>4. CASE \E isLong \in BOOLEAN : ChildWrites(st, isLong)
  <2>1. /\ written[st] < MaxLines
        /\ written'[st] = written[st] + 1
        /\ pipe'[st] = Append(pipe[st], written[st] + 1)
        /\ UNCHANGED <<onLog, scanner, pump>>
    BY <1>0, <1>4 DEF ChildWrites, PumpTypeOK
  <2>2. written[st] + 1 \in 1..MaxLines
    BY <1>2, <2>1, PumpAssumption
  <2> QED
    BY <1>0, <1>1, <1>2, <2>1, <2>2, ChainWrites
<1>5. CASE PumpReads(st)
  <2>1. PICK n \in 1..Len(pipe[st]) :
          /\ scanner' = [scanner EXCEPT ![st] = SubSeq(pipe[st], 1, n)]
          /\ pipe' = [pipe EXCEPT ![st] = SubSeq(pipe[st], n + 1, Len(pipe[st]))]
    BY <1>5 DEF PumpReads
  <2>2. /\ scanner'[st] = SubSeq(pipe[st], 1, n)
        /\ pipe'[st] = SubSeq(pipe[st], n + 1, Len(pipe[st]))
    BY <1>0, <2>1 DEF PumpTypeOK
  <2>3. /\ UNCHANGED <<onLog, written>>
        /\ pump[st] = "scanning" /\ scanner[st] = <<>>
    BY <1>5 DEF PumpReads
  <2> QED
    BY <1>0, <1>1, <1>2, <2>2, <2>3, ChainReads
<1>6. CASE HandOn(st)
  <2>1. /\ pump[st] = "scanning" /\ scanner[st] # <<>>
        /\ scanner'[st] = Tail(scanner[st])
        /\ UNCHANGED <<pipe, written>>
    BY <1>0, <1>6 DEF HandOn, PumpTypeOK
  <2>2. \/ onLog' = onLog /\ pump'[st] = "failed"
        \/ onLog'[st] = Append(onLog[st], Head(scanner[st]))
    BY <1>0, <1>6 DEF HandOn, StopAtLongLine, PumpTypeOK
  <2> QED
    BY <1>0, <1>1, <1>2, <2>1, <2>2, ChainHandsOn
<1> QED
  BY <1>0, <1>3, <1>4, <1>5, <1>6
     DEF PumpNext, Pump, ChildWrites, PumpReads, HandOn, StopAtLongLine, PumpDone, Die, Waiter,
         CmdWait, PumpsWait, OnExit, pumpVars, PumpTypeOK

\* A pump that is done stays done, so the barrier holds from then on.
LEMMA DrainedStep == PumpIInv /\ [PumpNext]_pumpVars => DrainedBeforeExit'
<1> SUFFICES ASSUME PumpIInv, [PumpNext]_pumpVars PROVE DrainedBeforeExit'
  OBVIOUS
<1>1. PumpTypeOK /\ DrainedBeforeExit
  BY DEF PumpIInv
<1>2. Drained => Drained'
  BY <1>1 DEF Drained, PumpTypeOK, PumpNext, Pump, ChildWrites, PumpReads, HandOn, StopAtLongLine,
              PumpDone, Die, Waiter, CmdWait, PumpsWait, OnExit, pumpVars
<1>3. waiter' \in {"onExit", "reported"} =>
        waiter \in {"onExit", "reported"} \/ Drained
  BY DEF PumpNext, Pump, ChildWrites, PumpReads, HandOn, PumpDone, Die, Waiter, CmdWait,
         PumpsWait, OnExit, pumpVars
<1> QED
  BY <1>1, <1>2, <1>3 DEF DrainedBeforeExit

-----------------------------------------------------------------------------
(* ProcessPump: theorems *)

\* The invariant holds in every reachable state.
THEOREM PumpInvariant == PumpSpec => []PumpIInv
<1>1. PumpIInv /\ [PumpNext]_pumpVars => PumpIInv'
  BY TypeStep, NothingMissingStep, DrainedStep DEF PumpIInv
<1> QED
  BY <1>1, InitPumpIInv, PTL DEF PumpSpec

\* Log handlers see every stream from its first line on, in order and without
\* a gap, wherever the closing of the pipes or an over-long line cuts it off.
THEOREM LogsHaveNoGap == PumpSpec => []NoGap
<1>1. PumpIInv => NoGap
  <2> SUFFICES ASSUME PumpIInv, NEW st \in Streams
               PROVE  onLog[st] = [i \in 1..Len(onLog[st]) |-> i]
    BY DEF NoGap
  <2>1. Continues(onLog[st], 0) /\ onLog[st] \in Seq(1..MaxLines)
    BY StreamTypes DEF PumpIInv, NothingMissing
  <2>2. /\ DOMAIN onLog[st] = 1..Len(onLog[st]) /\ Len(onLog[st]) \in Nat
        /\ onLog[st] \in [1..Len(onLog[st]) -> 1..MaxLines]
    BY <2>1, LenProperties
  <2>3. \A i \in 1..Len(onLog[st]) : onLog[st][i] = i
    BY <2>1, <2>2 DEF Continues
  <2> QED
    BY <2>2, <2>3
<1> QED
  BY <1>1, PumpInvariant, PTL

\* No line is handed on once the exit is being reported, however many streams
\* there are: pumps.Wait is a barrier for all of them.
THEOREM ExitComesLast == PumpSpec => NoLogAfterExit
<1>1. PumpIInv /\ [PumpNext]_pumpVars =>
        [(waiter \in {"onExit", "reported"}) => onLog' = onLog]_pumpVars
  <2> SUFFICES ASSUME PumpIInv, [PumpNext]_pumpVars, waiter \in {"onExit", "reported"}
               PROVE  onLog' = onLog
    OBVIOUS
  <2>1. Drained
    BY DEF PumpIInv, DrainedBeforeExit
  <2> QED
    BY <2>1 DEF Drained, PumpNext, Pump, ChildWrites, PumpReads, HandOn, PumpDone, Die, Waiter,
                CmdWait, PumpsWait, OnExit, pumpVars
<1> QED
  BY <1>1, PumpInvariant, PTL DEF PumpSpec, NoLogAfterExit

-----------------------------------------------------------------------------
(* Rcon: the invariant *)

\* The elements of a sequence.
Elems(s) == {s[i] : i \in 1..Len(s)}

\* The id the next packet of call c is given.
NextId(c) == IF c \in ApiCalls THEN ApiId.id ELSE AgentId

\* How many ids are given away before i, when n is the next.
Distance(n, i) == IF n <= i THEN i - n ELSE i - n + MaxId

\* The packets still to be written, by the stage they begin.
Stages == {"auth", "command"}
Unwritten ==
  {w \in Calls \X Stages :
     at[w[1]] \in {"none", "dialling"} \/ (at[w[1]] = "auth" /\ w[2] = "command")}

\* While a call waits for the reply to its authentication, the ids that come before
\* that of the authentication are enough for all the packets still to be written.
IdsLast ==
  \A c \in Calls :
    at[c] = "auth" => Cardinality(Unwritten) <= Distance(NextId(c), id[c])

\* What a call has taken is its own.
Own(c) ==
  /\ Elems(output[c]) \subseteq {"part"}
  /\ output[c] # <<>> => c \in accepted

\* What holds of each call: nothing is sent before the password; the server has to do
\* what the call waits for; in the first stage every packet on the wire bears the id of
\* the authentication or none; in the second what bears the id of the command is a part
\* of its answer.
CallInv(c) ==
  /\ at[c] \in {"none", "dialling"} =>
       wire[c] = <<>> /\ output[c] = <<>> /\ server[c] \in {"idle", "closed"}
  /\ server[c] \in Stages => at[c] = server[c]
  /\ at[c] \in Stages => id[c] \in 1..MaxId
  /\ at[c] = "auth" =>
       /\ output[c] = <<>>
       /\ \A p \in Elems(wire[c]) : p.id \in {id[c], AuthFailureId, Unasked}
  /\ at[c] = "command" =>
       /\ Own(c)
       /\ \A p \in Elems(wire[c]) : p.id = id[c] => p.what = "part" /\ c \in accepted
  /\ at[c] = "answered" => Own(c) /\ output[c] # <<>>

\* The invariant.
IInv == TypeOK /\ IdsLast /\ \A c \in Calls : CallInv(c)

-----------------------------------------------------------------------------
(* Rcon: sequences as the sets of their elements *)

\* The elements of two sequences put together are those of both.
LEMMA ElemsOf ==
  ASSUME NEW S, NEW s \in Seq(S), NEW t \in Seq(S)
  PROVE  /\ Elems(s) \subseteq S /\ Elems(<<>>) = {}
         /\ s \o t \in Seq(S) /\ Elems(s \o t) = Elems(s) \cup Elems(t)
<1>1. /\ Len(s) \in Nat /\ Len(t) \in Nat
      /\ \A i \in 1..Len(s) : s[i] \in S
      /\ \A i \in 1..Len(t) : t[i] \in S
  BY ElementOfSeq, LenProperties
<1>2. Elems(s) \subseteq S /\ Elems(<<>>) = {}
  BY <1>1 DEF Elems
<1>3. s \o t \in Seq(S) /\ Elems(s \o t) = Elems(s) \cup Elems(t)
  <2> DEFINE u == s \o t
  <2>1. /\ u \in Seq(S) /\ Len(u) = Len(s) + Len(t)
        /\ \A i \in 1..Len(s) + Len(t) :
             u[i] = IF i <= Len(s) THEN s[i] ELSE t[i - Len(s)]
    BY ConcatProperties
  <2> HIDE DEF u
  <2>2. Elems(u) \subseteq Elems(s) \cup Elems(t)
    <3> SUFFICES ASSUME NEW i \in 1..Len(u) PROVE u[i] \in Elems(s) \cup Elems(t)
      BY DEF Elems
    <3>1. CASE i <= Len(s)
      BY <1>1, <2>1, <3>1 DEF Elems
    <3>2. CASE ~(i <= Len(s))
      BY <1>1, <2>1, <3>2 DEF Elems
    <3> QED
      BY <3>1, <3>2
  <2>3. \A i \in 1..Len(s) : s[i] \in Elems(u)
    BY <1>1, <2>1 DEF Elems
  <2>4. \A i \in 1..Len(t) : t[i] \in Elems(u)
    <3> TAKE i \in 1..Len(t)
    <3>0. Len(s) + i \in 1..Len(s) + Len(t) /\ ~(Len(s) + i <= Len(s)) /\ (Len(s) + i) - Len(s) = i
      BY <1>1
    <3>1. Len(s) + i \in 1..Len(u) /\ u[Len(s) + i] = t[i]
      BY ONLY <2>1, <3>0
    <3> QED
      BY <3>1 DEF Elems
  <2>5. Elems(u) = Elems(s) \cup Elems(t)
    BY <2>2, <2>3, <2>4 DEF Elems
  <2> QED
    BY <2>1, <2>5 DEF u
<1> QED
  BY <1>2, <1>3

\* Appending adds one element.
LEMMA ElemsOfAppended ==
  ASSUME NEW S, NEW s \in Seq(S), NEW e \in S
  PROVE  /\ Append(s, e) \in Seq(S) /\ Append(s, e) # <<>>
         /\ Elems(Append(s, e)) = Elems(s) \cup {e}
<1> DEFINE u == Append(s, e)
<1>0. Len(s) \in Nat
  BY LenProperties
<1>1. /\ u \in Seq(S) /\ u # <<>> /\ Len(u) = Len(s) + 1
      /\ \A i \in 1..Len(s) : u[i] = s[i]
      /\ u[Len(s) + 1] = e
  BY AppendProperties
<1> HIDE DEF u
<1>2. Elems(u) = Elems(s) \cup {e}
  BY <1>0, <1>1 DEF Elems
<1> QED
  BY <1>1, <1>2 DEF u

\* The first of a sequence and the others.
LEMMA FirstAndRest ==
  ASSUME NEW S, NEW s \in Seq(S), s # <<>>
  PROVE  /\ Head(s) \in S /\ Head(s) \in Elems(s)
         /\ Tail(s) \in Seq(S) /\ Elems(Tail(s)) \subseteq Elems(s)
<1>1. Len(s) \in Nat \ {0}
  BY EmptySeq
<1>2. /\ Head(s) \in S /\ Head(s) = s[1]
      /\ Tail(s) \in Seq(S) /\ Len(Tail(s)) = Len(s) - 1
      /\ \A i \in 1..Len(Tail(s)) : Tail(s)[i] = s[i + 1]
  BY HeadTailProperties
<1>3. \A i \in 1..Len(Tail(s)) : i + 1 \in 1..Len(s)
  BY <1>1, <1>2
<1> QED
  BY <1>1, <1>2, <1>3 DEF Elems

-----------------------------------------------------------------------------
(* Rcon: types *)

\* The ids the two counters give are request ids.
LEMMA IdTypes ==
  ASSUME TypeOK
  PROVE  /\ MaxId \in Nat /\ ApiId.id \in 1..MaxId /\ AgentId \in 1..MaxId
         /\ ApiId.next \in 1..MaxId + 1
BY RconAssumption DEF TypeOK, ApiId, AgentId

\* What the type invariant says of one call.
LEMMA CallTypes ==
  ASSUME TypeOK, NEW c \in Calls
  PROVE  /\ at[c] \in {"none", "dialling", "auth", "command"} \cup Ended
         /\ id[c] \in 0..MaxId
         /\ server[c] \in {"idle", "auth", "command", "closed"}
         /\ wire[c] \in Seq(Packet) /\ output[c] \in Seq({"reply", "part", "other"})
BY DEF TypeOK

\* A counter that starts again after m stays within 1..m.
LEMMA Wraps ==
  ASSUME NEW m \in Nat, NEW n \in 1..m
  PROVE  (IF n = m THEN 1 ELSE n + 1) \in 1..m
OBVIOUS

\* What a call is given after a step is a request id, too.
LEMMA NextIdTypes ==
  ASSUME NEW c \in Calls, nextApi' \in 1..MaxId + 1, nextAgent' \in 1..MaxId
  PROVE  NextId(c)' \in 1..MaxId
<1>1. MaxId \in Nat /\ MaxId >= 1
  BY RconAssumption
<1>2. ApiId'.id = IF nextApi' > MaxId THEN 1 ELSE nextApi'
  BY DEF ApiId
<1>3. ApiId'.id \in 1..MaxId
  BY <1>1, <1>2
<1>4. AgentId' \in 1..MaxId
  BY <1>1, Wraps DEF AgentId
<1> QED
  BY <1>3, <1>4 DEF NextId

\* Writing a packet keeps the types, and gives the call its next id.
LEMMA WriteTypes ==
  ASSUME TypeOK, NEW c \in Calls, NEW s \in Stages, Write(c, s)
  PROVE  /\ at' \in [Calls -> {"none", "dialling", "auth", "command"} \cup Ended]
         /\ id' \in [Calls -> 0..MaxId]
         /\ nextApi' \in 1..MaxId + 1 /\ nextAgent' \in 1..MaxId
         /\ server' \in [Calls -> {"idle", "auth", "command", "closed"}]
         /\ at' = [at EXCEPT ![c] = s]
         /\ id' = [id EXCEPT ![c] = NextId(c)] /\ NextId(c) \in 1..MaxId
         /\ server' = [server EXCEPT ![c] = IF @ = "closed" THEN @ ELSE s]
<1>1. /\ MaxId \in Nat /\ ApiId.id \in 1..MaxId /\ AgentId \in 1..MaxId
      /\ ApiId.next \in 1..MaxId + 1
  BY IdTypes
<1>2. NextId(c) \in 1..MaxId /\ id' = [id EXCEPT ![c] = NextId(c)]
  BY <1>1 DEF Write, NextId
<1>3. nextApi' \in 1..MaxId + 1 /\ nextAgent' \in 1..MaxId
  BY <1>1 DEF Write, TypeOK
<1>4. /\ at' = [at EXCEPT ![c] = s]
      /\ server' = [server EXCEPT ![c] = IF @ = "closed" THEN @ ELSE s]
  BY DEF Write
<1>5. id' \in [Calls -> 0..MaxId]
  BY <1>1, <1>2 DEF TypeOK
<1> QED
  BY <1>2, <1>3, <1>4, <1>5 DEF TypeOK, Stages

\* Ending calls keeps the types.
LEMMA ClosedTypes ==
  ASSUME TypeOK, NEW S \in SUBSET Calls, NEW how \in Ended, Closed(S, how)
  PROVE  /\ at' \in [Calls -> {"none", "dialling", "auth", "command"} \cup Ended]
         /\ id' \in [Calls -> 0..MaxId]
         /\ nextApi' \in 1..MaxId + 1 /\ nextAgent' \in 1..MaxId
         /\ server' \in [Calls -> {"idle", "auth", "command", "closed"}]
         /\ accepted' \subseteq Calls
         /\ wire' \in [Calls -> Seq(Packet)]
<1>1. <<>> \in Seq(Packet) /\ 0 \in 0..MaxId
  BY RconAssumption, EmptySeq
<1> QED
  BY <1>1 DEF TypeOK, Closed

\* Failing calls keeps the types.
LEMMA FailTypes ==
  ASSUME TypeOK, NEW S \in SUBSET Calls, Fail(S), apiUp' \in BOOLEAN
  PROVE  TypeOK'
<1>1. <<>> \in Seq({"reply", "part", "other"})
  BY EmptySeq
<1>2. "failed" \in Ended /\ Closed(S, "failed")
  BY DEF Ended, Fail
<1>3. output' \in [Calls -> Seq({"reply", "part", "other"})]
  BY <1>1 DEF Fail, TypeOK
<1> QED
  BY <1>2, <1>3, ClosedTypes DEF TypeOK

\* Answering a call keeps the types.
LEMMA AnsweredTypes ==
  ASSUME TypeOK, NEW c \in Calls, NEW parts \in Seq({"reply", "part", "other"}),
         Answered(c, parts)
  PROVE  TypeOK'
<1>1. "answered" \in Ended /\ Closed({c}, "answered") /\ {c} \subseteq Calls
  BY DEF Ended, Answered
<1>2. output' \in [Calls -> Seq({"reply", "part", "other"})] /\ apiUp' \in BOOLEAN
  BY DEF Answered, TypeOK
<1> QED
  BY <1>1, <1>2, ClosedTypes DEF TypeOK

\* What the game server sends arrives after what it sent before.
LEMMA SendsTypes ==
  ASSUME TypeOK, NEW c \in Calls, NEW packets \in Seq(Packet), Sends(c, packets)
  PROVE  /\ wire' = [wire EXCEPT ![c] = wire[c] \o packets]
         /\ wire' \in [Calls -> Seq(Packet)]
<1>1. wire[c] \o packets \in Seq(Packet)
  BY CallTypes, ConcatProperties
<1> QED
  BY <1>1 DEF TypeOK, Sends

-----------------------------------------------------------------------------
(* Rcon: the steps, for one call *)

\* The invariant without the ids.
CallsInv == TypeOK /\ \A c \in Calls : CallInv(c)

\* A step that leaves a call alone.
LEMMA Untouched ==
  ASSUME NEW c \in Calls, CallInv(c), c \in accepted <=> c \in accepted',
         at'[c] = at[c], id'[c] = id[c], server'[c] = server[c],
         wire'[c] = wire[c], output'[c] = output[c]
  PROVE  CallInv(c)'
BY DEF CallInv, Own

\* Calls that fail, and the others.
LEMMA FailStep ==
  ASSUME CallsInv, NEW S \in SUBSET Calls, Fail(S), apiUp' \in BOOLEAN
  PROVE  CallsInv'
<1>1. TypeOK'
  BY FailTypes DEF CallsInv
<1>2. ASSUME NEW c \in Calls
      PROVE  CallInv(c)'
  <2>1. CASE c \in S
    <3>1. at'[c] = "failed" /\ server'[c] = "closed"
      BY <2>1 DEF Fail, Closed
    <3> QED
      BY <3>1 DEF CallInv, Stages
  <2>2. CASE c \notin S
    <3>1. /\ at'[c] = at[c] /\ id'[c] = id[c] /\ server'[c] = server[c]
          /\ wire'[c] = wire[c] /\ output'[c] = output[c]
          /\ c \in accepted <=> c \in accepted'
      BY <2>2 DEF Fail, Closed
    <3> QED
      BY <3>1, Untouched DEF CallsInv
  <2> QED
    BY <2>1, <2>2
<1> QED
  BY <1>1, <1>2 DEF CallsInv

\* A call is answered with parts that are its own.
LEMMA AnsweredStep ==
  ASSUME CallsInv, NEW c \in Calls, NEW parts \in Seq({"reply", "part", "other"}),
         Answered(c, parts),
         parts # <<>>, Elems(parts) \subseteq {"part"}, c \in accepted
  PROVE  CallsInv'
<1>1. TypeOK'
  BY AnsweredTypes DEF CallsInv
<1>2. CallInv(c)'
  <2>1. /\ at'[c] = "answered" /\ server'[c] = "closed" /\ accepted' = accepted
        /\ output'[c] = parts
    BY DEF Answered, Closed, CallsInv, TypeOK
  <2> QED
    BY <2>1 DEF CallInv, Stages, Own
<1>3. ASSUME NEW d \in Calls \ {c}
      PROVE  CallInv(d)'
  <2>1. /\ at'[d] = at[d] /\ id'[d] = id[d] /\ server'[d] = server[d]
        /\ wire'[d] = wire[d] /\ output'[d] = output[d]
        /\ d \in accepted <=> d \in accepted'
    BY DEF Answered, Closed, CallsInv, TypeOK
  <2> QED
    BY <2>1, Untouched DEF CallsInv
<1> QED
  BY <1>1, <1>2, <1>3 DEF CallsInv

\* A call dials.
LEMMA DialStep ==
  ASSUME CallsInv, NEW c \in Calls, Dial(c)
  PROVE  CallsInv'
<1>1. TypeOK'
  BY DEF CallsInv, TypeOK, Dial
<1>2. ASSUME NEW d \in Calls
      PROVE  CallInv(d)'
  <2>1. CASE d = c
    <3>1. CallInv(c)
      BY DEF CallsInv
    <3>2. at[c] = "none" /\ at'[c] = "dialling"
      BY DEF CallsInv, TypeOK, Dial
    <3> QED
      BY <2>1, <3>1, <3>2 DEF CallInv, Stages, Dial
  <2>2. CASE d # c
    <3>1. at'[d] = at[d]
      BY <2>2 DEF CallsInv, TypeOK, Dial
    <3> QED
      BY <3>1, Untouched DEF CallsInv, Dial
  <2> QED
    BY <2>1, <2>2
<1> QED
  BY <1>1, <1>2 DEF CallsInv

\* A call sends its password: nothing has been sent to it yet.
LEMMA AuthenticateStep ==
  ASSUME CallsInv, NEW c \in Calls, Authenticate(c)
  PROVE  CallsInv'
<1>1. TypeOK /\ CallInv(c) /\ at[c] = "dialling"
  BY DEF CallsInv, Authenticate
<1>2. /\ Write(c, "auth") /\ "auth" \in Stages
      /\ UNCHANGED <<output, accepted, wire, apiUp>>
  BY DEF Authenticate, Stages
<1>3. TypeOK'
  BY <1>1, <1>2, WriteTypes DEF TypeOK
<1>4. /\ at' = [at EXCEPT ![c] = "auth"]
      /\ id' = [id EXCEPT ![c] = NextId(c)] /\ NextId(c) \in 1..MaxId
      /\ server' = [server EXCEPT ![c] = IF server[c] = "closed" THEN server[c] ELSE "auth"]
  BY <1>1, <1>2, WriteTypes
<1>5. CallInv(c)'
  <2>1. /\ at'[c] = "auth" /\ id'[c] \in 1..MaxId
        /\ server'[c] \in {"auth", "closed"}
    BY <1>1, <1>4 DEF TypeOK
  <2>2. wire'[c] = <<>> /\ output'[c] = <<>>
    BY <1>1, <1>2 DEF CallInv
  <2>3. Elems(wire'[c]) = {}
    BY <2>2, EmptySeq DEF Elems
  <2> QED
    BY <2>1, <2>2, <2>3 DEF CallInv, Stages
<1>6. ASSUME NEW d \in Calls \ {c}
      PROVE  CallInv(d)'
  BY <1>1, <1>2, <1>4, Untouched DEF CallsInv, TypeOK
<1> QED
  BY <1>3, <1>5, <1>6 DEF CallsInv

\* Packets to be written are counted.
LEMMA UnwrittenIsFinite ==
  /\ IsFiniteSet(Unwritten) /\ Cardinality(Unwritten) \in Nat
  /\ IsFiniteSet(Calls \X Stages) /\ Cardinality(Calls \X Stages) = 2 * Cardinality(Calls)
  /\ Cardinality(Calls) \in Nat
<1>1. IsFiniteSet(Stages) /\ Cardinality(Stages) = 2
  <2>1. IsFiniteSet({"auth"}) /\ Cardinality({"auth"}) = 1
    BY FS_Singleton
  <2>2. Stages = {"auth"} \cup {"command"} /\ "command" \notin {"auth"}
    BY DEF Stages
  <2> QED
    BY <2>1, <2>2, FS_AddElement
<1>2. IsFiniteSet(Calls) /\ Cardinality(Calls) \in Nat
  BY RconAssumption, FS_CardinalityType
<1>3. /\ IsFiniteSet(Calls \X Stages)
      /\ Cardinality(Calls \X Stages) = Cardinality(Calls) * 2
  BY <1>1, <1>2, FS_Product
<1>4. Unwritten \subseteq Calls \X Stages
  BY DEF Unwritten
<1> QED
  BY <1>2, <1>3, <1>4, FS_Subset, FS_CardinalityType

\* The id of a command is not that of its call's authentication.
LEMMA NewIdIsNew ==
  ASSUME TypeOK, IdsLast, NEW c \in Calls, at[c] = "auth"
  PROVE  NextId(c) # id[c]
<1>1. <<c, "command">> \in Unwritten
  BY DEF Unwritten, Stages
<1>2. Cardinality(Unwritten) \in Nat \ {0}
  BY <1>1, UnwrittenIsFinite, FS_EmptySet
<1>3. Cardinality(Unwritten) <= Distance(NextId(c), id[c])
  BY DEF IdsLast
<1>4. NextId(c) \in 1..MaxId /\ id[c] \in 0..MaxId /\ MaxId \in Nat
  BY IdTypes, CallTypes DEF NextId
<1> QED
  BY <1>2, <1>3, <1>4 DEF Distance

\* A call reads the reply to its authentication and sends its command.  Whatever is
\* left on the wire bears the old id, or none.
LEMMA ReadReplyStep ==
  ASSUME CallsInv, IdsLast, NEW c \in Calls, ReadReply(c)
  PROVE  CallsInv'
<1>1. /\ TypeOK /\ CallInv(c)
      /\ at[c] = "auth" /\ wire[c] # <<>>
  BY DEF CallsInv, ReadReply, Reads
<1>2. CASE Incoming(c).id = id[c]
  <2>1. /\ Write(c, "command") /\ "command" \in Stages
        /\ wire' = [wire EXCEPT ![c] = Tail(wire[c])]
        /\ UNCHANGED <<output, accepted, apiUp>>
    BY <1>2 DEF ReadReply, Stages
  <2>2. /\ Tail(wire[c]) \in Seq(Packet)
        /\ Elems(Tail(wire[c])) \subseteq Elems(wire[c])
    BY <1>1, CallTypes, FirstAndRest
  <2>3. wire' \in [Calls -> Seq(Packet)] /\ wire'[c] = Tail(wire[c])
    BY <1>1, <2>1, <2>2 DEF TypeOK
  <2>4. TypeOK'
    BY <1>1, <2>1, <2>3, WriteTypes DEF TypeOK
  <2>5. /\ at' = [at EXCEPT ![c] = "command"]
        /\ id' = [id EXCEPT ![c] = NextId(c)] /\ NextId(c) \in 1..MaxId
        /\ server' = [server EXCEPT ![c] = IF server[c] = "closed" THEN server[c] ELSE "command"]
    BY <1>1, <2>1, WriteTypes
  <2>6. CallInv(c)'
    <3>1. /\ at'[c] = "command" /\ id'[c] = NextId(c)
          /\ server'[c] \in {"command", "closed"}
      BY <1>1, <2>5 DEF TypeOK
    <3>2. NextId(c) # id[c] /\ NextId(c) # AuthFailureId /\ NextId(c) # Unasked
      BY <1>1, <2>5, NewIdIsNew DEF AuthFailureId, Unasked
    <3>3. \A p \in Elems(wire'[c]) : p.id # id'[c]
      BY <1>1, <2>2, <2>3, <3>1, <3>2 DEF CallInv
    <3>4. output'[c] = <<>> /\ Elems(output'[c]) = {}
      BY <1>1, <2>1, EmptySeq DEF CallInv, Elems
    <3> QED
      BY <2>5, <3>1, <3>3, <3>4 DEF CallInv, Own, Stages
  <2>7. ASSUME NEW d \in Calls \ {c}
        PROVE  CallInv(d)'
    BY <1>1, <2>1, <2>5, Untouched DEF CallsInv, TypeOK
  <2> QED
    BY <2>4, <2>6, <2>7 DEF CallsInv
<1>3. CASE Incoming(c).id # id[c]
  BY <1>3, FailStep DEF ReadReply, CallsInv, TypeOK
<1> QED
  BY <1>2, <1>3

\* What a call in its last stage reads under its own id is a part of its answer.
LEMMA IncomingIsOwn ==
  ASSUME CallsInv, NEW c \in Calls, Reads(c, "command"), Incoming(c).id = id[c]
  PROVE  Incoming(c).what = "part" /\ c \in accepted
<1>1. at[c] = "command" /\ wire[c] # <<>> /\ CallInv(c) /\ TypeOK
  BY DEF CallsInv, Reads
<1>2. Incoming(c) \in Elems(wire[c])
  BY <1>1, CallTypes, FirstAndRest DEF Incoming
<1> QED
  BY <1>1, <1>2 DEF CallInv

\* A call of the API takes the first packet.
LEMMA ReadAnswerStep ==
  ASSUME CallsInv, NEW c \in Calls, ReadAnswer(c)
  PROVE  CallsInv'
<1>1. CASE Incoming(c).id = id[c]
  <2>1. Answered(c, <<"part">>) /\ c \in accepted
    BY <1>1, IncomingIsOwn DEF ReadAnswer
  <2>2. /\ <<"part">> \in Seq({"reply", "part", "other"}) /\ <<"part">> # <<>>
        /\ Elems(<<"part">>) \subseteq {"part"}
    BY EmptySeq DEF Elems
  <2> QED
    BY <2>1, <2>2, AnsweredStep
<1>2. CASE Incoming(c).id # id[c]
  BY <1>2, FailStep DEF ReadAnswer, CallsInv, TypeOK
<1> QED
  BY <1>1, <1>2

\* A call of the agent takes, gathers or passes over a packet.
LEMMA GatherStep ==
  ASSUME CallsInv, NEW c \in Calls, Gather(c)
  PROVE  CallsInv'
<1> DEFINE gathered == IF Incoming(c).id = id[c] THEN Append(output[c], Incoming(c).what) ELSE output[c]
<1>1. /\ TypeOK /\ CallInv(c) /\ Reads(c, "command")
      /\ at[c] = "command" /\ wire[c] # <<>>
  BY DEF CallsInv, Gather, Reads
<1>2. /\ gathered \in Seq({"reply", "part", "other"})
      /\ Elems(gathered) \subseteq {"part"}
      /\ gathered # <<>> => c \in accepted
      /\ Incoming(c).id = id[c] => gathered # <<>>
  <2>1. /\ output[c] \in Seq({"reply", "part", "other"})
        /\ Elems(output[c]) \subseteq {"part"} /\ (output[c] # <<>> => c \in accepted)
    BY <1>1, CallTypes DEF CallInv, Own
  <2>2. CASE Incoming(c).id = id[c]
    <3>1. Incoming(c).what = "part" /\ c \in accepted
      BY <1>1, <2>2, IncomingIsOwn
    <3>2. /\ Append(output[c], "part") \in Seq({"reply", "part", "other"})
          /\ Append(output[c], "part") # <<>>
          /\ Elems(Append(output[c], "part")) = Elems(output[c]) \cup {"part"}
      BY <2>1, ElemsOfAppended
    <3> QED
      BY <2>1, <2>2, <3>1, <3>2
  <2>3. CASE Incoming(c).id # id[c]
    BY <2>1, <2>3
  <2> QED
    BY <2>2, <2>3
<1> HIDE DEF gathered
<1>3. CASE Incoming(c).id = AuthFailureId /\ Fail({c}) /\ UNCHANGED apiUp
  BY <1>3, FailStep DEF CallsInv, TypeOK
<1>4. CASE Incoming(c).id = id[c] /\ Answered(c, gathered)
  BY <1>2, <1>4, AnsweredStep
<1>5. CASE /\ wire' = [wire EXCEPT ![c] = Tail(wire[c])]
           /\ output' = [output EXCEPT ![c] = gathered]
           /\ UNCHANGED <<at, id, nextApi, nextAgent, server, accepted, apiUp>>
  <2>1. /\ Tail(wire[c]) \in Seq(Packet)
        /\ Elems(Tail(wire[c])) \subseteq Elems(wire[c])
    BY <1>1, CallTypes, FirstAndRest
  <2>2. /\ wire' \in [Calls -> Seq(Packet)] /\ wire'[c] = Tail(wire[c])
        /\ output' \in [Calls -> Seq({"reply", "part", "other"})] /\ output'[c] = gathered
    BY <1>1, <1>2, <1>5, <2>1 DEF TypeOK
  <2>3. TypeOK'
    BY <1>1, <1>5, <2>2 DEF TypeOK
  <2>4. CallInv(c)'
    BY <1>1, <1>2, <1>5, <2>1, <2>2 DEF CallInv, Own, Stages
  <2>5. ASSUME NEW d \in Calls \ {c}
        PROVE  CallInv(d)'
    BY <1>1, <1>5, Untouched DEF CallsInv, TypeOK
  <2> QED
    BY <2>3, <2>4, <2>5 DEF CallsInv
<1> QED
  BY <1>3, <1>4, <1>5 DEF Gather, gathered

\* A call of the agent ends with what it has gathered.
LEMMA ReadEndStep ==
  ASSUME CallsInv, NEW c \in Calls, ReadEnd(c)
  PROVE  CallsInv'
<1>1. CASE output[c] # <<>> /\ Answered(c, output[c])
  <2>1. TypeOK /\ CallInv(c) /\ at[c] \in {"auth", "command"}
    BY DEF CallsInv, ReadEnd
  <2>2. Own(c)
    BY <1>1, <2>1 DEF CallInv
  <2> QED
    BY <1>1, <2>1, <2>2, CallTypes, AnsweredStep DEF Own
<1>2. CASE Fail({c}) /\ UNCHANGED apiUp
  BY <1>2, FailStep DEF CallsInv, TypeOK
<1> QED
  BY <1>1, <1>2 DEF ReadEnd

\* A size out of range.
LEMMA BadSizeStep ==
  ASSUME CallsInv, NEW c \in Calls, BadSize(c)
  PROVE  CallsInv'
<1>1. CASE Fail({c}) /\ UNCHANGED apiUp
  BY <1>1, FailStep DEF CallsInv, TypeOK
<1>2. CASE Fail({d \in ApiCalls : InProgress(d)}) /\ apiUp' = FALSE
  BY <1>2, FailStep DEF Calls
<1> QED
  BY <1>1, <1>2 DEF BadSize

\* What the game server sends to a call, by the stage of the call.
LEMMA SendsStep ==
  ASSUME CallsInv, NEW c \in Calls, NEW packets \in Seq(Packet),
         at[c] \in Stages, Sends(c, packets),
         server'[c] \in {"idle", "closed"},
         server' = [server EXCEPT ![c] = server'[c]],
         accepted \subseteq accepted', accepted' \subseteq accepted \cup {c},
         at[c] = "auth" =>
           \A p \in Elems(packets) : p.id \in {id[c], AuthFailureId, Unasked},
         at[c] = "command" =>
           \A p \in Elems(packets) : p.id = id[c] => p.what = "part" /\ c \in accepted,
         UNCHANGED <<client, apiUp>>
  PROVE  CallsInv'
<1>1. TypeOK /\ CallInv(c) /\ UNCHANGED <<at, id, nextApi, nextAgent, output, apiUp>>
  BY DEF CallsInv, client
<1>2. /\ wire' = [wire EXCEPT ![c] = wire[c] \o packets]
      /\ wire' \in [Calls -> Seq(Packet)]
  BY <1>1, SendsTypes
<1>3. wire'[c] = wire[c] \o packets /\ Elems(wire'[c]) = Elems(wire[c]) \cup Elems(packets)
  <2>1. wire[c] \in Seq(Packet)
    BY <1>1, CallTypes
  <2> QED
    BY <1>1, <1>2, <2>1, ElemsOf DEF TypeOK
<1>4. TypeOK'
  BY <1>1, <1>2 DEF TypeOK
<1>5. CallInv(c)'
  <2>1. at'[c] = at[c] /\ id'[c] = id[c] /\ output'[c] = output[c] /\ server'[c] \notin Stages
    BY <1>1 DEF Stages
  <2>2. CASE at[c] = "auth"
    BY <1>1, <1>3, <2>1, <2>2 DEF CallInv, Stages
  <2>3. CASE at[c] = "command"
    BY <1>1, <1>3, <2>1, <2>3 DEF CallInv, Stages, Own
  <2> QED
    BY <2>2, <2>3 DEF Stages
<1>6. ASSUME NEW d \in Calls \ {c}
      PROVE  CallInv(d)'
  <2>1. /\ wire'[d] = wire[d] /\ server'[d] = server[d]
        /\ d \in accepted <=> d \in accepted'
    BY <1>1, <1>2 DEF TypeOK
  <2> QED
    BY <1>1, <2>1, Untouched DEF CallsInv
<1> QED
  BY <1>4, <1>5, <1>6 DEF CallsInv

\* The packets the game server makes.
LEMMA UsualPacket ==
  ASSUME NEW i \in AuthFailureId..MaxId, NEW what \in {"reply", "part", "other"}
  PROVE  /\ Usual(i, what) \in Packet
         /\ Usual(i, what).id = i /\ Usual(i, what).what = what
BY DEF Usual, Packet

\* A sequence of one.
LEMMA ElemsOfOne ==
  ASSUME NEW S, NEW e \in S
  PROVE  <<e>> \in Seq(S) /\ Elems(<<e>>) = {e}
BY DEF Elems

\* A packet, after another one or by itself.
LEMMA ElemsOfShort ==
  ASSUME NEW S, NEW s \in Seq(S), NEW e \in S, NEW before \in {<<>>, <<e>>}
  PROVE  /\ before \o s \in Seq(S)
         /\ Elems(before \o s) \subseteq {e} \cup Elems(s)
<1>1. <<>> \in Seq(S) /\ Elems(<<>>) = {}
  BY DEF Elems
<1>2. before \in Seq(S) /\ Elems(before) \subseteq {e}
  <2>1. CASE before = <<>>
    BY <1>1, <2>1
  <2>2. CASE before = <<e>>
    BY <2>2, ElemsOfOne
  <2> QED
    BY <2>1, <2>2
<1> QED
  BY <1>2, ElemsOf

\* The reply to an authentication bears its id, and the call is still waiting for it.
LEMMA ServerRepliesStep ==
  ASSUME CallsInv, NEW c \in Calls, ServerReplies(c)
  PROVE  CallsInv'
<1>1. /\ TypeOK /\ CallInv(c)
      /\ server[c] = "auth" /\ at[c] = "auth"
  BY DEF CallsInv, ServerReplies, CallInv, Stages
<1>2. PICK ok \in BOOLEAN, before \in {<<>>, <<Usual(id[c], "reply")>>} :
        /\ accepted' = IF ok THEN accepted \cup {c} ELSE accepted
        /\ Sends(c, before \o <<Usual(IF ok THEN id[c] ELSE AuthFailureId, "reply")>>)
  BY DEF ServerReplies
<1> DEFINE e == Usual(id[c], "reply")
           f == Usual(IF ok THEN id[c] ELSE AuthFailureId, "reply")
<1>3. /\ e \in Packet /\ f \in Packet
      /\ e.id = id[c] /\ f.id \in {id[c], AuthFailureId}
  <2>1. MaxId \in Nat /\ id[c] \in AuthFailureId..MaxId /\ AuthFailureId \in AuthFailureId..MaxId
    BY <1>1, CallTypes, RconAssumption DEF AuthFailureId
  <2>2. (IF ok THEN id[c] ELSE AuthFailureId) \in AuthFailureId..MaxId
    BY <2>1
  <2> QED
    BY <2>1, <2>2, UsualPacket
<1> HIDE DEF e, f
<1>4. /\ before \o <<f>> \in Seq(Packet)
      /\ Elems(before \o <<f>>) \subseteq {e, f}
  <2>1. before \in {<<>>, <<e>>}
    BY <1>2 DEF e
  <2>2. <<f>> \in Seq(Packet) /\ Elems(<<f>>) = {f}
    BY <1>3, ElemsOfOne
  <2> QED
    BY <1>3, <2>1, <2>2, ElemsOfShort
<1>5. \A p \in Elems(before \o <<f>>) : p.id \in {id[c], AuthFailureId, Unasked}
  BY <1>3, <1>4
<1>6. /\ server' = [server EXCEPT ![c] = "idle"] /\ server'[c] = "idle"
      /\ UNCHANGED <<client, apiUp>>
  BY <1>1 DEF ServerReplies, TypeOK
<1>7. Sends(c, before \o <<f>>)
  BY <1>2 DEF f
<1>8. at[c] \in Stages /\ at[c] # "command"
  BY <1>1 DEF Stages
<1> QED
  BY <1>1, <1>2, <1>4, <1>5, <1>6, <1>7, <1>8, SendsStep

\* What bears the id of a command is a part of its answer.
LEMMA ServerAnswersStep ==
  ASSUME CallsInv, NEW c \in Calls, ServerAnswers(c)
  PROVE  CallsInv'
<1>1. /\ TypeOK /\ CallInv(c)
      /\ server[c] = "command" /\ at[c] = "command"
  BY DEF CallsInv, ServerAnswers, CallInv, Stages
<1>2. PICK usual \in BOOLEAN, n \in 1..2, before \in {<<>>, <<Usual(Unasked, "other")>>} :
        Sends(c, before \o IF c \in accepted
                           THEN [i \in 1..n |-> [Usual(id[c], "part") EXCEPT !.usual = usual]]
                           ELSE <<Usual(AuthFailureId, "other")>>)
  BY DEF ServerAnswers
<1> DEFINE e == Usual(Unasked, "other")
           f == Usual(AuthFailureId, "other")
           part == [Usual(id[c], "part") EXCEPT !.usual = usual]
           parts == [i \in 1..n |-> part]
           last == IF c \in accepted THEN parts ELSE <<f>>
<1>3. MaxId \in Nat /\ id[c] \in AuthFailureId..MaxId /\ id[c] \in 1..MaxId
  BY <1>1, CallTypes, RconAssumption DEF AuthFailureId, CallInv, Stages
<1>4. /\ e \in Packet /\ f \in Packet /\ part \in Packet
      /\ e.id # id[c] /\ f.id # id[c] /\ part.what = "part"
  <2>1. Unasked \in AuthFailureId..MaxId /\ AuthFailureId \in AuthFailureId..MaxId
    BY <1>3 DEF AuthFailureId, Unasked
  <2>2. e \in Packet /\ f \in Packet /\ e.id = Unasked /\ f.id = AuthFailureId
    BY <2>1, UsualPacket
  <2>3. part \in Packet /\ part.what = "part"
    BY <1>3 DEF Usual, Packet
  <2> QED
    BY <1>3, <2>2, <2>3 DEF AuthFailureId, Unasked
<1>5. /\ last \in Seq(Packet)
      /\ Elems(last) \subseteq IF c \in accepted THEN {part} ELSE {f}
  <2> HIDE DEF part, f
  <2>1. parts \in Seq(Packet) /\ Elems(parts) \subseteq {part}
    BY <1>4 DEF Elems
  <2>2. <<f>> \in Seq(Packet) /\ Elems(<<f>>) = {f}
    BY <1>4, ElemsOfOne
  <2> QED
    BY <2>1, <2>2
<1>6. Sends(c, before \o last) /\ before \in {<<>>, <<e>>}
  BY <1>2
<1> HIDE DEF e, f, part, parts, last
<1>7. before \o last \in Seq(Packet) /\ Elems(before \o last) \subseteq {e} \cup Elems(last)
  BY <1>4, <1>5, <1>6, ElemsOfShort
<1>8. \A p \in Elems(before \o last) : p.id = id[c] => p.what = "part" /\ c \in accepted
  BY <1>4, <1>5, <1>7
<1>9. /\ server' = [server EXCEPT ![c] = "idle"] /\ server'[c] = "idle"
      /\ UNCHANGED <<client, accepted, apiUp>>
  BY <1>1 DEF ServerAnswers, TypeOK
<1>10. at[c] \in Stages /\ at[c] # "auth"
  BY <1>1 DEF Stages
<1> QED
  BY <1>1, <1>6, <1>7, <1>8, <1>9, <1>10, SendsStep

\* What is no packet bears the id of none.
LEMMA ServerBabblesStep ==
  ASSUME CallsInv, NEW c \in Calls, ServerBabbles(c)
  PROVE  CallsInv'
<1> DEFINE e == [Usual(Unasked, "other") EXCEPT !.bad = TRUE]
<1>1. /\ TypeOK /\ CallInv(c) /\ at[c] \in Stages
      /\ Sends(c, <<e>>)
  BY DEF CallsInv, ServerBabbles, CallInv, Stages
<1>2. id[c] \in 1..MaxId /\ MaxId \in Nat
  BY <1>1, RconAssumption DEF CallInv
<1>3. e \in Packet /\ e.id = Unasked /\ e.id # id[c]
  <2>1. Unasked \in AuthFailureId..MaxId /\ Unasked # id[c]
    BY <1>2 DEF Unasked, AuthFailureId
  <2>2. Usual(Unasked, "other") \in Packet /\ Usual(Unasked, "other").id = Unasked
    BY <2>1, UsualPacket
  <2>3. e \in Packet /\ e.id = Unasked
    BY <2>2 DEF Packet
  <2> QED
    BY <2>1, <2>3
<1> HIDE DEF e
<1>4. <<e>> \in Seq(Packet) /\ Elems(<<e>>) = {e}
  BY <1>3, ElemsOfOne
<1>5. /\ server' = [server EXCEPT ![c] = "closed"] /\ server'[c] = "closed"
      /\ UNCHANGED <<client, accepted, apiUp>>
  BY <1>1 DEF ServerBabbles, TypeOK
<1> QED
  BY <1>1, <1>3, <1>4, <1>5, SendsStep

\* The connection ends.
LEMMA ServerClosesStep ==
  ASSUME CallsInv, NEW c \in Calls, ServerCloses(c)
  PROVE  CallsInv'
<1>1. TypeOK /\ UNCHANGED <<at, id, nextApi, nextAgent, output, accepted, wire, apiUp>>
  BY DEF CallsInv, ServerCloses, client
<1>2. TypeOK'
  BY <1>1 DEF TypeOK, ServerCloses
<1>3. ASSUME NEW d \in Calls
      PROVE  CallInv(d)'
  <2>1. server'[d] = server[d] \/ server'[d] = "closed"
    BY <1>1 DEF TypeOK, ServerCloses
  <2>2. CallInv(d)
    BY DEF CallsInv
  <2> QED
    BY <1>1, <2>1, <2>2 DEF CallInv, Own, Stages
<1> QED
  BY <1>2, <1>3 DEF CallsInv

-----------------------------------------------------------------------------
(* The request ids *)

\* A call of one client gets the next id, or no id is given away and no call
\* enters its authentication.
Allocates(c, s) ==
  /\ at[c] = (IF s = "auth" THEN "dialling" ELSE "auth")
  /\ Write(c, s)

KeepsIds ==
  /\ UNCHANGED <<nextApi, nextAgent>>
  /\ \A c \in Calls :
       /\ at'[c] = "auth" => at[c] = "auth" /\ id'[c] = id[c]
       /\ at'[c] \in {"none", "dialling"} => at[c] \in {"none", "dialling"}

\* A step gives no id away, or one to the packet that it writes.
LEMMA IdMoves ==
  ASSUME TypeOK, [Next]_vars
  PROVE  (\E c \in Calls, s \in Stages : Allocates(c, s)) \/ KeepsIds
<1>1. ASSUME NEW c \in Calls, Authenticate(c)
      PROVE  Allocates(c, "auth")
  BY <1>1 DEF Authenticate, Allocates
<1>2. ASSUME NEW S, NEW how \in Ended, Closed(S, how)
      PROVE  KeepsIds
  BY <1>2 DEF KeepsIds, Closed, Ended
<1>3. ASSUME NEW c \in Calls, ReadReply(c)
      PROVE  Allocates(c, "command") \/ KeepsIds
  BY <1>2, <1>3 DEF ReadReply, Reads, Allocates, Fail, Ended
<1>4. ASSUME NEW c \in Calls, ReadAnswer(c) \/ BadSize(c) \/ ReadEnd(c) \/ Fails(c)
      PROVE  KeepsIds
  BY <1>2, <1>4 DEF ReadAnswer, BadSize, ReadEnd, Fails, Fail, Answered, Ended
<1>5. ASSUME NEW c \in Calls, Gather(c)
      PROVE  KeepsIds
  <2>1. (\E how \in Ended : Closed({c}, how)) \/ UNCHANGED <<at, id, nextApi, nextAgent>>
    BY <1>5 DEF Gather, Fail, Answered, Ended
  <2> QED
    BY <1>2, <2>1 DEF KeepsIds
<1>6. ASSUME NEW c \in Calls, Dial(c)
      PROVE  KeepsIds
  BY <1>6 DEF Dial, KeepsIds, TypeOK
<1>7. ASSUME UNCHANGED <<at, id, nextApi, nextAgent>>
      PROVE  KeepsIds
  BY <1>7 DEF KeepsIds
<1> QED
  BY <1>1, <1>3, <1>4, <1>5, <1>6, <1>7
     DEF Next, vars, client, ServerReplies, ServerAnswers, ServerBabbles, ServerCloses, Stages

\* One id is given away.  What follows is one nearer to every id in use.
LEMMA NextIsNearer ==
  ASSUME TypeOK, NEW c \in Calls, NEW s \in Stages, Write(c, s), NEW d \in Calls,
         NEW i \in 1..MaxId, i # NextId(d)
  PROVE  Distance(NextId(d)', i) >= Distance(NextId(d), i) - 1
<1>1. MaxId \in Nat /\ nextApi \in 1..MaxId + 1 /\ nextAgent \in 1..MaxId
  BY RconAssumption DEF TypeOK
<1>2. CASE c \in ApiCalls /\ d \in ApiCalls
  BY <1>1, <1>2 DEF Write, NextId, ApiId, Distance
<1>3. CASE c \notin ApiCalls /\ d \notin ApiCalls
  BY <1>1, <1>3 DEF Write, NextId, AgentId, Distance
<1>4. CASE (c \in ApiCalls) # (d \in ApiCalls)
  BY <1>1, <1>4 DEF Write, NextId, ApiId, AgentId, Distance
<1> QED
  BY <1>2, <1>3, <1>4

\* An id just given away is the last to come again.
LEMMA NewIsFarthest ==
  ASSUME TypeOK, NEW c \in Calls, NEW s \in Stages, Write(c, s)
  PROVE  Distance(NextId(c)', NextId(c)) = MaxId - 1
<1>1. MaxId \in Nat /\ nextApi \in 1..MaxId + 1 /\ nextAgent \in 1..MaxId
  BY RconAssumption DEF TypeOK
<1>2. CASE c \in ApiCalls
  BY <1>1, <1>2 DEF Write, NextId, ApiId, Distance
<1>3. CASE c \notin ApiCalls
  BY <1>1, <1>3 DEF Write, NextId, AgentId, Distance
<1> QED
  BY <1>2, <1>3

\* Every packet that is written is one less to write.
LEMMA OneLessUnwritten ==
  ASSUME TypeOK, NEW c \in Calls, NEW s \in Stages, Allocates(c, s)
  PROVE  /\ Cardinality(Unwritten') \in Nat
         /\ Cardinality(Unwritten') <= Cardinality(Unwritten) - 1
<1>1. at' = [at EXCEPT ![c] = s]
  BY WriteTypes DEF Allocates
<1>2. <<c, s>> \in Unwritten
  BY DEF Unwritten, Allocates, Stages
<1>3. Unwritten' \subseteq Unwritten \ {<<c, s>>}
  BY <1>1 DEF Unwritten, Allocates, Stages, TypeOK
<1>4. /\ IsFiniteSet(Unwritten \ {<<c, s>>})
      /\ Cardinality(Unwritten \ {<<c, s>>}) = Cardinality(Unwritten) - 1
  BY <1>2, UnwrittenIsFinite, FS_RemoveElement
<1> QED
  BY <1>3, <1>4, FS_Subset, FS_CardinalityType

\* The ids last: before the id of an authentication comes again, every packet that is
\* still to be written has one.
LEMMA IdsLastStep == TypeOK /\ IdsLast /\ (\A c \in Calls : CallInv(c)) /\ [Next]_vars => IdsLast'
<1> SUFFICES ASSUME TypeOK, IdsLast, \A c \in Calls : CallInv(c), [Next]_vars,
                    NEW d \in Calls, at'[d] = "auth"
             PROVE  Cardinality(Unwritten') <= Distance(NextId(d)', id'[d])
  BY DEF IdsLast
<1>1. /\ MaxId \in Nat /\ NextId(d) \in 1..MaxId
      /\ Cardinality(Unwritten) \in Nat
      /\ MaxId >= 2 * Cardinality(Calls) /\ Cardinality(Calls) \in Nat
  BY RconAssumption, IdTypes, UnwrittenIsFinite DEF NextId
<1>2. CASE KeepsIds
  <2>1. at[d] = "auth" /\ id'[d] = id[d] /\ NextId(d)' = NextId(d)
    BY <1>2 DEF KeepsIds, NextId, ApiId, AgentId
  <2>2. Unwritten' \subseteq Unwritten
    BY <1>2 DEF KeepsIds, Unwritten
  <2>3. Cardinality(Unwritten') <= Cardinality(Unwritten) /\ Cardinality(Unwritten') \in Nat
    BY <2>2, UnwrittenIsFinite, FS_Subset, FS_CardinalityType
  <2>4. Cardinality(Unwritten) <= Distance(NextId(d), id[d])
    BY <2>1 DEF IdsLast
  <2>5. Distance(NextId(d), id[d]) \in Int
    BY <1>1, <2>1, CallTypes DEF Distance
  <2> QED
    BY <1>1, <2>1, <2>3, <2>4, <2>5
<1>3. ASSUME NEW c \in Calls, NEW s \in Stages, Allocates(c, s)
      PROVE  Cardinality(Unwritten') <= Distance(NextId(d)', id'[d])
  <2>1. /\ at' = [at EXCEPT ![c] = s] /\ id' = [id EXCEPT ![c] = NextId(c)]
        /\ NextId(c) \in 1..MaxId /\ Write(c, s)
    BY <1>3, WriteTypes DEF Allocates
  <2>2. /\ Cardinality(Unwritten') \in Nat
        /\ Cardinality(Unwritten') <= Cardinality(Unwritten) - 1
    BY <1>3, OneLessUnwritten
  <2>3. CASE d = c
    <3>1. id'[d] = NextId(c)
      BY <2>1, <2>3 DEF TypeOK
    <3>2. Distance(NextId(d)', id'[d]) = MaxId - 1
      BY <2>1, <2>3, <3>1, NewIsFarthest
    <3>3. Cardinality(Unwritten) <= 2 * Cardinality(Calls)
      <4>1. Unwritten \subseteq Calls \X Stages
        BY DEF Unwritten
      <4> QED
        BY <4>1, UnwrittenIsFinite, FS_Subset
    <3> QED
      BY <1>1, <2>2, <3>2, <3>3
  <2>4. CASE d # c
    <3>1. at[d] = "auth" /\ id'[d] = id[d]
      BY <2>1, <2>4 DEF TypeOK
    <3>2. id[d] \in 1..MaxId
      BY <3>1 DEF CallInv, Stages
    <3>3. Cardinality(Unwritten) <= Distance(NextId(d), id[d])
      BY <3>1 DEF IdsLast
    <3>4. id[d] # NextId(d)
      BY <3>1, NewIdIsNew
    <3>5. Distance(NextId(d)', id[d]) >= Distance(NextId(d), id[d]) - 1
      BY <2>1, <3>2, <3>4, NextIsNearer
    <3>6. NextId(d)' \in 1..MaxId
      BY <1>1, <2>1, WriteTypes, NextIdTypes
    <3>7. Distance(NextId(d)', id[d]) \in Int /\ Distance(NextId(d), id[d]) \in Int
      BY <1>1, <3>2, <3>6 DEF Distance
    <3> QED
      BY <1>1, <2>2, <3>1, <3>3, <3>5, <3>7
  <2> QED
    BY <2>3, <2>4
<1> QED
  BY <1>2, <1>3, IdMoves

-----------------------------------------------------------------------------
(* Rcon: theorems *)

\* The initial states satisfy the invariant.
LEMMA InitIInv == Init => IInv
<1> SUFFICES ASSUME Init PROVE IInv
  OBVIOUS
<1>1. /\ at = [c \in Calls |-> "none"] /\ id = [c \in Calls |-> 0]
      /\ nextApi \in First /\ nextAgent \in First
      /\ server = [c \in Calls |-> "idle"] /\ accepted = {}
      /\ wire = [c \in Calls |-> <<>>] /\ output = [c \in Calls |-> <<>>]
      /\ apiUp = TRUE
  BY DEF Init
<1>2. TypeOK
  <2>1. First \subseteq 1..MaxId /\ MaxId \in Nat
    BY RconAssumption
  <2>2. <<>> \in Seq(Packet) /\ <<>> \in Seq({"reply", "part", "other"})
    BY EmptySeq
  <2> QED
    BY <1>1, <2>1, <2>2 DEF TypeOK
<1>3. IdsLast /\ \A c \in Calls : CallInv(c)
  BY <1>1 DEF IdsLast, CallInv, Stages
<1> QED
  BY <1>2, <1>3 DEF IInv

\* Every step keeps the invariant.
LEMMA StepIInv == IInv /\ [Next]_vars => IInv'
<1> SUFFICES ASSUME IInv, [Next]_vars PROVE IInv'
  OBVIOUS
<1>1. CallsInv /\ IdsLast
  BY DEF IInv, CallsInv
<1>2. IdsLast'
  BY <1>1, IdsLastStep DEF CallsInv
<1>3. CallsInv'
  <2>1. CASE UNCHANGED vars
    BY <1>1, <2>1 DEF CallsInv, CallInv, Own, TypeOK, vars, client
  <2>2. ASSUME NEW c \in Calls, Fails(c)
        PROVE  CallsInv'
    BY <1>1, <2>2, FailStep DEF Fails, CallsInv, TypeOK
  <2> QED
    BY <1>1, <2>1, <2>2, DialStep, AuthenticateStep, ReadReplyStep, ReadAnswerStep,
       GatherStep, BadSizeStep, ReadEndStep, ServerRepliesStep, ServerAnswersStep,
       ServerBabblesStep, ServerClosesStep DEF Next
<1> QED
  BY <1>2, <1>3 DEF IInv, CallsInv

\* The invariant holds in every reachable state.
THEOREM RconInvariant == Spec => []IInv
BY InitIInv, StepIInv, PTL DEF Spec

\* The types hold in every reachable state.
THEOREM RconTypes == Spec => []TypeOK
<1>1. IInv => TypeOK
  BY DEF IInv
<1> QED
  BY <1>1, RconInvariant, PTL

\* Whatever calls overlap, from whatever ids on and with whatever packets in between, a
\* call that succeeds returns parts of the answer to its own command, on a connection
\* the game server had authenticated.
THEOREM AnswersAreOwn == Spec => []AnswerIsOwn
<1>1. IInv => AnswerIsOwn
  BY DEF IInv, CallInv, Own, AnswerIsOwn, Elems
<1> QED
  BY <1>1, RconInvariant, PTL

=============================================================================
