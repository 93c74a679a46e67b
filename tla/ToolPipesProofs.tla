-------------------------- MODULE ToolPipesProofs --------------------------
(***************************************************************************)
(* Theorems about ToolPipes, for every capacity of the pipes and every     *)
(* amount of input and output.                                             *)
(***************************************************************************)
EXTENDS ToolPipes, TLAPS

(***************************************************************************)
(* The inductive invariant: blocks are in a pipe or accounted for, and     *)
(* which ends are open follows from where the caller is.                   *)
(***************************************************************************)
Accounted == \A o \in Outputs : said[o] = collected[o] + pipe[o]
WithinInput == unwritten + stdin <= input
OpenWhileWriting == stdinOpen <=> at = "writing"
RoomToSay == \A o \in Outputs : tool = o => said[o] < MaxOutput
AfterTheEnd ==
  Returned => Exited /\ (\A o \in Outputs : pipe[o] = 0) /\ (at = "ok" <=> success)

PipesInv ==
  TypeOK /\ Accounted /\ WithinInput /\ OpenWhileWriting /\ RoomToSay /\ AfterTheEnd

USE CapacityAssumption, BoundsAssumption

LEMMA InitPipes == Init => PipesInv
<1> SUFFICES ASSUME Init PROVE PipesInv
  OBVIOUS
<1> USE DEF Init
<1>1. TypeOK
  <2>1. input \in 0 .. MaxInput /\ unwritten \in 0 .. input /\ stdin \in 0 .. Capacity
    BY SMT
  <2>2. stdinOpen \in BOOLEAN /\ sawEnd \in BOOLEAN /\ success \in BOOLEAN
        /\ daemon \in BOOLEAN /\ cut \in BOOLEAN
    BY Zenon
  <2>3. pipe \in [Outputs -> 0 .. Capacity] /\ said \in [Outputs -> 0 .. MaxOutput]
        /\ collected \in [Outputs -> 0 .. MaxOutput]
    BY SMT
  <2> QED
    BY <2>1, <2>2, <2>3, Zenon DEF TypeOK, ToolStates
<1>2. Accounted /\ WithinInput
  BY DEF Accounted, WithinInput
<1>3. OpenWhileWriting
  BY Zenon DEF OpenWhileWriting
<1>4. RoomToSay /\ AfterTheEnd
  BY DEF RoomToSay, AfterTheEnd, Returned, Outputs
<1> QED
  BY <1>1, <1>2, <1>3, <1>4 DEF PipesInv

\* The caller's steps preserve the invariant.
LEMMA CallerKeeps == PipesInv /\ Caller => PipesInv'
<1> SUFFICES ASSUME PipesInv, Caller PROVE PipesInv'
  OBVIOUS
<1> USE DEF PipesInv, TypeOK, Accounted, WithinInput, OpenWhileWriting, RoomToSay,
            AfterTheEnd, Outputs, ToolStates, Returned, Exited, toolVars
<1>1. CASE WriteInput
  BY <1>1 DEF WriteInput
<1>2. CASE CloseInput
  BY <1>2 DEF CloseInput
<1>3. CASE InputCut
  BY <1>3 DEF InputCut
<1>4. ASSUME NEW o \in Outputs, Collect(o) PROVE PipesInv'
  <2>1. pipe[o] \in 1 .. Capacity /\ collected[o] + 1 \in 0 .. MaxOutput
    BY <1>4 DEF Collect
  <2>2. pipe' = [pipe EXCEPT ![o] = pipe[o] - 1]
        /\ collected' = [collected EXCEPT ![o] = collected[o] + 1]
    BY <1>4 DEF Collect
  <2>3. pipe' \in [Outputs -> 0 .. Capacity] /\ collected' \in [Outputs -> 0 .. MaxOutput]
    BY <2>1, <2>2
  <2>4. Accounted'
    BY <1>4, <2>1, <2>2 DEF Collect
  <2> QED
    BY <1>4, <2>3, <2>4 DEF Collect
<1>5. CASE Finish
  BY <1>5 DEF Finish
<1> QED
  BY <1>1, <1>2, <1>3, <1>4, <1>5 DEF Caller

\* So do the tool's, whatever it does.
LEMMA ToolKeeps == PipesInv /\ (Tool \/ Kill \/ DaemonEnds) => PipesInv'
<1> SUFFICES ASSUME PipesInv, Tool \/ Kill \/ DaemonEnds PROVE PipesInv'
  OBVIOUS
<1> USE DEF PipesInv, TypeOK, Accounted, WithinInput, OpenWhileWriting, RoomToSay,
            AfterTheEnd, Outputs, ToolStates, Returned, Exited, callerVars
<1>1. CASE Enter
  <2>1. UNCHANGED <<input, callerVars, sawEnd, success, daemon, said, stdin, pipe>>
    BY <1>1 DEF Enter
  <2>2. tool' \in ToolStates /\ tool = "running" /\ tool' # "exited"
    BY <1>1 DEF Enter
  <2>3. ASSUME NEW o \in Outputs, tool' = o PROVE said[o] < MaxOutput
    BY <1>1, <2>3 DEF Enter
  <2>4. TypeOK'
    BY <2>1, <2>2
  <2>5. Accounted' /\ WithinInput' /\ OpenWhileWriting' /\ AfterTheEnd'
    BY <2>1, <2>2
  <2>6. RoomToSay'
    BY <2>1, <2>3
  <2> HIDE DEF TypeOK, Accounted, WithinInput, OpenWhileWriting, RoomToSay, AfterTheEnd
  <2> QED
    BY <2>4, <2>5, <2>6
<1>2. CASE Read
  <2>1. UNCHANGED <<input, callerVars, success, daemon, said, pipe>>
    BY <1>2 DEF Read
  <2>2. tool' = "running" /\ tool = "reading" /\ stdin' \in 0 .. stdin
    BY <1>2 DEF Read
  <2>3. sawEnd' \in BOOLEAN
    BY <1>2 DEF Read
  <2>4. TypeOK'
    BY <2>1, <2>2, <2>3
  <2>5. WithinInput'
    <3>1. CASE stdin > 0 /\ stdin' = stdin - 1
      BY <2>1, <3>1
    <3>2. CASE stdin' = stdin
      BY <2>1, <3>2
    <3> QED
      BY <1>2, <3>1, <3>2 DEF Read
  <2>6. Accounted' /\ OpenWhileWriting'
    BY <2>1
  <2>7. RoomToSay' /\ AfterTheEnd'
    BY <2>1, <2>2
  <2> HIDE DEF TypeOK, Accounted, WithinInput, OpenWhileWriting, RoomToSay, AfterTheEnd
  <2> QED
    BY <2>4, <2>5, <2>6, <2>7
<1>3. ASSUME NEW o \in Outputs, Write(o) PROVE PipesInv'
  <2>1. pipe[o] + 1 \in 0 .. Capacity /\ said[o] + 1 \in 0 .. MaxOutput
    BY <1>3 DEF Write
  <2>2. pipe' = [pipe EXCEPT ![o] = pipe[o] + 1] /\ said' = [said EXCEPT ![o] = said[o] + 1]
    BY <1>3 DEF Write
  <2>3. pipe' \in [Outputs -> 0 .. Capacity] /\ said' \in [Outputs -> 0 .. MaxOutput]
    BY <2>1, <2>2
  <2>4. Accounted'
    BY <1>3, <2>1, <2>2 DEF Write
  <2> QED
    BY <1>3, <2>3, <2>4 DEF Write
<1>4. CASE Exit
  BY <1>4 DEF Exit
<1>5. CASE Kill
  BY <1>5 DEF Kill
<1>6. CASE DaemonEnds
  BY <1>6 DEF DaemonEnds
<1> QED
  BY <1>1, <1>2, <1>3, <1>4, <1>5, <1>6 DEF Tool

\* The invariant of the three pipes holds throughout a call.
THEOREM PipesInductive == Spec => []PipesInv
<1>1. Init => PipesInv
  BY InitPipes
<1>2. PipesInv /\ [Next]_vars => PipesInv'
  <2>1. PipesInv /\ UNCHANGED vars => PipesInv'
    BY DEF PipesInv, TypeOK, Accounted, WithinInput, OpenWhileWriting, RoomToSay,
           AfterTheEnd, Outputs, Returned, Exited, vars, callerVars, toolVars
  <2> QED
    BY <2>1, CallerKeeps, ToolKeeps DEF Next
<1> QED
  BY <1>1, <1>2, PTL DEF Spec

\* Types: in particular no pipe ever holds more than its capacity.
THEOREM PipesTypes == Spec => []TypeOK
<1>1. PipesInv => TypeOK
  BY DEF PipesInv
<1> QED
  BY <1>1, PipesInductive, PTL

\* A call returns with all of the tool's output and with its status.
THEOREM WholeOutput == Spec => []OutputWhole
<1>1. PipesInv => OutputWhole
  BY DEF PipesInv, TypeOK, Accounted, AfterTheEnd, OutputWhole, Outputs
<1> QED
  BY <1>1, PipesInductive, PTL

\* Caller and tool deadlock only over a full stdin and a full output, so never
\* on input that fits into a pipe.
THEOREM NoJamWhenItFits == Spec => []JamNeedsBoth
<1>1. PipesInv => JamNeedsBoth
  <2> SUFFICES ASSUME PipesInv, CallerAsleep, ToolAsleep
               PROVE /\ input > Capacity
                     /\ \E o \in Outputs : said[o] >= Capacity /\ tool = o
    BY DEF JamNeedsBoth
  <2> USE DEF PipesInv, TypeOK, Accounted, WithinInput, OpenWhileWriting
  <2>1. at = "writing"
    <3>1. ASSUME at = "collecting", \A o \in Outputs : pipe[o] = 0 PROVE FALSE
      BY <3>1 DEF ToolAsleep, Outputs
    <3> QED
      BY <3>1 DEF CallerAsleep
  <2>2. unwritten > 0 /\ stdin = Capacity
    BY <2>1 DEF CallerAsleep
  <2>3. input > Capacity
    BY <2>2
  <2>4. PICK o \in Outputs : tool = o /\ pipe[o] = Capacity
    BY <2>2 DEF ToolAsleep
  <2>5. said[o] >= Capacity
    BY <2>4
  <2> QED
    BY <2>3, <2>4, <2>5
<1> QED
  BY <1>1, PipesInductive, PTL

=============================================================================
