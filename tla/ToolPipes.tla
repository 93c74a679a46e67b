----------------------------- MODULE ToolPipes -----------------------------
(***************************************************************************)
(* A blocking thread of the publisher and the tool it runs, connected by   *)
(* three pipes: import_private_key_sync and sign_file_with_gpg_home_sync   *)
(* (signing.rs) write the key or passphrase to the tool's stdin with       *)
(* write_all, drop their end, and only then wait_with_output reads stdout  *)
(* and stderr, both at once, until the tool has ended.  Commands run with  *)
(* output() are the case without input.  A pipe holds Capacity blocks; who *)
(* writes to a full one or reads from an empty one sleeps.                 *)
(*                                                                         *)
(* The tool is external: it makes any sequence of reads and writes, may    *)
(* exit at any time with any status, and may leave behind a daemon that    *)
(* keeps its outputs open.                                                 *)
(***************************************************************************)
EXTENDS Naturals

CONSTANTS
  Capacity,    \* how many blocks a pipe holds
  MaxInput,    \* bound: the blocks a caller writes to stdin
  MaxOutput    \* bound: the blocks a tool writes to each of its outputs

ASSUME CapacityAssumption == Capacity \in Nat \ {0}
ASSUME BoundsAssumption == MaxInput \in Nat /\ MaxOutput \in Nat

Outputs == {"stdout", "stderr"}

VARIABLES
  input,      \* the argument: how many blocks there are to write
  at,         \* the caller: "writing", "collecting", then its result "ok" or "err"
  unwritten,  \* the blocks of input that write_all has still to write
  stdin,      \* the blocks in the stdin pipe
  stdinOpen,  \* the caller has its end of it
  tool,       \* the tool's system call: see ToolStates
  sawEnd,     \* the tool has read the end of its input
  success,    \* its exit status
  daemon,     \* a process it left behind has its outputs open
  pipe,       \* the blocks in each output pipe
  said,       \* history: the blocks written to each output
  collected,  \* the blocks of each output that the caller has read
  cut         \* history: write_all returned an error

callerVars == <<at, unwritten, stdinOpen, collected, cut>>
toolVars == <<tool, sawEnd, success, daemon, said>>
vars == <<input, callerVars, toolVars, stdin, pipe>>

\* "running": between two system calls; "reading" stdin; "stdout", "stderr":
\* writing to it; "exited".
ToolStates == {"running", "reading", "exited"} \cup Outputs
Returned == at \in {"ok", "err"}
Exited == tool = "exited"

TypeOK ==
  /\ input \in 0 .. MaxInput
  /\ at \in {"writing", "collecting", "ok", "err"}
  /\ unwritten \in 0 .. input
  /\ stdin \in 0 .. Capacity
  /\ stdinOpen \in BOOLEAN
  /\ tool \in ToolStates
  /\ sawEnd \in BOOLEAN
  /\ success \in BOOLEAN
  /\ daemon \in BOOLEAN
  /\ pipe \in [Outputs -> 0 .. Capacity]
  /\ said \in [Outputs -> 0 .. MaxOutput]
  /\ collected \in [Outputs -> 0 .. MaxOutput]
  /\ cut \in BOOLEAN

Init ==
  /\ input \in 0 .. MaxInput
  /\ at = "writing"
  /\ unwritten = input
  /\ stdin = 0 /\ stdinOpen = TRUE
  /\ tool = "running" /\ sawEnd = FALSE /\ success = FALSE /\ daemon = FALSE
  /\ pipe = [o \in Outputs |-> 0]
  /\ said = [o \in Outputs |-> 0]
  /\ collected = [o \in Outputs |-> 0]
  /\ cut = FALSE

----------------------------------------------------------------------------
(* The caller.                                                             *)

\* write_all makes progress.
WriteInput ==
  /\ at = "writing" /\ unwritten > 0 /\ ~Exited
  /\ stdin < Capacity
  /\ stdin' = stdin + 1
  /\ unwritten' = unwritten - 1
  /\ UNCHANGED <<input, at, stdinOpen, collected, cut, toolVars, pipe>>

\* Mutant of CloseInput: the handle stays in the Child.
CloseInputLater ==
  /\ at = "writing" /\ unwritten = 0
  /\ at' = "collecting"
  /\ UNCHANGED <<input, unwritten, stdin, stdinOpen, collected, cut, toolVars, pipe>>

\* write_all has written everything, and stdin is dropped.
CloseInput ==
  /\ at = "writing" /\ unwritten = 0
  /\ at' = "collecting"
  /\ stdinOpen' = FALSE
  /\ UNCHANGED <<input, unwritten, stdin, collected, cut, toolVars, pipe>>

\* Mutant of InputCut: writing is tried again.
InputCutRetried ==
  /\ at = "writing" /\ unwritten > 0 /\ Exited
  /\ cut' = TRUE
  /\ UNCHANGED <<input, at, unwritten, stdin, stdinOpen, collected, toolVars, pipe>>

\* The tool has exited: write_all returns an error, which is ignored.
InputCut ==
  /\ at = "writing" /\ unwritten > 0 /\ Exited
  /\ cut' = TRUE
  /\ at' = "collecting"
  /\ stdinOpen' = FALSE
  /\ UNCHANGED <<input, unwritten, stdin, collected, toolVars, pipe>>

\* Mutant of Collect: stderr is read after stdout has come to its end.
CollectInTurn(o) ==
  /\ at = "collecting" /\ pipe[o] > 0
  /\ o = "stderr" => Exited /\ pipe["stdout"] = 0
  /\ pipe' = [pipe EXCEPT ![o] = @ - 1]
  /\ collected' = [collected EXCEPT ![o] = @ + 1]
  /\ UNCHANGED <<input, at, unwritten, stdin, stdinOpen, cut, toolVars>>

\* wait_with_output reads what there is on either output.
Collect(o) ==
  /\ at = "collecting" /\ pipe[o] > 0
  /\ pipe' = [pipe EXCEPT ![o] = @ - 1]
  /\ collected' = [collected EXCEPT ![o] = @ + 1]
  /\ UNCHANGED <<input, at, unwritten, stdin, stdinOpen, cut, toolVars>>

\* Mutant of Finish: waits for the tool alone, not for the end of its outputs.
FinishAtExit ==
  /\ at = "collecting" /\ Exited
  /\ at' = IF success THEN "ok" ELSE "err"
  /\ UNCHANGED <<input, unwritten, stdin, stdinOpen, collected, cut, toolVars, pipe>>

\* Both outputs have come to their end and the tool has exited: its status is
\* the result.
Finish ==
  /\ at = "collecting" /\ Exited /\ ~daemon
  /\ \A o \in Outputs : pipe[o] = 0
  /\ at' = IF success THEN "ok" ELSE "err"
  /\ UNCHANGED <<input, unwritten, stdin, stdinOpen, collected, cut, toolVars, pipe>>

Caller ==
  WriteInput \/ CloseInput \/ InputCut \/ (\E o \in Outputs : Collect(o)) \/ Finish

----------------------------------------------------------------------------
(* The tool.                                                               *)

\* It enters its next system call.
Enter ==
  /\ tool = "running"
  /\ \/ ~sawEnd /\ tool' = "reading"
     \/ \E o \in Outputs : said[o] < MaxOutput /\ tool' = o
  /\ UNCHANGED <<input, callerVars, sawEnd, success, daemon, said, stdin, pipe>>

\* A read returns a block, or the end of the input.
Read ==
  /\ tool = "reading"
  /\ \/ stdin > 0 /\ stdin' = stdin - 1 /\ UNCHANGED sawEnd
     \/ stdin = 0 /\ ~stdinOpen /\ sawEnd' = TRUE /\ UNCHANGED stdin
  /\ tool' = "running"
  /\ UNCHANGED <<input, callerVars, success, daemon, said, pipe>>

\* A write goes through.
Write(o) ==
  /\ tool = o
  /\ pipe[o] < Capacity
  /\ pipe' = [pipe EXCEPT ![o] = @ + 1]
  /\ said' = [said EXCEPT ![o] = @ + 1]
  /\ tool' = "running"
  /\ UNCHANGED <<input, callerVars, sawEnd, success, daemon, stdin>>

\* It exits.
Exit ==
  /\ tool = "running"
  /\ tool' = "exited"
  /\ success' \in BOOLEAN
  /\ daemon' \in BOOLEAN
  /\ UNCHANGED <<input, callerVars, sawEnd, said, stdin, pipe>>

\* It is killed, also in the middle of a system call.
Kill ==
  /\ ~Exited
  /\ tool' = "exited"
  /\ daemon' \in BOOLEAN
  /\ UNCHANGED <<input, callerVars, sawEnd, success, said, stdin, pipe>>

\* The process it left behind ends or closes the outputs.
DaemonEnds ==
  /\ daemon
  /\ daemon' = FALSE
  /\ UNCHANGED <<input, callerVars, tool, sawEnd, success, said, stdin, pipe>>

Tool == Enter \/ Read \/ (\E o \in Outputs : Write(o)) \/ Exit

Next == Caller \/ Tool \/ Kill \/ DaemonEnds

Spec == Init /\ [][Next]_vars

\* The thread goes on whenever it is not asleep; nothing is assumed of tools.
FairSpec == Spec /\ WF_vars(Caller)

----------------------------------------------------------------------------
(* Properties.                                                             *)

\* When the call returns, all that the tool wrote has been read: the error it
\* is reported with is whole, and the status is that of the tool.
OutputWhole ==
  Returned => collected = said /\ (at = "ok" <=> success)

CallerAsleep ==
  \/ at = "writing" /\ unwritten > 0 /\ ~Exited /\ stdin = Capacity
  \/ at = "collecting" /\ (\A o \in Outputs : pipe[o] = 0) /\ (Exited => daemon)
ToolAsleep ==
  \/ tool = "reading" /\ stdin = 0 /\ stdinOpen
  \/ \E o \in Outputs : tool = o /\ pipe[o] = Capacity

\* Caller and tool sleep on each other only if the input is longer than a pipe
\* and the tool fills an output before it has read the input: with a key or
\* passphrase that fits, or a tool that says little, there is no deadlock.
JamNeedsBoth ==
  CallerAsleep /\ ToolAsleep =>
    /\ input > Capacity
    /\ \E o \in Outputs : said[o] >= Capacity /\ tool = o

\* However the tool ends, early or killed in a deadlock, the call returns once
\* nothing it left behind has its outputs open.
EndedToolIsReaped == <>[](Exited /\ ~daemon) => <>Returned

\* A tool that goes on as long as it is not asleep is waited for to its end
\* when the input fits into the pipe: the call returns.
FittingInputReturns ==
  input <= Capacity /\ WF_vars(Tool) /\ WF_vars(DaemonEnds) => <>Returned

\* signing.rs: import_private_key_sync "Returns PublisherError if spawning
\* gpg, writing to stdin, or key import fails."
WriteFailureIsError == at = "ok" => ~cut

=============================================================================
