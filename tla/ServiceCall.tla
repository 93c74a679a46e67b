---------------------------- MODULE ServiceCall ----------------------------
(***************************************************************************)
(* What PublisherWorker relies on when it awaits a publisher: the service  *)
(* behind it takes the package (or the documentation) or not, and the call *)
(* answers once, "ok" only if the service took everything by then.  An     *)
(* answer "err" says nothing of what the service took, and neither does a  *)
(* call whose process was killed: the service may take it even later.      *)
(***************************************************************************)
VARIABLES
  taken,    \* the service has taken all that the call was to publish
  answer    \* "none", "ok", "err", or "killed" when none will come

callVars == <<taken, answer>>

Init == taken = FALSE /\ answer = "none"

Take ==
  /\ answer # "ok"
  /\ taken' = TRUE
  /\ UNCHANGED answer

Succeed ==
  /\ answer = "none"
  /\ answer' = "ok"
  /\ taken' = TRUE

Fail ==
  /\ answer = "none"
  /\ answer' \in {"err", "killed"}
  /\ taken' \in {taken, TRUE}

Next == Take \/ Succeed \/ Fail

Spec == Init /\ [][Next]_callVars

=============================================================================
