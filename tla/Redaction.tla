----------------------------- MODULE Redaction ------------------------------
(***************************************************************************)
(* What is reported of a command that failed: format_redacted_failure      *)
(* (publish.rs, one secret: the token) and redact_signing_error            *)
(* (signing.rs, two: the armored key, then the passphrase) join the output *)
(* of the command and replace the secrets in it by SecretToken::redact_from*)
(* (domain.rs).  The result goes to the log and into the audit event.      *)
(*                                                                         *)
(* A text is a sequence of letters.  A message tells of each letter of the *)
(* text that the command wrote what became of it: it is "kept"; or it was  *)
(* the first of an occurrence that redact_from replaced, and the "stars"   *)
(* stand in its place; or it was one of the others, and is "gone".  What   *)
(* is gone follows stars, so that letters that are neighbours in a message *)
(* were so in the text.  Secrets that contain a "*" are left out.          *)
(***************************************************************************)
EXTENDS Naturals, Sequences, SequencesExt

CONSTANTS
  Letters,     \* the letters of secrets and output
  MaxOutput,   \* bound: how many letters a stream has
  MaxSecret    \* bound: how many letters a secret has

ASSUME BoundsAssumption == MaxOutput \in Nat /\ MaxSecret \in Nat

Blank == " "
ASSUME BlankAssumption == Blank \notin Letters

Marks == {"kept", "stars", "gone"}

\* The secrets of a call; an empty one may be configured, and a key without
\* passphrase, or a token, has an empty second.
Secrets == BoundedSeq(Letters, MaxSecret)
Outputs == BoundedSeq(Letters \cup {Blank}, MaxOutput)

VARIABLES
  stdout, stderr,   \* what the command wrote before it failed, in Outputs
  first, second,    \* the token, or the key and the passphrase, in Secrets
  raw,              \* the two streams, joined
  message           \* what is reported of it, or <<>> before: in [DOMAIN raw -> Marks]

vars == <<stdout, stderr, first, second, raw, message>>

Init ==
  /\ stdout \in Outputs /\ stderr \in Outputs
  /\ first \in Secrets /\ second \in Secrets
  /\ raw = <<>> /\ message = <<>>

----------------------------------------------------------------------------

\* Mutant of Joined: the standard output counts only if there is no other.
JoinedShort(out, err) == IF Range(err) \subseteq {Blank} THEN out ELSE err

\* What is formatted: a stream that is blank is left out.
Joined(out, err) ==
  IF Range(err) \subseteq {Blank} THEN out
  ELSE IF Range(out) \subseteq {Blank} THEN err
  ELSE err \o <<Blank>> \o out

\* The secret s stands in the message m, of the text t, at its i-th place.
Stands(s, m, t, i) ==
  /\ i + Len(s) - 1 <= Len(t)
  /\ \A k \in 1 .. Len(s) : m[i + k - 1] = "kept" /\ t[i + k - 1] = s[k]

\* Mutant of Replaced: only the first.
ReplacedOnce(places, length) == {i \in places : \A k \in places : i <= k}

\* str::replace goes from left to right and looks for the next occurrence
\* behind the last: of the places where something of this length stands,
\* those that do not overlap with one replaced before.
Replaced(places, length) ==
  CHOOSE replaced \in SUBSET places :
    \A i \in places :
      i \in replaced <=> \A k \in replaced : k < i => k + length <= i

\* SecretToken::redact_from; an empty secret changes nothing.
RedactFrom(s, m, t) ==
  LET replaced == Replaced({i \in DOMAIN m : Stands(s, m, t, i)}, Len(s))
      Behind(i) == \E k \in replaced : k < i /\ i < k + Len(s)
  IN  IF s = <<>> THEN m
      ELSE [i \in DOMAIN m |->
              IF i \in replaced THEN "stars" ELSE IF Behind(i) THEN "gone" ELSE m[i]]

\* All of a text, before anything is replaced.
Whole(t) == [i \in DOMAIN t |-> "kept"]

\* Mutant of Redacted: the passphrase goes first.
RedactedSecondFirst(m, t) == RedactFrom(first, RedactFrom(second, m, t), t)

\* redact_signing_error; format_redacted_failure when second is empty.
Redacted(m, t) == RedactFrom(second, RedactFrom(first, m, t), t)

Report ==
  /\ message = <<>>
  /\ raw' = Joined(stdout, stderr)
  /\ message' = Redacted(Whole(raw'), raw')
  /\ UNCHANGED <<stdout, stderr, first, second>>

Next == Report

Spec == Init /\ [][Next]_vars

----------------------------------------------------------------------------
(* Properties.                                                             *)

Configured == {first, second} \ {<<>>}

\* The letters of the text that belong to an occurrence of s in it.
Starts(s) == {i \in DOMAIN raw : Stands(s, Whole(raw), raw, i)}
Covered(s) == UNION {i .. i + Len(s) - 1 : i \in Starts(s)}
Reported == {i \in DOMAIN message : message[i] = "kept"}

\* No secret can be read in a message, also where the replacement of one
\* brought together what stood apart, or cut an occurrence of the other.
NoSecretRemains ==
  \A s \in Configured, i \in DOMAIN message : ~Stands(s, message, raw, i)

\* Nothing of an occurrence of the key is left, also when the passphrase is a
\* part of the key: the key is replaced before anything else is.  (An
\* occurrence that overlaps another one of the key is not replaced as a whole.)
KeyGoesWhole ==
  LET apart == \A i, k \in Starts(first) : i < k => i + Len(first) <= k
  IN  message # <<>> /\ first # <<>> /\ apart =>
        Reported \cap Covered(first) = {}

\* The diagnostics survive: both streams are reported unless blank, what is no
\* part of a secret stays, and the placeholder appears only where a secret
\* stood, and before whatever is gone.
DiagnosticsSurvive ==
  message # <<>> =>
    /\ \A text \in {stdout, stderr} : ~(Range(text) \subseteq {Blank}) =>
         \E i \in 0 .. Len(raw) - Len(text) :
           text = SubSeq(raw, i + 1, i + Len(text))
    /\ DOMAIN raw \ UNION {Covered(s) : s \in Configured} \subseteq Reported
    /\ \A i \in DOMAIN message :
         /\ message[i] = "stars" => \E s \in Configured : i \in Starts(s)
         /\ message[i] = "gone" => i > 1 /\ message[i - 1] # "kept"

=============================================================================
