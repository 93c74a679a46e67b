--------------------------- MODULE RedactionProofs --------------------------
(***************************************************************************)
(* Theorems about Redaction, for any letters and texts of any length: what *)
(* the replacement of one secret does, and what can be read in the end.    *)
(***************************************************************************)
EXTENDS Redaction, SequenceTheorems, WellFoundedInduction, TLAPS

(***************************************************************************)
(* Left to right.  Replaced is defined by what it satisfies; that there is *)
(* such a set is an induction over the places, by the least number for     *)
(* which there would be none; that there is one only, by the least number  *)
(* in which two would differ.                                              *)
(***************************************************************************)

LEMMA LeastNumber ==
  ASSUME NEW T \in SUBSET Nat, T # {}
  PROVE  \E x \in T : \A y \in T : ~(y < x)
<1>1. PICK x \in T : \A y \in T : <<y, x>> \notin OpToRel(<, Nat)
  BY WFMin, NatLessThanWellFounded, Zenon
<1>2. \A y \in T : ~(y < x)
  BY <1>1, Zenon DEF OpToRel
<1> QED
  BY <1>2, Zenon

\* From left to right: what Replaced(places, length) satisfies.
LeftToRight(replaced, places, length) ==
  \A i \in places :
    i \in replaced <=> \A k \in replaced : k < i => k + length <= i

\* One place more: it is replaced or not.
LEMMA LeftToRightStep ==
  ASSUME NEW places \in SUBSET Nat, NEW length \in Nat, NEW n \in Nat,
         NEW replaced \in SUBSET {i \in places : i < n},
         LeftToRight(replaced, {i \in places : i < n}, length)
  PROVE  \E r \in SUBSET {i \in places : i < n + 1} :
           LeftToRight(r, {i \in places : i < n + 1}, length)
<1> DEFINE fits == n \in places /\ \A k \in replaced : k + length <= n
           r == IF fits THEN replaced \cup {n} ELSE replaced
<1>1. r \in SUBSET {i \in places : i < n + 1}
  OBVIOUS
<1>2. ASSUME NEW i \in places, i < n
      PROVE  i \in r <=> \A k \in r : k < i => k + length <= i
  <2>1. i \in r <=> i \in replaced
    BY <1>2
  <2>2. \A k \in r : k < i => k \in replaced
    BY <1>2
  <2>3. replaced \subseteq r
    OBVIOUS
  <2> QED
    BY <1>2, <2>1, <2>2, <2>3 DEF LeftToRight
<1>3. ASSUME n \in places
      PROVE  n \in r <=> \A k \in r : k < n => k + length <= n
  <2>1. CASE fits
    BY <2>1
  <2>2. CASE ~fits
    BY <1>3, <2>2
  <2> QED
    BY <2>1, <2>2
<1>4. \A i \in places : i < n + 1 => i < n \/ i = n
  OBVIOUS
<1> HIDE DEF r
<1>5. LeftToRight(r, {i \in places : i < n + 1}, length)
  BY <1>2, <1>3, <1>4 DEF LeftToRight
<1> QED
  BY <1>1, <1>5

\* Of any places within a text some are replaced from left to right.
LEMMA ReplacedLeftToRight ==
  ASSUME NEW n \in Nat, NEW places \in SUBSET (1 .. n), NEW length \in Nat
  PROVE  /\ Replaced(places, length) \in SUBSET places
         /\ LeftToRight(Replaced(places, length), places, length)
<1> DEFINE Below(m) == {i \in places : i < m}
           Possible(m) == \E r \in SUBSET Below(m) : LeftToRight(r, Below(m), length)
           Impossible == {m \in Nat : ~Possible(m)}
<1>0. places \in SUBSET Nat /\ \A i \in places : i \in 1 .. n /\ ~(i < 0) /\ i < n + 1
  OBVIOUS
<1>1. Possible(0)
  <2>1. Below(0) = {}
    BY <1>0
  <2> QED
    BY <2>1 DEF LeftToRight
<1>2. ASSUME NEW m \in Nat, Possible(m) PROVE Possible(m + 1)
  <2>1. PICK r \in SUBSET Below(m) : LeftToRight(r, Below(m), length)
    BY <1>2
  <2> QED
    BY <1>0, <2>1, LeftToRightStep
<1>3. Impossible = {}
  <2> SUFFICES ASSUME Impossible # {} PROVE FALSE
    OBVIOUS
  <2> HIDE DEF Possible
  <2>1. PICK m \in Impossible : \A y \in Impossible : ~(y < m)
    BY LeastNumber
  <2>2. m # 0 /\ m \in Nat /\ ~Possible(m)
    BY <1>1, <2>1
  <2>3. m - 1 \in Nat /\ m - 1 < m /\ (m - 1) + 1 = m
    BY <2>2
  <2>4. Possible(m - 1)
    BY <2>1, <2>3
  <2> QED
    BY <1>2, <2>2, <2>3, <2>4
<1>4. Possible(n + 1)
  <2> HIDE DEF Possible
  <2> QED
    BY <1>3
<1>5. Below(n + 1) = places
  BY <1>0
<1>6. \E r \in SUBSET places : LeftToRight(r, places, length)
  BY <1>4, <1>5
<1> QED
  BY <1>6 DEF Replaced, LeftToRight

\* What is replaced does not depend on the choice: of any occurrences of a
\* secret in an output of any length, exactly one set of them is replaced from
\* left to right (domain.rs, SecretToken::redact_from: str::replace).
THEOREM ReplacedIsDetermined ==
  ASSUME NEW n \in Nat, NEW places \in SUBSET (1 .. n), NEW length \in Nat
  PROVE  /\ Replaced(places, length) \in SUBSET places
         /\ \A replaced \in SUBSET places :
              LeftToRight(replaced, places, length) <=> replaced = Replaced(places, length)
<1>1. /\ Replaced(places, length) \in SUBSET places
      /\ LeftToRight(Replaced(places, length), places, length)
  BY ReplacedLeftToRight
<1>2. ASSUME NEW r \in SUBSET places, LeftToRight(r, places, length),
             NEW q \in SUBSET places, LeftToRight(q, places, length)
      PROVE  r = q
  <2> DEFINE Differ == {i \in places : ~(i \in r <=> i \in q)}
  <2>1. Differ \in SUBSET Nat
    <3>1. \A i \in places : i \in Nat
      OBVIOUS
    <3> QED
      BY <3>1
  <2>2. ASSUME Differ # {} PROVE FALSE
    <3> HIDE DEF Differ
    <3>1. PICK x \in Differ : \A y \in Differ : ~(y < x)
      BY <2>1, <2>2, LeastNumber
    <3> USE DEF Differ
    <3>2. x \in places /\ ~(x \in r <=> x \in q)
      OBVIOUS
    <3>3. \A k \in places : k < x => (k \in r <=> k \in q)
      BY <3>1
    <3>4. (\A k \in r : k < x => k + length <= x) <=> (\A k \in q : k < x => k + length <= x)
      BY <3>3
    <3> QED
      BY <1>2, <3>2, <3>4 DEF LeftToRight
  <2> QED
    BY <2>2
<1> QED
  BY <1>1, <1>2

(***************************************************************************)
(* One secret.                                                             *)
(***************************************************************************)

\* A message of the text t.
Message(m, t) == Len(t) \in Nat /\ DOMAIN t = 1 .. Len(t) /\ m \in [DOMAIN t -> Marks]

Places(s, m, t) == {i \in DOMAIN t : Stands(s, m, t, i)}

\* Nothing comes back, and the secret stands nowhere any more.
RedactedOf(s, m, t, r) ==
  /\ \A i \in DOMAIN t : r[i] = "kept" => m[i] = "kept"
  /\ \A i \in DOMAIN t : ~Stands(s, r, t, i)

\* What is replaced belongs to an occurrence: stars at its start, and what is
\* gone follows something that is not kept.
OnlyPlaces(s, m, t, r) ==
  \A i \in DOMAIN t :
    /\ m[i] = "kept" /\ r[i] # "kept" =>
         \E k \in Places(s, m, t) : i \in k .. k + Len(s) - 1
    /\ r[i] = "stars" => m[i] = "stars" \/ i \in Places(s, m, t)
    /\ r[i] = "gone" => m[i] = "gone" \/ (i > 1 /\ r[i - 1] # "kept")

\* No two occurrences overlap.
Apart(places, length) == \A i, k \in places : i < k => i + length <= k

LEMMA RedactFromResult ==
  ASSUME NEW s, Len(s) \in Nat \ {0}, NEW t, NEW m, Message(m, t)
  PROVE  /\ Message(RedactFrom(s, m, t), t)
         /\ RedactedOf(s, m, t, RedactFrom(s, m, t))
         /\ OnlyPlaces(s, m, t, RedactFrom(s, m, t))
         /\ Apart(Places(s, m, t), Len(s)) =>
              \A k \in Places(s, m, t) : \A i \in k .. k + Len(s) - 1 :
                RedactFrom(s, m, t)[i] # "kept"
<1> DEFINE n == Len(t)
           len == Len(s)
           places == Places(s, m, t)
           replaced == Replaced(places, len)
           Behind(i) == \E k \in replaced : k < i /\ i < k + len
           r == RedactFrom(s, m, t)
<1>1. n \in Nat /\ DOMAIN t = 1 .. n /\ DOMAIN m = 1 .. n /\ m \in [1 .. n -> Marks]
  BY DEF Message
<1>2. len \in Nat /\ len >= 1 /\ s # <<>>
  OBVIOUS
<1>3. places \in SUBSET (1 .. n)
  BY <1>1 DEF Places
<1>4. replaced \in SUBSET places /\ LeftToRight(replaced, places, len)
  BY <1>1, <1>2, <1>3, ReplacedLeftToRight
<1>5. r = [i \in 1 .. n |-> IF i \in replaced THEN "stars"
                            ELSE IF Behind(i) THEN "gone" ELSE m[i]]
  BY <1>1, <1>2 DEF RedactFrom, Places
<1>6. \A k \in places : \A j \in k .. k + len - 1 : j \in 1 .. n /\ m[j] = "kept"
  <2> SUFFICES ASSUME NEW k \in places, NEW j \in k .. k + len - 1
               PROVE  j \in 1 .. n /\ m[j] = "kept"
    OBVIOUS
  <2>1. k \in 1 .. n /\ Stands(s, m, t, k)
    BY <1>1 DEF Places
  <2>2. j - k + 1 \in 1 .. len /\ k + (j - k + 1) - 1 = j
    BY <1>2, <2>1
  <2> QED
    BY <1>1, <1>2, <2>1, <2>2 DEF Stands
<1> HIDE DEF r, replaced, places, n, len
<1>7. Message(r, t)
  BY <1>1, <1>5 DEF Message, Marks
<1>8. \A i \in 1 .. n : r[i] = "kept" => m[i] = "kept" /\ i \notin replaced /\ ~Behind(i)
  BY <1>5
<1>9. ASSUME NEW i \in 1 .. n, Stands(s, r, t, i) PROVE FALSE
  <2>1. i + len - 1 <= n /\ \A k \in 1 .. len : r[i + k - 1] = "kept" /\ t[i + k - 1] = s[k]
    BY <1>9 DEF Stands, n, len
  <2>2. \A k \in 1 .. len : i + k - 1 \in 1 .. n
    BY <1>1, <1>2, <2>1
  <2>3. Stands(s, m, t, i)
    BY <1>8, <2>1, <2>2 DEF Stands, n, len
  <2>4. i \in places
    BY <1>1, <2>3 DEF places, Places
  <2>5. r[i] = "kept"
    <3>1. 1 \in 1 .. len /\ i + 1 - 1 = i
      BY <1>2
    <3> QED
      BY <2>1, <3>1
  <2>6. i \notin replaced /\ ~Behind(i)
    BY <1>8, <2>5
  <2>7. PICK k \in replaced : k < i /\ ~(k + len <= i)
    BY <1>4, <2>4, <2>6 DEF LeftToRight
  <2> QED
    BY <1>1, <1>2, <1>3, <1>4, <2>6, <2>7
<1>10. RedactedOf(s, m, t, r)
  BY <1>1, <1>8, <1>9 DEF RedactedOf
<1>11. ASSUME NEW i \in 1 .. n, m[i] = "kept", r[i] # "kept"
       PROVE  \E k \in places : i \in k .. k + len - 1
  <2>1. i \in replaced \/ Behind(i)
    BY <1>5, <1>11
  <2>2. \E k \in replaced : k <= i /\ i < k + len
    BY <1>1, <1>2, <1>3, <1>4, <2>1
  <2> QED
    BY <1>1, <1>2, <1>3, <1>4, <2>2
<1>12. \A i \in 1 .. n : r[i] = "stars" => m[i] = "stars" \/ i \in places
  BY <1>4, <1>5
<1>13. ASSUME NEW i \in 1 .. n, r[i] = "gone", m[i] # "gone"
       PROVE  i > 1 /\ r[i - 1] # "kept"
  <2>1. PICK k \in replaced : k < i /\ i < k + len
    BY <1>5, <1>13
  <2>2. k \in 1 .. n /\ i - 1 \in 1 .. n
    BY <1>1, <1>3, <1>4, <2>1
  <2>3. i - 1 = k \/ (k < i - 1 /\ i - 1 < k + len)
    BY <1>2, <2>1, <2>2
  <2>4. i - 1 \in replaced \/ Behind(i - 1)
    BY <2>1, <2>3
  <2> QED
    BY <1>5, <2>2, <2>4
<1>14. OnlyPlaces(s, m, t, r)
  BY <1>1, <1>11, <1>12, <1>13 DEF OnlyPlaces, places, len
<1>15. ASSUME Apart(places, len), NEW k \in places, NEW i \in k .. k + len - 1
       PROVE  r[i] # "kept"
  <2>1. k \in replaced
    BY <1>4, <1>15 DEF Apart, LeftToRight
  <2>2. i = k \/ (k < i /\ i < k + len)
    BY <1>2, <1>3
  <2>3. i \in 1 .. n
    BY <1>6
  <2>4. i \in replaced \/ Behind(i)
    BY <2>1, <2>2
  <2> QED
    BY <1>8, <2>3, <2>4
<1> QED
  BY <1>7, <1>10, <1>14, <1>15 DEF places, len, r

\* The same of any secret: an empty one changes nothing.
LEMMA RedactFromAny ==
  ASSUME NEW s \in Seq(Letters), NEW t, NEW m, Message(m, t)
  PROVE  LET r == RedactFrom(s, m, t) IN
         /\ Message(r, t)
         /\ s # <<>> => RedactedOf(s, m, t, r)
         /\ \A i \in DOMAIN t : r[i] = "kept" => m[i] = "kept"
         /\ OnlyPlaces(s, m, t, r)
         /\ s # <<>> /\ Apart(Places(s, m, t), Len(s)) =>
              \A k \in Places(s, m, t) : \A i \in k .. k + Len(s) - 1 : r[i] # "kept"
<1>1. CASE s = <<>>
  BY <1>1 DEF RedactFrom, OnlyPlaces
<1>2. CASE s # <<>>
  <2>1. Len(s) \in Nat \ {0}
    BY <1>2, EmptySeq
  <2> QED
    BY <1>2, <2>1, RedactFromResult DEF RedactedOf
<1> QED
  BY <1>1, <1>2

\* What stands in a message stood in any message that had kept as much.
LEMMA StandsBefore ==
  ASSUME NEW s \in Seq(Letters), NEW t, NEW m, NEW r, Len(t) \in Nat, DOMAIN t = 1 .. Len(t),
         \A i \in DOMAIN t : r[i] = "kept" => m[i] = "kept",
         NEW i \in DOMAIN t, Stands(s, r, t, i)
  PROVE  Stands(s, m, t, i)
<1>1. Len(s) \in Nat
  OBVIOUS
<1>2. \A k \in 1 .. Len(s) : i + k - 1 \in DOMAIN t
  BY <1>1 DEF Stands
<1> QED
  BY <1>2 DEF Stands

(***************************************************************************)
(* The two streams and the two secrets.                                    *)
(***************************************************************************)

Texts == Seq(Letters \cup {Blank})

LEMMA Inputs ==
  /\ \A s \in Secrets : s \in Seq(Letters)
  /\ \A out \in Outputs : out \in Texts
BY BoundsAssumption DEF Secrets, Outputs, Texts, BoundedSeq, SeqOf

\* Both streams are in what is formatted, unless blank.
LEMMA JoinedHasBoth ==
  ASSUME NEW out \in Texts, NEW err \in Texts
  PROVE  /\ Joined(out, err) \in Texts
         /\ \A text \in {out, err} : ~(Range(text) \subseteq {Blank}) =>
              \E i \in 0 .. Len(Joined(out, err)) - Len(text) :
                text = SubSeq(Joined(out, err), i + 1, i + Len(text))
<1> USE DEF Texts
<1> DEFINE joined == Joined(out, err)
<1>1. \A text \in {out, err} : SubSeq(text, 1, Len(text)) = text /\ Len(text) \in Nat
  BY SubSeqFull
<1>2. CASE Range(err) \subseteq {Blank} \/ Range(out) \subseteq {Blank}
  <2>1. joined \in {out, err}
    BY <1>2 DEF Joined
  <2>2. \A text \in {out, err} : ~(Range(text) \subseteq {Blank}) => text = joined
    BY <1>2 DEF Joined
  <2>3. 0 \in 0 .. Len(joined) - Len(joined) /\ joined = SubSeq(joined, 0 + 1, 0 + Len(joined))
    BY <1>1, <2>1
  <2> HIDE DEF joined
  <2>4. joined \in Texts
    BY <2>1
  <2> QED
    BY <2>2, <2>3, <2>4 DEF joined
<1>3. CASE ~(Range(err) \subseteq {Blank}) /\ ~(Range(out) \subseteq {Blank})
  <2> DEFINE start == err \o <<Blank>>
  <2>1. joined = start \o out /\ start \in Texts /\ Len(start) = Len(err) + 1
    BY <1>3 DEF Joined
  <2>2. /\ joined \in Texts /\ Len(joined) = Len(err) + 1 + Len(out)
        /\ \A i \in 1 .. Len(out) : joined[Len(err) + 1 + i] = out[i]
        /\ \A i \in 1 .. Len(err) : joined[i] = err[i]
    <3>1. \A i \in 1 .. Len(err) : start[i] = err[i]
      OBVIOUS
    <3> HIDE DEF start
    <3>2. /\ start \o out \in Texts /\ Len(start \o out) = Len(start) + Len(out)
          /\ \A i \in 1 .. Len(start) + Len(out) :
               (start \o out)[i] = IF i <= Len(start) THEN start[i] ELSE out[i - Len(start)]
      BY <2>1, ConcatProperties
    <3>3. ASSUME NEW i \in 1 .. Len(out) PROVE (start \o out)[Len(err) + 1 + i] = out[i]
      <4>1. /\ Len(err) + 1 + i \in 1 .. Len(start) + Len(out)
            /\ ~(Len(err) + 1 + i <= Len(start)) /\ Len(err) + 1 + i - Len(start) = i
        BY <2>1, <1>1
      <4> QED
        BY <3>2, <4>1
    <3>4. ASSUME NEW i \in 1 .. Len(err) PROVE (start \o out)[i] = err[i]
      BY <2>1, <3>1, <3>2, <1>1
    <3> QED
      BY <2>1, <3>2, <3>3, <3>4, <1>1
  <2> HIDE DEF joined
  <2>3. out = SubSeq(joined, (Len(err) + 1) + 1, (Len(err) + 1) + Len(out))
    <3> DEFINE part == SubSeq(joined, (Len(err) + 1) + 1, (Len(err) + 1) + Len(out))
    <3>1. part \in Texts /\ Len(part) = Len(out) /\ \A i \in 1 .. Len(out) : part[i] = out[i]
      BY <1>1, <2>2, SubSeqProperties
    <3> HIDE DEF part
    <3>2. part = out
      BY <3>1, SeqEqual
    <3> QED
      BY <3>2 DEF part
  <2>4. err = SubSeq(joined, 0 + 1, 0 + Len(err))
    <3> DEFINE part == SubSeq(joined, 0 + 1, 0 + Len(err))
    <3>1. part \in Texts /\ Len(part) = Len(err) /\ \A i \in 1 .. Len(err) : part[i] = err[i]
      BY <1>1, <2>2, SubSeqProperties
    <3> HIDE DEF part
    <3>2. part = err
      BY <3>1, SeqEqual
    <3> QED
      BY <3>2 DEF part
  <2>5. 0 \in 0 .. Len(joined) - Len(err) /\ Len(err) + 1 \in 0 .. Len(joined) - Len(out)
    BY <1>1, <2>2
  <2> QED
    BY <2>2, <2>3, <2>4, <2>5 DEF joined
<1> QED
  BY <1>2, <1>3

\* The invariant: a message is the redacted output of the command.
ReportInv ==
  /\ stdout \in Outputs /\ stderr \in Outputs
  /\ first \in Secrets /\ second \in Secrets
  /\ message # <<>> => raw = Joined(stdout, stderr) /\ message = Redacted(Whole(raw), raw)

\* What is known of a message, step by step: of the text, of what is left when
\* the first secret is replaced, and of what is left when the second is.
LEMMA Known ==
  ASSUME ReportInv, message # <<>>
  PROVE  LET between == RedactFrom(first, Whole(raw), raw) IN
         /\ first \in Seq(Letters) /\ second \in Seq(Letters)
         /\ raw \in Texts /\ Message(Whole(raw), raw)
         /\ Message(between, raw) /\ Message(message, raw)
         /\ message = RedactFrom(second, between, raw)
<1>1. first \in Seq(Letters) /\ second \in Seq(Letters) /\ raw \in Texts
  BY Inputs, JoinedHasBoth DEF ReportInv
<1>2. Message(Whole(raw), raw)
  <2>1. DOMAIN raw = 1 .. Len(raw) /\ Len(raw) \in Nat
    BY <1>1 DEF Texts
  <2> QED
    BY <2>1 DEF Message, Whole, Marks
<1>3. message = RedactFrom(second, RedactFrom(first, Whole(raw), raw), raw)
  BY DEF ReportInv, Redacted
<1> QED
  BY <1>1, <1>2, <1>3, RedactFromAny

LEMMA ReportIsRedacted == Spec => []ReportInv
<1>1. Init => ReportInv
  BY DEF Init, ReportInv
<1>2. ReportInv /\ [Next]_vars => ReportInv'
  BY DEF ReportInv, Next, Report, vars, Redacted
<1> QED
  BY <1>1, <1>2, PTL DEF Spec

\* No secret can be read in what is reported (domain.rs, redact_from), however
\* long the output and the secrets, and however these overlap.
THEOREM NoSecretIsReported == Spec => []NoSecretRemains
<1>1. ReportInv => NoSecretRemains
  <2> SUFFICES ASSUME ReportInv, NEW s \in Configured, NEW i \in DOMAIN message,
                      Stands(s, message, raw, i)
               PROVE  FALSE
    BY DEF NoSecretRemains
  <2> DEFINE between == RedactFrom(first, Whole(raw), raw)
  <2>1. message # <<>>
    OBVIOUS
  <2>2. i \in DOMAIN raw /\ Len(raw) \in Nat /\ DOMAIN raw = 1 .. Len(raw)
    BY <2>1, Known DEF Message
  <2>3. s # <<>>
    BY DEF Configured
  <2>4. CASE s = second
    BY <2>1, <2>2, <2>3, <2>4, Known, RedactFromAny DEF RedactedOf
  <2>5. CASE s = first
    <3>1. \A k \in DOMAIN raw : message[k] = "kept" => between[k] = "kept"
      BY <2>1, Known, RedactFromAny
    <3>2. Stands(s, between, raw, i)
      BY <2>1, <2>2, <2>5, <3>1, Known, StandsBefore
    <3> QED
      BY <2>1, <2>2, <2>3, <2>5, <3>2, Known, RedactFromAny DEF RedactedOf
  <2> QED
    BY <2>4, <2>5 DEF Configured
<1> QED
  BY <1>1, ReportIsRedacted, PTL

\* Nothing is left of a key whose occurrences do not overlap, whatever part of
\* it the passphrase is: signing.rs replaces the key first.
THEOREM KeyIsGone == Spec => []KeyGoesWhole
<1>1. ReportInv => KeyGoesWhole
  <2> SUFFICES ASSUME ReportInv, message # <<>>, first # <<>>,
                      Apart(Starts(first), Len(first)),
                      NEW i \in Reported \cap Covered(first)
               PROVE  FALSE
    BY DEF KeyGoesWhole, Apart
  <2> DEFINE between == RedactFrom(first, Whole(raw), raw)
  <2>1. Places(first, Whole(raw), raw) = Starts(first)
    BY DEF Places, Starts
  <2>2. PICK k \in Starts(first) : i \in k .. k + Len(first) - 1
    BY DEF Covered
  <2>3. between[i] # "kept"
    BY <2>1, <2>2, Known, RedactFromAny
  <2>4. i \in DOMAIN raw /\ message[i] = "kept"
    BY Known DEF Reported, Message
  <2>5. between[i] = "kept"
    BY <2>4, Known, RedactFromAny
  <2> QED
    BY <2>3, <2>5
<1> QED
  BY <1>1, ReportIsRedacted, PTL

\* What is no part of a secret is reported, both streams of it, and the stars
\* stand only where a secret stood (publish.rs, format_redacted_failure).
THEOREM DiagnosticsAreReported == Spec => []DiagnosticsSurvive
<1>1. ReportInv => DiagnosticsSurvive
  <2> SUFFICES ASSUME ReportInv, message # <<>> PROVE DiagnosticsSurvive
    BY DEF DiagnosticsSurvive
  <2> DEFINE between == RedactFrom(first, Whole(raw), raw)
  <2>1. /\ DOMAIN raw = 1 .. Len(raw) /\ Len(raw) \in Nat
        /\ DOMAIN message = DOMAIN raw /\ DOMAIN between = DOMAIN raw
        /\ \A i \in DOMAIN raw : message[i] \in Marks /\ between[i] \in Marks
    BY Known DEF Message
  <2>2. \A text \in {stdout, stderr} : ~(Range(text) \subseteq {Blank}) =>
          \E i \in 0 .. Len(raw) - Len(text) : text = SubSeq(raw, i + 1, i + Len(text))
    <3>1. raw = Joined(stdout, stderr) /\ stdout \in Texts /\ stderr \in Texts
      BY Inputs DEF ReportInv
    <3>2. \A text \in {stdout, stderr} : ~(Range(text) \subseteq {Blank}) =>
            \E i \in 0 .. Len(Joined(stdout, stderr)) - Len(text) :
              text = SubSeq(Joined(stdout, stderr), i + 1, i + Len(text))
      BY <3>1, JoinedHasBoth, Zenon
    <3> QED
      BY <3>1, <3>2, Zenon
  <2>3. /\ OnlyPlaces(first, Whole(raw), raw, between)
        /\ OnlyPlaces(second, between, raw, message)
        /\ \A i \in DOMAIN raw : between[i] = "kept" => Whole(raw)[i] = "kept"
        /\ \A i \in DOMAIN raw : message[i] = "kept" => between[i] = "kept"
        /\ first = <<>> => between = Whole(raw)
        /\ second = <<>> => message = between
    <3>1. /\ first \in Seq(Letters) /\ second \in Seq(Letters)
          /\ Message(Whole(raw), raw) /\ Message(between, raw)
          /\ message = RedactFrom(second, between, raw)
      BY Known
    <3>2. /\ OnlyPlaces(first, Whole(raw), raw, between)
          /\ \A i \in DOMAIN raw : between[i] = "kept" => Whole(raw)[i] = "kept"
      BY <3>1, RedactFromAny
    <3>3. first = <<>> => between = Whole(raw)
      BY DEF RedactFrom
    <3>4. second = <<>> => RedactFrom(second, between, raw) = between
      BY DEF RedactFrom
    <3> HIDE DEF between
    <3>5. /\ OnlyPlaces(second, between, raw, message)
          /\ \A i \in DOMAIN raw : message[i] = "kept" => between[i] = "kept"
      BY <3>1, RedactFromAny
    <3> QED
      BY <3>1, <3>2, <3>3, <3>4, <3>5
  <2>4. \A i \in DOMAIN raw : Whole(raw)[i] = "kept"
    BY DEF Whole
  <2>5. Places(first, Whole(raw), raw) = Starts(first)
    BY DEF Places, Starts
  <2>6. Places(second, between, raw) \subseteq Starts(second)
    BY <2>1, <2>3, Known, StandsBefore DEF Places, Starts
  <2>7. ASSUME NEW i \in DOMAIN raw, message[i] # "kept"
        PROVE  \E s \in Configured : i \in Covered(s)
    <3>1. CASE between[i] = "kept"
      <4>1. second # <<>> /\ \E k \in Starts(second) : i \in k .. k + Len(second) - 1
        BY <2>3, <2>6, <2>7, <3>1 DEF OnlyPlaces
      <4> QED
        BY <4>1 DEF Configured, Covered
    <3>2. CASE between[i] # "kept"
      <4>1. first # <<>> /\ \E k \in Starts(first) : i \in k .. k + Len(first) - 1
        BY <2>3, <2>4, <2>5, <3>2 DEF OnlyPlaces
      <4> QED
        BY <4>1 DEF Configured, Covered
    <3> QED
      BY <3>1, <3>2
  <2>8. DOMAIN raw \ UNION {Covered(s) : s \in Configured} \subseteq Reported
    BY <2>1, <2>7 DEF Reported
  <2>9. ASSUME NEW i \in DOMAIN raw, message[i] = "stars"
        PROVE  \E s \in Configured : i \in Starts(s)
    <3>1. CASE between[i] = "stars"
      <4>1. first # <<>> /\ i \in Starts(first)
        BY <2>3, <2>4, <2>5, <3>1 DEF OnlyPlaces
      <4> QED
        BY <4>1 DEF Configured
    <3>2. CASE between[i] # "stars"
      <4>1. second # <<>> /\ i \in Starts(second)
        BY <2>3, <2>6, <2>9, <3>2 DEF OnlyPlaces
      <4> QED
        BY <4>1 DEF Configured
    <3> QED
      BY <3>1, <3>2
  <2>10. ASSUME NEW i \in DOMAIN raw, message[i] = "gone"
         PROVE  i > 1 /\ message[i - 1] # "kept"
    <3>1. CASE between[i] # "gone"
      BY <2>3, <2>10, <3>1 DEF OnlyPlaces
    <3>2. CASE between[i] = "gone"
      <4>1. i > 1 /\ between[i - 1] # "kept"
        BY <2>3, <2>4, <3>2 DEF OnlyPlaces
      <4>2. i - 1 \in DOMAIN raw
        BY <2>1, <4>1
      <4> QED
        BY <2>3, <4>1, <4>2
    <3> QED
      BY <3>1, <3>2
  <2> QED
    BY <2>1, <2>2, <2>8, <2>9, <2>10 DEF DiagnosticsSurvive
<1> QED
  BY <1>1, ReportIsRedacted, PTL

=============================================================================
