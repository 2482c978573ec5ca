------------------------------ MODULE Grading -------------------------------
(***************************************************************************)
(* How a reading or a defect is rated and who must look at it: the severity*)
(* of a value outside its band, the verdict on a quality event, the tier   *)
(* that approves it, and the interlock's test of a proposed action.        *)
(***************************************************************************)
EXTENDS Integers, FiniteSets, FiniteSetsExt, Sequences, SequencesExt

Severities == <<"minor", "major", "critical">>
Tiers == <<"auto-log", "supervisor", "manager+safety">>
RankIn(seq, x) == CHOOSE k \in DOMAIN seq : seq[k] = x

-----------------------------------------------------------------------------
(* Anomalies: a baseline is [low, high, thresholds: severity -> deviation].*)

Deviation(b, value) ==
  IF value < b.low THEN b.low - value ELSE IF value > b.high THEN value - b.high ELSE 0

\* The label with the largest threshold reached; the mapping keeps the order
\* of the file among equals, which here is that of Severities.
SeverityFor(b, value) ==
  LET met == {s \in DOMAIN b.thresholds : Deviation(b, value) >= b.thresholds[s]}
      top == {s \in met : \A t \in met : b.thresholds[t] <= b.thresholds[s]}
  IN IF met = {} THEN "minor"
     ELSE CHOOSE s \in top : \A t \in top : RankIn(Severities, t) <= RankIn(Severities, s)

\* Thresholds that grow with the severity: what the field is described to be.
Growing(b) ==
  \A s, t \in DOMAIN b.thresholds :
    RankIn(Severities, s) < RankIn(Severities, t) => b.thresholds[s] < b.thresholds[t]

\* A value as far out of the band as a severity needs is rated no lower than
\* it, and one further out, on either side, no lower than one less far.
FurtherIsWorse(b, values) ==
  Growing(b) =>
    /\ \A v \in values : \A s \in DOMAIN b.thresholds :
         Deviation(b, v) >= b.thresholds[s] => RankIn(Severities, SeverityFor(b, v)) >= RankIn(Severities, s)
    /\ \A v, w \in values : Deviation(b, v) <= Deviation(b, w) =>
         RankIn(Severities, SeverityFor(b, v)) <= RankIn(Severities, SeverityFor(b, w))

-----------------------------------------------------------------------------
(* Quality events.                                                         *)

\* What the model answered: a verdict, or text that is no verdict.  Its score
\* and severity are not compared with each other.
Fallback == [score |-> 4, severity |-> "major"]
Verdict(answer) ==
  IF answer.score \in 0..4 /\ answer.severity \in Range(Severities) THEN answer ELSE Fallback

DefaultTier(severity) == Tiers[RankIn(Severities, severity)]
\* Fault variant of MaxTier: the tier of the failure mode wins.
FirstTier(a, b) == a
MaxTier(a, b) == IF RankIn(Tiers, a) >= RankIn(Tiers, b) THEN a ELSE b
\* modes: [defect -> tier] of the defects that are failure modes.
ResolveTier(defect, severity, modes) ==
  IF defect \in DOMAIN modes THEN MaxTier(modes[defect], DefaultTier(severity))
  ELSE DefaultTier(severity)

\* A worse verdict never lowers the tier, a failure mode never does either,
\* and an answer that cannot be read is seen by a person.
TierNeverLowered(defect, modes, answer) ==
  LET v == Verdict(answer)
      rank(s) == RankIn(Tiers, ResolveTier(defect, s, modes))
  IN /\ \A s \in Range(Severities) : RankIn(Severities, s) <= RankIn(Severities, v.severity)
                                       => rank(s) <= rank(v.severity)
     /\ defect \in DOMAIN modes => RankIn(Tiers, modes[defect]) <= rank(v.severity)
     /\ rank(v.severity) >= RankIn(Severities, v.severity)
     /\ answer.score \notin 0..4 => rank(v.severity) > 1

-----------------------------------------------------------------------------
(* The safety interlock.  A subject is a sequence of tokens, a rule too;   *)
(* ">" and "*" are the wildcards of the message server.                    *)

Wildcards == {">", "*"}
\* A wildcard is one only where it ends a rule of several tokens; anywhere else
\* it is a literal.
IsWild(rule) == Len(rule) > 1 /\ Last(rule) \in Wildcards
\* It is cut off and its dot kept: at least one more token is needed, and ">"
\* and "*" are the same.
Matches(rule, subject) ==
  IF IsWild(rule) THEN IsStrictPrefix(Front(rule), subject) ELSE rule = subject
Forbidden(rules, types, action) ==
  \/ action.type \in types
  \/ action.subject # <<>> /\ \E rule \in rules : Matches(rule, action.subject)

\* Under the rules of NATS "*" stands for one token wherever it is, and ">" at
\* the end for one or more.
NatsMatches(rule, subject) ==
  LET open == Last(rule) = ">"
      named == IF open THEN 1..(Len(rule) - 1) ELSE 1..Len(rule)
  IN /\ IF open THEN Len(subject) >= Len(rule) ELSE Len(subject) = Len(rule)
     /\ \A k \in named : rule[k] \in {"*", subject[k]}

\* Rules that mean the same to the interlock and to the broker, or more to the
\* interlock: those of safety-interlock.yaml all do.
Understood(rule) ==
  \A k \in DOMAIN rule : rule[k] \in Wildcards => k = Len(rule) /\ IsWild(rule)

\* Of the subjects that the broker would take a rule to cover, the interlock
\* lets through none but those meant by a rule with a wildcard it does not
\* know; it forbids no others, except below a rule that ends in "*".
InterlockAsBroker(rules, types, action) ==
  LET subject == action.subject
      meant == {rule \in rules : NatsMatches(rule, subject)}
      below == \E rule \in rules : IsWild(rule) /\ Last(rule) = "*" /\ IsStrictPrefix(Front(rule), subject)
  IN action.type \notin types /\ subject # <<>> =>
       /\ (\E rule \in meant : Understood(rule)) => Forbidden(rules, types, action)
       /\ Forbidden(rules, types, action) => meant # {} \/ below
=============================================================================
