----------------------------- MODULE EffectOrder -----------------------------
(***************************************************************************)
(* What correlated effect re-entry promises the engine: the completions of *)
(* one correlation are applied in sequence, each at most once, whatever    *)
(* order they arrive in and whoever applies them.  A completion that will  *)
(* never be applied is buried.  Correlations are independent.              *)
(***************************************************************************)
EXTENDS Naturals

CONSTANTS Correlation, MaxSeq

Seq1 == 1 .. MaxSeq

VARIABLES
  state,     \* state[c][s]: what has become of completion s of correlation c
  applied    \* applied[c]: how many completions of c the engine has seen

absVars == <<state, applied>>

AbsInit ==
  /\ state = [c \in Correlation |-> [s \in Seq1 |-> "ABSENT"]]
  /\ applied = [c \in Correlation |-> 0]

Arrive(c, s) ==
  /\ state[c][s] = "ABSENT"
  /\ state' = [state EXCEPT ![c][s] = "PENDING"]
  /\ UNCHANGED applied

Apply(c, s) ==
  /\ state[c][s] = "PENDING"
  /\ s = applied[c] + 1
  /\ state' = [state EXCEPT ![c][s] = "APPLIED"]
  /\ applied' = [applied EXCEPT ![c] = s]

Bury(c, S) ==
  /\ \A s \in S : state[c][s] = "PENDING"
  /\ state' = [state EXCEPT ![c] =
                 [s \in Seq1 |-> IF s \in S THEN "DEAD" ELSE state[c][s]]]
  /\ UNCHANGED applied

AbsNext ==
  \E c \in Correlation :
    \/ \E s \in Seq1 : Arrive(c, s) \/ Apply(c, s)
    \/ \E S \in SUBSET Seq1 : Bury(c, S)

AbsSpec == AbsInit /\ [][AbsNext]_absVars
=============================================================================
