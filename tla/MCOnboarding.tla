----------------------------- MODULE MCOnboarding -----------------------------
(* Two mounts of the form, two contents, which name different tenants but  *)
(* the same host.  Each budget is a family of behaviours of its own: two   *)
(* onboardings and one failure of the server, one onboarding and two, and  *)
(* requests of the browser that get lost or overtake each other.           *)
EXTENDS OnboardingPages

CONSTANTS k1, k2, fa, fb

MCKey == {k1, k2}
MCForm == {fa, fb}
MCSlug == [f \in MCForm |-> IF f = fb THEN "other" ELSE "acme"]
MCHost == [f \in MCForm |-> "app"]

Budget(s, n, f, a) == [server |-> s, network |-> n, forms |-> f, asked |-> a]

MCBudgets == {Budget(1, 0, 2, 1), Budget(2, 0, 1, 1), Budget(0, 3, 1, 2)}
=============================================================================
