----------------------------- MODULE MCScheduler -----------------------------
(* Two series, one of which never fires, two polling nodes, a completion that *)
(* starts a series or ends the instance, and a cancel.                        *)
EXTENDS Scheduler

CONSTANTS s, p, m, n, c, x

TwoSeries == {s, p}
OnePoison == {p}
TwoNodes == {m, n}
OneCompleter == {c}
OneCanceller == {x}
=============================================================================
