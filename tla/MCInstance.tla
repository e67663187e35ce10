----------------------------- MODULE MCInstance -----------------------------
(* Two branches, two completeTask requests, two cancels.                    *)
EXTENDS Instance

CONSTANTS a, b, c1, c2, x, y

TwoBranches == {a, b}
TwoCompleters == {c1, c2}
TwoCancellers == {x, y}
=============================================================================
