----------------------------- MODULE QueryCache -----------------------------
(***************************************************************************)
(* One entry of the TanStack query cache, as the pages of the web client   *)
(* use it: what it holds, its request, and the ways in which a page or a   *)
(* mutation asks for it again, writes it or takes it out of flight.        *)
(* main.tsx configures it to call data fresh for 30 s and never to retry.  *)
(***************************************************************************)
EXTENDS Naturals

CONSTANT None

Blank == [data |-> None, request |-> "idle", read |-> None, failed |-> FALSE, invalid |-> FALSE]

(* A request replaces one in flight; without data it forgets an error.     *)
Requested(e) == [e EXCEPT !.request = "asked", !.read = None,
                          !.failed = @ /\ e.data # None]

(* Asking again joins a first load in flight and replaces a later one.     *)
Refetched(e) == IF e.request # "idle" /\ e.data = None THEN e ELSE Requested(e)

(* Only an entry a mounted component observes is fetched at once.          *)
Invalidated(e, observed) ==
    LET marked == [e EXCEPT !.invalid = TRUE]
    IN IF observed THEN Refetched(marked) ELSE marked

(* A component that observes an entry loads it unless it is fresh.         *)
Observed(e, aged) ==
    IF e.request = "idle" /\ (e.data = None \/ e.invalid \/ aged) THEN Requested(e) ELSE e

(* The server reads the answer at one moment, the client gets it later.    *)
ReadAt(e, v) == [e EXCEPT !.request = "read", !.read = v]

Answered(e) == [Blank EXCEPT !.data = e.read]

Failed(e) == [e EXCEPT !.request = "idle", !.read = None, !.failed = TRUE, !.invalid = TRUE]

(* setQueryData does not touch a request in flight.                        *)
Written(e, v) == [e EXCEPT !.data = v, !.failed = FALSE, !.invalid = FALSE]

Withdrawn(e) == [e EXCEPT !.request = "idle", !.read = None]

(* What QueryStateBoundary shows for it: an error hides the data there is. *)
Surface(e) == IF e.data = None /\ e.request # "idle" THEN "loading"
              ELSE IF e.failed THEN "error" ELSE "success"
=============================================================================
