------------------------------- MODULE Blocks -------------------------------
(***************************************************************************)
(* The definition graphs for which the kernel keeps its promises.          *)
(* validateGraph (src/src/definition/graph.zig) accepts more: joins that a *)
(* branch bypasses, splits right behind splits, choices back to the task   *)
(* just completed.  The predicates below speak of the graph alone.  Each   *)
(* takes a certificate, easy to give for a graph that is drawn in blocks.  *)
(***************************************************************************)
EXTENDS Transition

Splitting(n) == Kind[n] = "PARALLEL_GATEWAY" /\ IsSplit(n)
Joining(n) == Kind[n] = "PARALLEL_GATEWAY" /\ IsJoin(n)
Activity == {n \in Node : Requests(n)}

\* Where a token may stay when the call is over.
Rest(n) ==
  \/ Kind[n] \in {"HUMAN_TASK", "TIMER", "SERVICE_TASK", "SUB_PROCESS"}
  \/ Kind[n] = "PARALLEL_GATEWAY" /\ ~ IsSplit(n)

(***************************************************************************)
(* Homes.  Each token has a home, a set that meets the home of no other:   *)
(* Homes[n] are the homes of tokens on n.  A split divides the home of its *)
(* token, a join unites those of the tokens it merges.                     *)
(***************************************************************************)

\* One home after another at one place, unless it is a place for several tokens.
Apart(Homes, n) ==
  IF Joining(n)
    THEN /\ IsFiniteSet(Homes[n]) /\ Cardinality(Homes[n]) = InDegree(n)
         /\ \A H, K \in Homes[n] : H # K => H \cap K = {}
    ELSE Kind[n] # "END" => \A H, K \in Homes[n] : H \cap K # {}

\* If a portion p[i] of H lies within one edge of a join, H does or each edge of
\* that join gets one.
Portions(Homes, n, H, p) ==
  /\ \A i \in DOMAIN Out[n] : p[i] \in Homes[Out[n][i]]
  /\ \A i, k \in DOMAIN Out[n] : i # k => p[i] \cap p[k] = {}
  /\ \A j \in Node : Joining(j) =>
       \A K, L \in Homes[j], i \in DOMAIN Out[n] :
         p[i] \subseteq K /\ ~ (H \subseteq K) => \E k \in DOMAIN Out[n] : p[k] \subseteq L

Passes(Homes, n) ==
  IF Splitting(n)
    THEN \A H \in Homes[n] : /\ \A K \in Homes[n] : K = H
                             /\ \E p \in [DOMAIN Out[n] -> SUBSET H] : Portions(Homes, n, H, p)
  ELSE IF Joining(n) THEN UNION Homes[n] \in Homes[Out[n][1]]
  ELSE Kind[n] # "PARALLEL_GATEWAY" =>
         \A i \in DOMAIN Out[n] : Homes[n] \subseteq Homes[Out[n][i]]

\* What lies within an edge of a join neither starts there nor ends there, and is
\* a whole block: a join within the edge has all its edges in it.
Encloses(Homes, j) ==
  \A K \in Homes[j] :
    /\ \A n \in Node : Kind[n] \in {"START", "END"} => \A H \in Homes[n] : ~ (H \subseteq K)
    /\ \A i \in Node \ {j} :
         Joining(i) => \A H \in Homes[i] : H \subseteq K => UNION Homes[i] \subseteq K

Divides(Homes) ==
  /\ \A n \in Node : \A H \in Homes[n] : H # {} /\ IsFiniteSet(H)
  /\ Homes[Start] # {}
  /\ \A n \in Node : Apart(Homes, n) /\ Passes(Homes, n) /\ (Joining(n) => Encloses(Homes, n))

(***************************************************************************)
(* How far a call goes.                                                    *)
(***************************************************************************)

\* No branch starts with a join, and what a branch runs through before it rests,
\* all of it in S, contains no split.
Settles(S) ==
  /\ \A n \in Node : Splitting(n) => \A i \in DOMAIN Out[n] : Out[n][i] \in S /\ ~ Joining(Out[n][i])
  /\ \A n \in S : /\ ~ Splitting(n)
                  /\ Kind[n] = "EXCLUSIVE_GATEWAY" \/ Joining(n) =>
                       \A i \in DOMAIN Out[n] : Out[n][i] \in S

\* After[n] holds what is entered once the task n is completed; n is not in it.
ComesBack(After) ==
  \E n \in Node :
    /\ Kind[n] = "HUMAN_TASK"
    /\ ~ (/\ Out[n][1] \in After[n] /\ n \notin After[n]
          /\ \A m \in After[n] : Kind[m] = "EXCLUSIVE_GATEWAY" \/ Splitting(m) \/ Joining(m) =>
               \A i \in DOMAIN Out[m] : Out[m][i] \in After[n])

\* No activity waits beside a split: it would be entered again.
AsksOnce(Homes) ==
  \A n \in Node : Splitting(n) =>
    \A a \in Activity : \A H \in Homes[n], K \in Homes[a] : H \cap K # {}
=============================================================================
