----------------------------- MODULE EventWindow -----------------------------
(***************************************************************************)
(* What deduplication promises, whatever keeps the ids: a process takes an  *)
(* event for a duplicate exactly when it was presented with it before and   *)
(* with fewer than Capacity other events since.  A process that restarts    *)
(* has seen nothing.                                                        *)
(***************************************************************************)
EXTENDS Naturals, FiniteSets

CONSTANTS Replicas, \* the processes, each with its own memory
          Ids,      \* event ids
          Tries,    \* what tells the deliveries of one event apart
          Capacity  \* how many ids a process remembers

VARIABLES presented, \* presented[r]: the ids r has been presented with
          since,     \* since[r][i]: the ids presented to r after i last was
          serving    \* the deliveries that were handed to a handler: <<r, i, n>>

windowVars == <<presented, since, serving>>

InWindow(r, i) == i \in presented[r] /\ Cardinality(since[r][i]) < Capacity

NothingSince == [i \in Ids |-> {}]

Init ==
  /\ presented = [r \in Replicas |-> {}]
  /\ since = [r \in Replicas |-> NothingSince]
  /\ serving = {}

\* r is presented with i ...
Note(r, i) ==
  /\ presented' = [presented EXCEPT ![r] = @ \union {i}]
  /\ since' = [since EXCEPT ![r] = [j \in Ids |-> IF j = i THEN {}
                                                  ELSE since[r][j] \union {i}]]

\* ... and hands it to a handler unless it is a duplicate, whether or not an earlier
\* delivery is still being handled.
Present(r, i, n) ==
  /\ Note(r, i)
  /\ serving' = IF InWindow(r, i) THEN serving ELSE serving \union {<<r, i, n>>}

Finish(d) ==
  /\ serving' = serving \ {d}
  /\ UNCHANGED <<presented, since>>

Forget(r) ==
  /\ presented' = [presented EXCEPT ![r] = {}]
  /\ since' = [since EXCEPT ![r] = NothingSince]

Restart(r) ==
  /\ Forget(r)
  /\ serving' = {d \in serving : d[1] # r}

Next ==
  \/ \E r \in Replicas : Restart(r)
  \/ \E r \in Replicas, i \in Ids, n \in Tries : Present(r, i, n)
  \/ \E d \in serving : Finish(d)

Spec == Init /\ [][Next]_windowVars
=============================================================================
