--------------------------- MODULE MCListPartition ---------------------------
(* An instance of ListPartition with two nodes for each of two threads. *)
EXTENDS ListPartition

\* The threads are alike, so the first key of the first can be taken not to be
\* greater than that of the other.  Without locks there are many more behaviours:
\* then the keys of each thread are 0 and 0, or 0 and 1.
MCInit ==
  /\ Init
  /\ \A t \in ThreadIds : key[0] <= key[startind(t)]
  /\ ~UsesLock => \A n \in Nodes : key[n] \in {0, n % iterations} /\ key[n] = key[n % iterations]

MCSpec == MCInit /\ [][Next]_vars /\ Fairness
=============================================================================
