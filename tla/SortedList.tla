----------------------------- MODULE SortedList -----------------------------
(***************************************************************************)
(* lab2a/SortedList.c and lab2b/SortedList.c (the same file): insert,      *)
(* delete, lookup and length of a circular doubly linked list, as the      *)
(* steps of the threads that call them.  A step is one store or one C      *)
(* expression; the actions are parameterised by the calling thread and the *)
(* arguments of the call.  A call begins at the label named for it and     *)
(* ends at "ret" (insert and length return, delete returns 0), "found"     *)
(* (lookup, with the node in temp), "fail" (lookup returns NULL, delete    *)
(* returns 1) or "segv" (a pointer that points nowhere is followed).       *)
(* The --yield options add calls of sched_yield() between these steps.     *)
(***************************************************************************)
EXTENDS ThreadSizes

CONSTANTS
  num_lists,   \* --lists; 1 in lab2a
  Keys,        \* the keys, numbered in the order strcmp() gives them
  NULL,        \* the null pointer
  Wild         \* an uninitialised pointer that points nowhere

ASSUME ListSizesAssumption ==
  /\ threads > 0 /\ iterations > 0
  /\ num_lists \in Nat \ {0}
  /\ Keys \subseteq Nat

\* The struct SortedListElement of the program: nodelist[0] and so on, then
\* the list heads.
numNodes == threads * iterations
Nodes == 0 .. numNodes - 1
HeadOf(l) == numNodes + l
Heads == {HeadOf(l) : l \in 0 .. num_lists - 1}
Cells == Nodes \cup Heads

ASSUME PointersAssumption == NULL # Wild /\ {NULL, Wild} \cap (Cells \cup Keys) = {}

VARIABLES
  next, prev,  \* the pointers in each cell
  key,         \* the key in each cell, NULL in a list head
  pc,          \* where each thread is
  temp,        \* its local variable temp
  nextnode     \* its local variable nextnode

listVars == <<next, prev, key, pc, temp, nextnode>>

\* main clears the heads and leaves the links of the nodes as malloc gave them.
ListsInit ==
  /\ \E garbage \in {NULL, Wild} :
       /\ next = [c \in Cells |-> IF c \in Nodes THEN garbage ELSE NULL]
       /\ prev = next
  /\ \E k \in [Nodes -> Keys] :
       key = [c \in Cells |-> IF c \in Nodes THEN k[c] ELSE NULL]
  /\ temp = [t \in ThreadIds |-> NULL]
  /\ nextnode = [t \in ThreadIds |-> NULL]

Goto(t, label) == pc' = [pc EXCEPT ![t] = label]

\* What follows p->next or p->prev; a p that points nowhere faults.
Points(p) == p \in Cells

-----------------------------------------------------------------------------
(* SortedList_insert(list, element). *)

\* if (list->next == NULL)
Insert(t, list) ==
  /\ pc[t] = "insert"
  /\ IF next[list] = NULL
     THEN Goto(t, "empty1") /\ UNCHANGED temp
     ELSE Goto(t, "scan") /\ temp' = [temp EXCEPT ![t] = list]
  /\ UNCHANGED <<next, prev, key, nextnode>>

\* Into an empty list: list->next, element->next, element->prev, list->prev.
EmptyLink(t, list, element) ==
  /\ \/ /\ pc[t] = "empty1"
        /\ next' = [next EXCEPT ![list] = element]
        /\ Goto(t, "empty2") /\ UNCHANGED prev
     \/ /\ pc[t] = "empty2"
        /\ next' = [next EXCEPT ![element] = list]
        /\ Goto(t, "empty3") /\ UNCHANGED prev
     \/ /\ pc[t] = "empty3"
        /\ prev' = [prev EXCEPT ![element] = list]
        /\ Goto(t, "empty4") /\ UNCHANGED next
     \/ /\ pc[t] = "empty4"
        /\ prev' = [prev EXCEPT ![list] = element]
        /\ Goto(t, "ret") /\ UNCHANGED next
  /\ UNCHANGED <<key, temp, nextnode>>

\* temp->next->key != NULL
ScanHead(t) ==
  /\ pc[t] = "scan"
  /\ LET ahead == next[temp[t]] IN
     Goto(t, IF ~Points(ahead) THEN "segv"
             ELSE IF key[ahead] = NULL THEN "nextnode" ELSE "compare")
  /\ UNCHANGED <<next, prev, key, temp, nextnode>>

\* strcmp(temp->next->key, element->key) < 0, which follows the links again
ScanCompare(t, element) ==
  /\ pc[t] = "compare"
  /\ LET ahead == next[temp[t]] IN
     Goto(t, IF ~Points(ahead) THEN "segv"
             ELSE IF key[ahead] = NULL THEN "segv"
             ELSE IF key[ahead] < key[element] THEN "advance" ELSE "nextnode")
  /\ UNCHANGED <<next, prev, key, temp, nextnode>>

\* temp = temp->next; temp->next was followed a moment ago, so temp points to
\* a cell, but what is there now may not.
ScanAdvance(t) ==
  /\ pc[t] = "advance"
  /\ IF Points(next[temp[t]])
     THEN temp' = [temp EXCEPT ![t] = next[temp[t]]] /\ Goto(t, "scan")
     ELSE Goto(t, "segv") /\ UNCHANGED temp
  /\ UNCHANGED <<next, prev, key, nextnode>>

\* nextnode = temp->next
TakeNextNode(t) ==
  /\ pc[t] = "nextnode"
  /\ nextnode' = [nextnode EXCEPT ![t] = next[temp[t]]]
  /\ Goto(t, "link1")
  /\ UNCHANGED <<next, prev, key, temp>>

\* temp->next, nextnode->prev, element->next, element->prev; the locals end.
Link(t, element) ==
  /\ \/ /\ pc[t] = "link1"
        /\ next' = [next EXCEPT ![temp[t]] = element]
        /\ Goto(t, "link2") /\ UNCHANGED <<prev, temp, nextnode>>
     \/ /\ pc[t] = "link2"
        /\ IF Points(nextnode[t])
           THEN prev' = [prev EXCEPT ![nextnode[t]] = element] /\ Goto(t, "link3")
           ELSE Goto(t, "segv") /\ UNCHANGED prev
        /\ UNCHANGED <<next, temp, nextnode>>
     \/ /\ pc[t] = "link3"
        /\ next' = [next EXCEPT ![element] = nextnode[t]]
        /\ Goto(t, "link4") /\ UNCHANGED <<prev, temp, nextnode>>
     \/ /\ pc[t] = "link4"
        /\ prev' = [prev EXCEPT ![element] = temp[t]]
        /\ temp' = [temp EXCEPT ![t] = NULL]
        /\ nextnode' = [nextnode EXCEPT ![t] = NULL]
        /\ Goto(t, "ret") /\ UNCHANGED next
  /\ UNCHANGED key

InsertStep(t, list, element) ==
  \/ Insert(t, list) \/ EmptyLink(t, list, element)
  \/ ScanHead(t) \/ ScanCompare(t, element) \/ ScanAdvance(t)
  \/ TakeNextNode(t) \/ Link(t, element)

-----------------------------------------------------------------------------
(* SortedList_delete(element).  Each C expression is one step here, with the *)
(* two to four links it reads.                                               *)

\* element->next == NULL || element->prev == NULL
Delete(t, element) ==
  /\ pc[t] = "delete"
  /\ Goto(t, IF next[element] = NULL \/ prev[element] = NULL THEN "fail" ELSE "check")
  /\ UNCHANGED <<next, prev, key, temp, nextnode>>

\* element->next->prev != element->prev->next
DeleteCheck(t, element) ==
  /\ pc[t] = "check"
  /\ Goto(t, IF ~Points(next[element]) \/ ~Points(prev[element]) THEN "segv"
             ELSE IF prev[next[element]] # next[prev[element]] THEN "fail"
             ELSE "unlink1")
  /\ UNCHANGED <<next, prev, key, temp, nextnode>>

\* Mutant: only the forward link is taken out.
UnlinkForwardOnly(t, element) ==
  /\ pc[t] = "unlink1"
  /\ next' = [next EXCEPT ![prev[element]] = next[element]]
  /\ Goto(t, "ret")
  /\ temp' = [temp EXCEPT ![t] = NULL]
  /\ UNCHANGED <<prev, key, nextnode>>

\* element->next->prev = element->prev; element->prev->next = element->next
Unlink(t, element) ==
  /\ \/ /\ pc[t] = "unlink1"
        /\ IF Points(next[element])
           THEN prev' = [prev EXCEPT ![next[element]] = prev[element]] /\ Goto(t, "unlink2")
           ELSE Goto(t, "segv") /\ UNCHANGED prev
        /\ UNCHANGED <<next, temp>>
     \/ /\ pc[t] = "unlink2"
        /\ IF Points(prev[element])
           THEN /\ next' = [next EXCEPT ![prev[element]] = next[element]]
                /\ temp' = [temp EXCEPT ![t] = NULL] /\ Goto(t, "ret")
           ELSE Goto(t, "segv") /\ UNCHANGED <<next, temp>>
        /\ UNCHANGED prev
  /\ UNCHANGED <<key, nextnode>>

DeleteStep(t, element) == Delete(t, element) \/ DeleteCheck(t, element) \/ Unlink(t, element)

-----------------------------------------------------------------------------
(* SortedList_lookup(list, element->key). *)

\* temp = list->next
Lookup(t, list) ==
  /\ pc[t] = "lookup"
  /\ temp' = [temp EXCEPT ![t] = next[list]]
  /\ Goto(t, "look")
  /\ UNCHANGED <<next, prev, key, nextnode>>

\* Mutant: the sign of strcmp() is taken the wrong way round.
LookupStepAtMost(t, list, element) ==
  /\ pc[t] = "look"
  /\ IF temp[t] \in {NULL, list}
     THEN Goto(t, "fail") /\ UNCHANGED temp
     ELSE IF ~Points(temp[t])
     THEN Goto(t, "segv") /\ UNCHANGED temp
     ELSE IF key[temp[t]] = NULL
     THEN Goto(t, "segv") /\ UNCHANGED temp
     ELSE IF key[temp[t]] <= key[element]
     THEN Goto(t, "found") /\ UNCHANGED temp
     ELSE temp' = [temp EXCEPT ![t] = next[temp[t]]] /\ Goto(t, "look")
  /\ UNCHANGED <<next, prev, key, nextnode>>

\* One round of the loop.
LookupStep(t, list, element) ==
  /\ pc[t] = "look"
  /\ IF temp[t] \in {NULL, list}
     THEN Goto(t, "fail") /\ UNCHANGED temp
     ELSE IF ~Points(temp[t])
     THEN Goto(t, "segv") /\ UNCHANGED temp
     ELSE IF key[temp[t]] = NULL
     THEN Goto(t, "segv") /\ UNCHANGED temp
     ELSE IF key[temp[t]] = key[element]
     THEN Goto(t, "found") /\ UNCHANGED temp
     ELSE temp' = [temp EXCEPT ![t] = next[temp[t]]] /\ Goto(t, "look")
  /\ UNCHANGED <<next, prev, key, nextnode>>

-----------------------------------------------------------------------------
(* SortedList_length(list).  No caller uses the count of a list that threads *)
(* are still working on, so the walk is modelled and the count is not.       *)

\* temp = list->next
Length(t, list) ==
  /\ pc[t] = "length"
  /\ temp' = [temp EXCEPT ![t] = next[list]]
  /\ Goto(t, "count")
  /\ UNCHANGED <<next, prev, key, nextnode>>

\* Mutant: the walk looks for the end of a list that is not circular.
LengthStepToNull(t, list) ==
  /\ pc[t] = "count"
  /\ IF temp[t] = NULL
     THEN Goto(t, "ret") /\ UNCHANGED temp
     ELSE temp' = [temp EXCEPT ![t] = next[temp[t]]] /\ Goto(t, "count")
  /\ UNCHANGED <<next, prev, key, nextnode>>

LengthStep(t, list) ==
  /\ pc[t] = "count"
  /\ IF temp[t] \in {NULL, list}
     THEN Goto(t, "ret") /\ temp' = [temp EXCEPT ![t] = NULL]
     ELSE IF ~Points(temp[t])
     THEN Goto(t, "segv") /\ UNCHANGED temp
     ELSE temp' = [temp EXCEPT ![t] = next[temp[t]]] /\ Goto(t, "count")
  /\ UNCHANGED <<next, prev, key, nextnode>>

-----------------------------------------------------------------------------
(* What the links say. *)

ListPcs == {"insert", "empty1", "empty2", "empty3", "empty4", "scan", "compare",
            "advance", "nextnode", "link1", "link2", "link3", "link4",
            "delete", "check", "unlink1", "unlink2", "lookup", "look",
            "length", "count", "ret", "found", "fail", "segv"}

ListsTypeOK ==
  /\ next \in [Cells -> Cells \cup {NULL, Wild}]
  /\ prev \in [Cells -> Cells \cup {NULL, Wild}]
  /\ DOMAIN key = Cells
  /\ \A c \in Cells : IF c \in Nodes THEN key[c] \in Keys ELSE key[c] = NULL
  /\ temp \in [ThreadIds -> Cells \cup {NULL, Wild}]
  /\ nextnode \in [ThreadIds -> Cells \cup {NULL, Wild}]

\* A node is on a list when a neighbour points back at it: from the third
\* store of an insertion to the last store of a deletion.
Linked(n) ==
  \/ Points(next[n]) /\ prev[next[n]] = n
  \/ Points(prev[n]) /\ next[prev[n]] = n

\* The cells that following next from a head goes through in k steps.
Walk(l) ==
  LET reached[k \in 0 .. numNodes] ==
        IF k = 0 THEN {HeadOf(l)}
        ELSE reached[k - 1] \cup ({next[c] : c \in reached[k - 1]} \cap Cells)
  IN reached[numNodes]

\* SortedList.h: the list is circular through its head, doubly linked and
\* sorted.  A list that was never used has NULL links.
Sound(l) ==
  \/ Walk(l) = {HeadOf(l)} /\ next[HeadOf(l)] = NULL /\ prev[HeadOf(l)] = NULL
  \/ \A c \in Walk(l) :
       /\ Points(next[c]) /\ Points(prev[c])
       /\ prev[next[c]] = c /\ next[prev[c]] = c
       /\ c \in Heads => c = HeadOf(l)
       /\ c \in Nodes /\ next[c] \in Nodes => key[c] <= key[next[c]]
=============================================================================
