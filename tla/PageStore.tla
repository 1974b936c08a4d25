------------------------------ MODULE PageStore ------------------------------
(***************************************************************************)
(* What a buffer pool promises the code above it: a set of numbered pages, *)
(* each with contents that change only when the holder of a pin writes     *)
(* through its pointer.  Frames, eviction, dirty flags and the disk do not *)
(* appear here: caching must be invisible.                                 *)
(***************************************************************************)
EXTENDS Integers

CONSTANTS MaxPages, MaxPins, Data, Unwritten

VARIABLES
    allocated,  \* page ids handed out are 0 .. allocated - 1
    contents,   \* contents[p]: what the last write to p left, or Unwritten
    held,       \* held[p]: pins the client holds on p
    unflagged   \* pages written since they were last unpinned

PageId == 0 .. MaxPages - 1

Init ==
    /\ allocated = 0
    /\ contents = [p \in PageId |-> Unwritten]
    /\ held = [p \in PageId |-> 0]
    /\ unflagged = {}

Allocate ==
    /\ allocated < MaxPages
    /\ allocated' = allocated + 1
    /\ held' = [held EXCEPT ![allocated] = 1]
    /\ UNCHANGED <<contents, unflagged>>

Pin(p) ==
    /\ p < allocated
    /\ held[p] < MaxPins
    /\ held' = [held EXCEPT ![p] = @ + 1]
    /\ UNCHANGED <<allocated, contents, unflagged>>

\* The writes of a client that does not flag them are given up.
Unpin(p, is_dirty) ==
    /\ held[p] > 0
    /\ held' = [held EXCEPT ![p] = @ - 1]
    /\ contents' = IF is_dirty \/ p \notin unflagged THEN contents
                   ELSE [contents EXCEPT ![p] = Unwritten]
    /\ unflagged' = unflagged \ {p}
    /\ UNCHANGED allocated

Write(p, d) ==
    /\ held[p] > 0
    /\ contents' = [contents EXCEPT ![p] = d]
    /\ unflagged' = unflagged \cup {p}
    /\ UNCHANGED <<allocated, held>>

Next ==
    \/ Allocate
    \/ \E p \in PageId :
          \/ Pin(p)
          \/ \E is_dirty \in BOOLEAN : Unpin(p, is_dirty)
          \/ \E d \in Data : Write(p, d)

Spec == Init /\ [][Next]_<<allocated, contents, held, unflagged>>
==============================================================================
