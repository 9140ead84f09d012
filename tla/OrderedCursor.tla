--------------------------- MODULE OrderedCursor ---------------------------
(***************************************************************************)
(* What an iterator over a fixed, ordered set of keys promises: next gives *)
(* the smallest key above the last one returned, prev the largest below    *)
(* it; the first move after the cursor was placed at a key (or after a     *)
(* move failed) may return that key itself.                                *)
(***************************************************************************)
EXTENDS Integers

CONSTANT Failed         \* returned when there is no such key

VARIABLES keys,         \* the keys, fixed for the life of the cursor
          at,           \* where the cursor is
          fresh,        \* at itself has not been passed yet
          got           \* what the last move returned

Above == {k \in keys : k > at \/ (fresh /\ k = at)}
Below == {k \in keys : k < at \/ (fresh /\ k = at)}

Go(S, k) == IF S = {} THEN got' = Failed /\ at' = at /\ fresh' = TRUE
            ELSE got' = k /\ at' = k /\ fresh' = FALSE

Next == Go(Above, CHOOSE k \in Above : \A j \in Above : k <= j) /\ UNCHANGED keys
Prev == Go(Below, CHOOSE k \in Below : \A j \in Below : k >= j) /\ UNCHANGED keys

CursorInit == got = Failed /\ fresh = TRUE
CursorSpec == CursorInit /\ [][Next \/ Prev]_<<keys, at, fresh, got>>
=============================================================================
