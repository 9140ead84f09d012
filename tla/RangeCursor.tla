---------------------------- MODULE RangeCursor ----------------------------
(***************************************************************************)
(* What an iterator promises, whatever its index looks like: a cursor on a *)
(* fixed set S of numbers.  r.pos is where it stands, r.at the member of S *)
(* the last call returned (NoItem: none, the call failed).                 *)
(***************************************************************************)
EXTENDS WalCursor

\* Before the first and after the last member.
Beyond(d) == 100 * d

Arrived(S, d) == [at |-> Pick(S, d), pos |-> IF S = {} THEN Beyond(d) ELSE Pick(S, d)]

\* "Move the iterator forward / backward by one."
Walked(S, r, d) == Arrived({k \in S : d * k > d * r.pos}, d)

\* A seek to q: q itself, or the next one in direction d.
Sought(S, q, d) == Arrived({k \in S : d * k >= d * q}, d)

\* A call that is refused leaves the cursor where it is.
Refused(r) == [r EXCEPT !.at = NoItem]
=============================================================================
