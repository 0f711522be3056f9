------------------------------- MODULE MCCimd -------------------------------
(***************************************************************************)
(* Cimd on small constants: one flight or two, a follower each and one too *)
(* many, and a cache of one entry under a clock that may go backward.      *)
(***************************************************************************)
EXTENDS Cimd, TLC

View(maxAge, age, date) == [maxAge |-> maxAge, age |-> age, date |-> date]

\* Fresh for longer than the cap, and already stale on arrival.
MCViews == {View(3, 0, None), View(1, 1, None)}
=============================================================================
