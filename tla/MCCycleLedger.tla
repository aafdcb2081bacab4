--------------------------- MODULE MCCycleLedger ---------------------------
(* The runner's bookkeeping on a small instance for TLC.                   *)
EXTENDS CycleLedger

\* A market of two one-lot bids, and one whose bids are on one side only.
MCOtherBooks == {<<{<<50, 20>>}, {<<44, 20>>}>>, <<{<<52, 5>>, <<50, 20>>}, {}>>}

\* Nothing rests, a bid rests at the others' best, both sides bid and the
\* first is ahead of the others.
MCOwnBids == {<<0, 0>>, <<50, 0>>, <<51, 44>>}

\* A half for each cent of distance, in sixteenths: no two prices here are further apart.
MCDiscount == [d \in 0 .. 98 |-> IF d <= 4 THEN 2 ^ (4 - d) ELSE 0]
=============================================================================
