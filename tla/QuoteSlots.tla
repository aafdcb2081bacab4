----------------------------- MODULE QuoteSlots -----------------------------
(***************************************************************************)
(* What lipmm/execution/order_manager.py promises its callers, without     *)
(* requests, answers or order identifiers: each (ticker, side) is a slot   *)
(* that holds at most one quote; calls on a slot happen one at a time; and *)
(* the only quote that can newly appear in a slot is the one the call in   *)
(* progress on it asked for.  Quotes leave a slot at any time (fills).     *)
(***************************************************************************)
EXTENDS Integers

CONSTANTS
    Keys,   \* (ticker, side) pairs
    Prices, \* limit prices, in cents
    Sizes,  \* order sizes, in contracts
    None,   \* an empty slot; no call in progress
    Skip    \* the decision not to quote

VARIABLES
    slot,   \* key -> the quote resting at the exchange
    target  \* key -> the decision of the call in progress

vars == <<slot, target>>

Quotes == [px : Prices, sz : Sizes]

Init ==
    /\ slot = [k \in Keys |-> None]
    /\ target = [k \in Keys |-> None]

\* A call takes the slot, with its decision.
Begin(k) ==
    /\ target[k] = None
    /\ \E d \in Quotes \cup {Skip} : target' = [target EXCEPT ![k] = d]
    /\ UNCHANGED slot

\* The call in progress puts its quote into the slot, empty or not.
Quote(k) ==
    /\ target[k] \in Quotes
    /\ slot' = [slot EXCEPT ![k] = target[k]]
    /\ UNCHANGED target

\* The slot empties: cancelled by the call in progress, or filled.
Clear(k) ==
    /\ slot[k] # None
    /\ slot' = [slot EXCEPT ![k] = None]
    /\ UNCHANGED target

\* A partial fill.
Shrink(k) ==
    /\ slot[k] # None
    /\ \E n \in Sizes :
         /\ n < slot[k].sz
         /\ slot' = [slot EXCEPT ![k].sz = n]
    /\ UNCHANGED target

\* The call returns.
End(k) ==
    /\ target[k] # None
    /\ target' = [target EXCEPT ![k] = None]
    /\ UNCHANGED slot

\* The process restarts: calls are abandoned, the slots keep their quotes.
Restart ==
    /\ target' = [k \in Keys |-> None]
    /\ UNCHANGED slot

Next ==
    \/ \E k \in Keys : Begin(k) \/ Quote(k) \/ Clear(k) \/ Shrink(k) \/ End(k)
    \/ Restart

Spec == Init /\ [][Next]_vars
=============================================================================
