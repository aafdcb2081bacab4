--------------------------- MODULE MCOrderManager ---------------------------
(* The order manager on small instances for TLC.                           *)
EXTENDS OrderManagerInv

\* Faults that leave the bot's view recoverable: requests that never reach
\* the exchange, and amends and cancels that are executed but not answered.
MCBenignFaults ==
    {<<"place", "unreached">>, <<"amend", "unreached">>,
     <<"amend", "unanswered">>, <<"cancel", "unanswered">>}

MCNoFaults == {}

\* Unknown, or too little for the dearest order of the instance.
MCCash == {None, 2}

=============================================================================
