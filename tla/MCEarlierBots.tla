---------------------------- MODULE MCEarlierBots ---------------------------
(***************************************************************************)
(* The earlier bots and the tools beside the LIP bot on small instances    *)
(* for TLC.  They share no state: a behaviour is that of one of them,      *)
(* chosen at the start, and the others stay as they begin.  (The soybean   *)
(* bot and its position store are two parts: the store also counts fills   *)
(* that this bot does not make.)                                           *)
(***************************************************************************)
EXTENDS LipMode, LipModeQuote, GrainBot, GrainQuotes, KalshiWs, PennyBot,
        PoolStore, ScoreTracker, FeedCapture, QuickRounds, Reanchor, EventGrid

CONSTANT Parts

VARIABLE part

\* Two events of one strike each, one after the other.
MCEventStrikes == << <<"s1">>, <<"s2">> >>

MCTops == {<<0, 100>>, <<46, 54>>}
MCSkews == {-3, 3}
MCChannels == <<"book", "orders", "fill">>

\* Yes at the higher strike and no at the lower cannot both win.
MCStrike == [lo |-> 1, hi |-> 2]
MCKeys == {<<"hi", "yes">>, <<"lo", "no">>}
MCPennyTops == {<<60, 80>>}

\* Two programs of one market.
MCPeriods == {[market |-> "a", start |-> 1, end |-> 1], [market |-> "a", start |-> 1, end |-> 2]}

MCWindows == [hour |-> 0, day |-> 1]
MCEventLists == {<<"m1">>, <<"m1", "m2">>}
MCPolls == [books |-> 1, trades |-> 2]
MCLegs == <<"bid", "ask">>

\* Where a part may begin in several ways, it begins in one of them when it is
\* not the one that runs.
Init ==
    /\ part \in Parts
    /\ ModeInit /\ ModeQuoteInit /\ GrainQuotesInit /\ WsInit /\ PennyInit
    /\ PoolInit /\ ScoreInit /\ QuickInit /\ ReanchorInit
    /\ GrainInit /\ (part # "grain" => ib)
    /\ CaptureInit /\ (part # "capture" => open = CHOOSE list \in EventLists : TRUE)
    /\ IF part = "grid" THEN GridInit ELSE offered = <<>> /\ grid = Waiting

\* The others stand still.
Still ==
    /\ part # "mode" => UNCHANGED modeVars
    /\ part # "quote" => UNCHANGED modeQuoteVars
    /\ part \notin {"grain", "positions"} => UNCHANGED grainVars
    /\ part # "strikes" => UNCHANGED grainQuoteVars
    /\ part # "socket" => UNCHANGED wsVars
    /\ part # "penny" => UNCHANGED pennyVars
    /\ part # "pools" => UNCHANGED poolVars
    /\ part # "scores" => UNCHANGED scoreVars
    /\ part # "capture" => UNCHANGED captureVars
    /\ part # "quick" => UNCHANGED quickVars
    /\ part # "reanchor" => UNCHANGED reanchorVars
    /\ part # "grid" => UNCHANGED gridVars
    /\ UNCHANGED part

Next ==
    /\ Still
    /\ \/ part = "mode" /\ ModeNext
       \/ part = "quote" /\ ModeQuoteNext
       \/ part = "grain" /\ GrainNext
       \/ /\ part = "positions" /\ PositionNext
          /\ UNCHANGED <<grainBook, issued, trades, listed, cyc, running, ib, futures>>
       \/ part = "strikes" /\ GrainQuotesNext
       \/ part = "socket" /\ WsNext
       \/ part = "penny" /\ PennyNext
       \/ part = "pools" /\ PoolNext
       \/ part = "scores" /\ ScoreNext
       \/ part = "capture" /\ CaptureNext
       \/ part = "quick" /\ QuickNext
       \/ part = "reanchor" /\ ReanchorNext
       \/ part = "grid" /\ GridNext

earlierVars ==
    <<part, modeVars, modeQuoteVars, grainVars, grainQuoteVars, wsVars, pennyVars, poolVars,
      scoreVars, captureVars, quickVars, reanchorVars, gridVars>>

Spec == Init /\ [][Next]_earlierVars
=============================================================================
