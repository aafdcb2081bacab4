--------------------------- MODULE MCLipServices ---------------------------
(***************************************************************************)
(* The services about the LIP bot's order path on small instances for TLC. *)
(* They share no state: a behaviour is that of one of them, chosen at the  *)
(* start, and the others stay as they begin.                               *)
(***************************************************************************)
EXTENDS ExploitRunner, RiskGates, Broadcaster, StickyDefense, DefaultQuoting,
        MCCycleLedger, DecisionFiles, TheoSources, RestClient, BotLifecycle, EarningsLog

CONSTANT Parts

VARIABLE part

MCTickerList == <<"a", "b">>
MCTolerance == [s \in QuoteSides |-> 2]

\* The file provider, the wildcard provider, and the TruEV provider, alone.
MCRegistries == {{"file"}, {"*"}, {"truev"}}

\* Where a service may begin in several ways, it begins in one of them when it
\* is not the one that runs.
Init ==
    /\ part \in Parts
    /\ ExploitInit /\ RiskInit /\ BroadcastInit /\ QuotingInit /\ FilesInit
    /\ RestInit /\ LifeInit /\ EarningsInit
    /\ StickyInit /\ (part # "sticky" => sideOf = "bid")
    /\ LedgerInit /\ (part # "ledger" => \A t \in Strips : others[t][2] = {})
    /\ TheoInit /\ (part # "theo" => prefixes = {"truev"})

Next ==
    /\ UNCHANGED part
    /\ IF part = "broadcast" THEN BroadcastNext ELSE UNCHANGED broadcastVars
    /\ IF part = "life" THEN LifeNext ELSE UNCHANGED lifeVars
    /\ IF part = "earnings" THEN EarningsNext ELSE UNCHANGED earningsVars
    /\ IF part = "files" THEN FilesNext ELSE UNCHANGED filesVars
    /\ IF part = "theo" THEN TheoNext ELSE UNCHANGED theoVars
    /\ IF part = "ledger" THEN LedgerNext ELSE UNCHANGED ledgerVars
    /\ IF part = "rest" THEN RestNext ELSE UNCHANGED restVars
    /\ IF part = "exploit" THEN ExploitNext ELSE UNCHANGED exploitVars
    /\ IF part = "sticky" THEN StickyNext ELSE UNCHANGED stickyVars
    /\ IF part = "quoting" THEN QuotingNext ELSE UNCHANGED quotingVars
    /\ IF part = "risk" THEN RiskNext ELSE UNCHANGED riskVars

servicesVars ==
    <<part, exploitVars, riskVars, broadcastVars, stickyVars, quotingVars, ledgerVars,
      filesVars, theoVars, restVars, lifeVars, earningsVars>>

Spec == Init /\ [][Next]_servicesVars /\ BroadcastFairness
=============================================================================
