---------------------------- MODULE ExploitRunner ----------------------------
(***************************************************************************)
(* The exploit runner (lipmm/exploit): a market climbs a ladder of bait    *)
(* orders on one side, takes the opposite quote, and comes back for the    *)
(* other leg.  One loop ticks the registered market; the operator starts,  *)
(* pauses, resumes, kills and removes it (lipmm/control/server.py), and a  *)
(* kill spawns a sweep of the resting bait.                                *)
(*                                                                         *)
(* tick.at is the await a tick is at.  An answer of the exchange and the   *)
(* code up to the next await are one step.  Entries are the objects of the *)
(* registry: a tick that is under way keeps the entry it began with.       *)
(***************************************************************************)
EXTENDS Integers, FiniteSets

CONSTANTS
    BidTarget, AskTarget,  \* ExploitConfig.bid_target_c, ask_target_c
    LadderStep,            \* ExploitConfig.step_c
    Patience,              \* predator_absence_timeout_cycles
    MaxLoss,               \* max_loss_dollars, in cents
    MaxRounds,             \* max_rounds: safety cap, 0 for none
    PredatorOffset,        \* predator_offset_c
    LevelPrices,           \* prices the opposite best quote may have
    MaxEntries,            \* bound: markets registered
    MaxBaits,              \* bound: orders the exchange accepts
    ExploitFaults          \* subset of {"cancel", "place", "rests"}

\* ExploitConfig: a target above the other side's, steps of at least a cent.
ExploitConfig ==
    /\ BidTarget \in 1 .. 99 /\ AskTarget \in 1 .. 99
    /\ AskTarget < BidTarget
    /\ LadderStep \in Nat \ {0} /\ Patience \in Nat /\ MaxLoss \in Nat
    /\ PredatorOffset \in Nat
    /\ MaxRounds \in Nat /\ MaxEntries \in Nat /\ MaxBaits \in Nat
    /\ LevelPrices \subseteq 1 .. 99

ASSUME ExploitAssumption == ExploitConfig

VARIABLES
    market,      \* entry -> ExploitMarket
    registered,  \* the entry that is registered, 0 for none
    made,        \* entries made so far
    tick,        \* the runner's tick
    purge,       \* order id the kill handler's sweep is cancelling
    baits,       \* identifiers of orders open at the exchange
    baitIds,     \* orders the exchange has accepted
    dropped      \* history: orders let go of that may still rest

exploitVars == <<market, registered, made, tick, purge, baits, baitIds, dropped>>

registry == <<registered, made>>

Entries == 1 .. MaxEntries
\* ExploitState._initial_ladder_c.
LadderStart(side) ==
    IF side = "bid"
    THEN IF BidTarget - 4 * LadderStep > 1 THEN BidTarget - 4 * LadderStep ELSE 1
    ELSE IF AskTarget + 4 * LadderStep < 99 THEN AskTarget + 4 * LadderStep ELSE 99

Opposite(side) == IF side = "bid" THEN "ask" ELSE "bid"

\* A price of 0 is None, and an order of 0 is None.
NewMarket == [phase |-> "idle", side |-> "bid", ladder |-> LadderStart("bid"),
              bait |-> 0, paused |-> FALSE, rounds |-> 0, misses |-> 0,
              sold |-> 0, bought |-> 0, pnl |-> 0, cooling |-> FALSE]

NoTick == [at |-> "none", entry |-> 0, target |-> FALSE, price |-> 0]

ExploitInit ==
    /\ market = [i \in Entries |-> NewMarket]
    /\ registered = 0
    /\ made = 0
    /\ tick = NoTick
    /\ purge = 0
    /\ baits = {}
    /\ baitIds = 0
    /\ dropped = {}

Ours == market[tick.entry]

LossBreached(i) == market[i].pnl <= -MaxLoss
RoundsUsedUp(i) == MaxRounds > 0 /\ market[i].rounds >= MaxRounds

\* The tick's entry as the code has changed it.
Becomes(r) == market' = [market EXCEPT ![tick.entry] = r]
AtAwait(stage) == tick' = [tick EXCEPT !.at = stage]
TickDone == tick' = NoTick

Laddering(r, side) ==
    [r EXCEPT !.phase = "ladder", !.side = side, !.ladder = LadderStart(side),
              !.bait = 0, !.misses = 0]

\* step_ladder: one step towards the target of the side.
NextRung(r) ==
    IF r.side = "bid"
    THEN IF r.ladder + LadderStep < BidTarget THEN r.ladder + LadderStep
                                              ELSE BidTarget
    ELSE IF r.ladder - LadderStep > AskTarget THEN r.ladder - LadderStep
                                              ELSE AskTarget

AtTarget(r) == IF r.side = "bid" THEN r.ladder >= BidTarget
                                 ELSE r.ladder <= AskTarget

-----------------------------------------------------------------------------
(* A tick, up to its first await.                                          *)

\* _cleanup_resting, awaited at stage: without a bait there is no await.
Clean(i, stage) ==
    /\ market[i].bait # 0
    /\ tick' = [NoTick EXCEPT !.at = stage, !.entry = i]

StepEntry(i, r) == market' = [market EXCEPT ![i] = r] /\ UNCHANGED tick

\* Killed, paused, or beyond the loss limit: only the bait is pulled.
AdvanceStopped(i) ==
    LET stopped == market[i].phase = "killed" \/ market[i].paused
    IN  /\ stopped \/ LossBreached(i)
        /\ market' = IF stopped THEN market
                     ELSE [market EXCEPT ![i].phase = "killed"]
        /\ \/ Clean(i, "cleanup")
           \/ market[i].bait = 0 /\ UNCHANGED tick

\* IDLE and the two cooldowns.
AdvanceQuiet(i) ==
    LET r == market[i]
    IN  \/ /\ r.phase = "idle"
           /\ StepEntry(i, IF RoundsUsedUp(i) THEN [r EXCEPT !.phase = "killed"]
                           ELSE Laddering(r, r.side))
        \/ /\ r.phase = "between_legs" /\ ~r.cooling
           /\ StepEntry(i, Laddering(r, Opposite(r.side)))
        \/ /\ r.phase = "after_round" /\ ~r.cooling
           /\ StepEntry(i, IF RoundsUsedUp(i) THEN [r EXCEPT !.phase = "killed"]
                           ELSE [r EXCEPT !.phase = "idle",
                                          !.side = Opposite(r.side)])

\* Mutant of AdvanceAbort: the bait is not cleaned up before the retry.
AdvanceAbortDirty(i) ==
    market[i].phase = "abort" /\ StepEntry(i, [market[i] EXCEPT !.phase = "idle"])

AdvanceAbort(i) ==
    /\ market[i].phase = "abort"
    /\ \/ Clean(i, "retry") /\ UNCHANGED market
       \/ /\ market[i].bait = 0
          /\ StepEntry(i, [market[i] EXCEPT !.phase = "idle"])

\* _tick_ladder: place the first bait, or step the ladder and replace it.
AdvanceLadder(i) ==
    LET up == [market[i] EXCEPT !.ladder = NextRung(market[i])]
    IN  /\ market[i].phase = "ladder"
        /\ \/ /\ market[i].bait = 0
              /\ tick' = [NoTick EXCEPT !.at = "bait", !.entry = i]
              /\ UNCHANGED market
           \/ /\ market[i].bait # 0
              /\ market' = [market EXCEPT ![i] = up]
              /\ tick' = [NoTick EXCEPT !.at = "swap", !.entry = i,
                                        !.target = AtTarget(up)]

\* _tick_extract, up to the cancel of the bait or the look at the book.
AdvanceExtract(i) ==
    /\ market[i].phase = "extract"
    /\ tick' = [NoTick EXCEPT !.at = IF market[i].bait # 0 THEN "clear" ELSE "look",
                              !.entry = i]
    /\ UNCHANGED market

\* _advance: one market, one tick at a time.
Advance ==
    /\ tick.at = "none"
    /\ registered # 0
    /\ \/ AdvanceStopped(registered)
       \/ /\ market[registered].phase # "killed" /\ ~market[registered].paused
          /\ ~LossBreached(registered)
          /\ \/ AdvanceQuiet(registered) \/ AdvanceAbort(registered)
             \/ AdvanceLadder(registered) \/ AdvanceExtract(registered)
    /\ UNCHANGED <<registry, purge, baits, baitIds, dropped>>

-----------------------------------------------------------------------------
(* A tick, resumed.                                                        *)

\* A cancel is done, or the order is gone already; or it is refused, or it
\* raises, and the code swallows that.  Either way the entry forgets the order.
CancelEnds ==
    \/ baits' = baits \ {Ours.bait} /\ UNCHANGED dropped
    \/ /\ "cancel" \in ExploitFaults
       /\ dropped' = dropped \cup ({Ours.bait} \ {0})
       /\ UNCHANGED baits

\* _cleanup_resting is over.  An aborted market starts over, whatever its
\* phase has become meanwhile; a stopped one stays as it is.
Cleaned ==
    /\ tick.at \in {"cleanup", "retry"}
    /\ CancelEnds
    /\ Becomes([Ours EXCEPT !.bait = 0,
                            !.phase = IF tick.at = "retry" THEN "idle" ELSE @])
    /\ TickDone
    /\ UNCHANGED <<registry, purge, baitIds>>

\* _cancel_and_replace, after the cancel; _tick_extract, after the cancel.
Swapped ==
    /\ tick.at \in {"swap", "clear"}
    /\ CancelEnds
    /\ Becomes([Ours EXCEPT !.bait = 0])
    /\ AtAwait(IF tick.at = "swap" THEN "bait" ELSE "look")
    /\ UNCHANGED <<registry, purge, baitIds>>

\* _place_bait: accepted, refused, or raised (perhaps after acceptance).
BaitPlaced ==
    /\ tick.at = "bait"
    /\ \/ /\ baitIds < MaxBaits
          /\ baitIds' = baitIds + 1
          /\ baits' = baits \cup {baitIds'}
          /\ \/ Becomes([Ours EXCEPT !.bait = baitIds']) /\ UNCHANGED dropped
             \/ /\ "place" \in ExploitFaults
                /\ dropped' = dropped \cup {baitIds'}
                /\ UNCHANGED market
       \/ UNCHANGED <<market, baits, baitIds, dropped>>
    /\ IF tick.target THEN AtAwait("probe") ELSE TickDone
    /\ UNCHANGED <<registry, purge>>

\* The best price on the other side but for our own order, 0 if none shows.
SeenPrices == (LevelPrices \ {Ours.ladder}) \cup {0}

\* _check_extract_ready: far enough from our price to be worth a take.
Extractable(p) ==
    IF Ours.side = "bid" THEN p >= Ours.ladder + PredatorOffset
    ELSE (IF p = 0 THEN 100 ELSE p) <= Ours.ladder - PredatorOffset

\* At the target the opposite side is extractable, or the market waits, or it
\* gives up.  A book that cannot be read is not extractable.
Probed ==
    /\ tick.at = "probe"
    /\ \E p \in SeenPrices, failed \in BOOLEAN :
         LET tired == Ours.misses + 1 >= Patience
         IN  Becomes(IF Extractable(p) /\ ~failed
                     THEN [Ours EXCEPT !.phase = "extract"]
                     ELSE [Ours EXCEPT !.misses = @ + 1,
                                       !.phase = IF tired THEN "abort" ELSE @])
    /\ TickDone
    /\ UNCHANGED <<registry, purge, baits, baitIds, dropped>>

GivesUp == Becomes([Ours EXCEPT !.phase = "abort"]) /\ TickDone

\* The book before the take: without an opposite quote the round is aborted.
Looked ==
    /\ tick.at = "look"
    /\ \/ GivesUp
       \/ /\ \E p \in SeenPrices \ {0} : tick' = [tick EXCEPT !.at = "take", !.price = p]
          /\ UNCHANGED market
    /\ UNCHANGED <<registry, purge, baits, baitIds, dropped>>

\* record_take, and the cooldown that follows: between the legs, or
\* finalize_round when both are done.
Recorded(r, p) ==
    LET sold == IF r.side = "bid" THEN p ELSE r.sold
        bought == IF r.side = "bid" THEN r.bought ELSE p
    IN  IF sold # 0 /\ bought # 0
        THEN [r EXCEPT !.sold = 0, !.bought = 0, !.pnl = @ + sold - bought,
                       !.rounds = @ + 1, !.phase = "after_round", !.cooling = TRUE]
        ELSE [r EXCEPT !.sold = sold, !.bought = bought,
                       !.phase = "between_legs", !.cooling = TRUE]

\* The taker is accepted: it is filled, or (a fault) it rests, and nobody keeps
\* its identifier.  The code records the leg in both cases.
Taken ==
    /\ tick.at = "take"
    /\ \/ UNCHANGED <<baits, baitIds, dropped>>
       \/ /\ "rests" \in ExploitFaults
          /\ baitIds < MaxBaits
          /\ baitIds' = baitIds + 1
          /\ baits' = baits \cup {baitIds'}
          /\ dropped' = dropped \cup {baitIds'}
    /\ Becomes(Recorded(Ours, tick.price))
    /\ TickDone
    /\ UNCHANGED <<registry, purge>>

TakeFailed ==
    /\ tick.at = "take"
    /\ GivesUp
    /\ UNCHANGED <<registry, purge, baits, baitIds, dropped>>

-----------------------------------------------------------------------------
(* The operator, the sweep and the clock.                                  *)

\* /control/exploit/start replaces the entry of a market that is registered.
ExploitStart ==
    /\ made < MaxEntries
    /\ made' = made + 1
    /\ registered' = made'
    /\ UNCHANGED <<market, tick, purge, baits, baitIds, dropped>>

\* /control/exploit/remove: its resting bait is the operator's affair.
ExploitRemove ==
    /\ registered # 0
    /\ registered' = 0
    /\ UNCHANGED <<market, made, tick, purge, baits, baitIds, dropped>>

ExploitKill ==
    /\ registered # 0
    /\ market' = [market EXCEPT ![registered].phase = "killed"]
    /\ purge' = IF purge = 0 THEN market[registered].bait ELSE purge
    /\ UNCHANGED <<registry, tick, baits, baitIds, dropped>>

\* pause and resume.
ExploitPause ==
    /\ registered # 0
    /\ market' = [market EXCEPT ![registered].paused = ~@]
    /\ UNCHANGED <<registry, tick, purge, baits, baitIds, dropped>>

\* cancel_all_resting: the identifiers were collected when it began.  The cancel
\* raises, and the entries keep what they have; or it is answered, and a
\* registered entry that still has the order forgets it, be it cancelled or not.
PurgeEnds ==
    /\ purge # 0
    /\ purge' = 0
    /\ \E gone, answered \in BOOLEAN :
         LET forgets == answered /\ registered # 0 /\ market[registered].bait = purge
         IN  /\ (gone /\ answered) \/ "cancel" \in ExploitFaults
             /\ baits' = IF gone THEN baits \ {purge} ELSE baits
             /\ market' = IF forgets THEN [market EXCEPT ![registered].bait = 0]
                          ELSE market
             /\ dropped' = IF forgets /\ ~gone THEN dropped \cup {purge} ELSE dropped
    /\ UNCHANGED <<registry, tick, baitIds>>

CooldownElapses ==
    /\ \E i \in Entries :
         market[i].cooling /\ market' = [market EXCEPT ![i].cooling = FALSE]
    /\ UNCHANGED <<registry, tick, purge, baits, baitIds, dropped>>

\* A bait is taken by another participant; no code hears of it.
BaitFilled ==
    /\ \E o \in baits : baits' = baits \ {o}
    /\ UNCHANGED <<market, registry, tick, purge, baitIds, dropped>>

ExploitNext ==
    \/ Advance \/ Cleaned \/ Swapped \/ BaitPlaced \/ Probed \/ Looked
    \/ Taken \/ TakeFailed
    \/ ExploitStart \/ ExploitRemove \/ ExploitKill \/ ExploitPause \/ PurgeEnds
    \/ CooldownElapses \/ BaitFilled

-----------------------------------------------------------------------------
\* No order is lost from sight, through replacements, kills, pauses and sweeps
\* that overlap a tick, for any other reason than these: a tick's cancel or
\* placement failed, a sweep's cancel was answered and the order rests all the
\* same, or a taker rests.  The entry that placed an order knows it otherwise.
BaitsKnown ==
    \A o \in baits : o \in dropped \/ \E i \in Entries : market[i].bait = o
=============================================================================
