------------------------------- MODULE Strikes -------------------------------
(***************************************************************************)
(* What the bot quotes: a key is one side of one strike, (ticker, side).   *)
(***************************************************************************)
CONSTANTS
    Tickers,    \* the strikes the bot quotes
    Sides,      \* the sides it quotes, a subset of {"bid", "ask"}
    None        \* "no order", "no key", "no decision"

Keys == Tickers \X Sides

ASSUME StrikesAssumption == Sides \subseteq {"bid", "ask"}
=============================================================================
