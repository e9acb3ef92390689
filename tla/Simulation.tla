------------------------------ MODULE Simulation ------------------------------
(***************************************************************************)
(* simulateBacktest (modules/backtesting/domain/simulator.ts): the loop    *)
(* over the sealed candles, one step per candle.  The strategy is an       *)
(* arbitrary signal per analysed candle.  Prices, money and quantities are *)
(* integers of one unit, rounded where the code rounds its decimals.       *)
(***************************************************************************)
EXTENDS Integers, Sequences

CONSTANTS
  Candles,        \* the candles a range may hold
  MaxCandles,     \* bound: candles of the range
  Warmup,         \* leading candles reserved for indicator warm-up
  Capital,        \* initial capital
  FeePercent,     \* transaction fee of a side
  SlippagePercent,\* slippage of a side
  StopPercent,    \* stop-loss distance, 0 for none
  TakePercent     \* take-profit distance, 0 for none

Candle == [open : Nat \ {0}, high : Nat \ {0}, low : Nat \ {0}, close : Nat \ {0}]

\* validateCandle and the checks before the loop.
ValidCandle(c) ==
  /\ c \in Candle
  /\ c.high >= c.open /\ c.high >= c.close
  /\ c.low <= c.open /\ c.low <= c.close
ASSUME CandlesAreValid == \A c \in Candles : ValidCandle(c)
ASSUME InputIsValid ==
  /\ MaxCandles \in Nat \ {0} /\ Warmup \in Nat /\ Capital \in Nat \ {0}
  /\ FeePercent \in Nat /\ SlippagePercent \in Nat
  /\ StopPercent \in 0 .. 99 /\ TakePercent \in 0 .. 99

VARIABLE sim  \* index of the next candle, ended, the local variables, the Trades
simVars == sim

NoPosition == [dir |-> 0]
Flat(s) == s.position.dir = 0

SimInit ==
  sim = [ index |-> 0, ended |-> FALSE, position |-> NoPosition, scheduled |-> 0,
          equity |-> Capital, trades |-> <<>> ]

-----------------------------------------------------------------------------
(* Decimal arithmetic                                                      *)

Abs(x) == IF x < 0 THEN -x ELSE x

\* Division that rounds half away from zero; the denominator is not 0.
RoundedDivision(n, d) ==
  LET size == (2 * Abs(n) + Abs(d)) \div (2 * Abs(d))
  IN  IF (n < 0) = (d < 0) THEN size ELSE -size

Percent(x, p) == RoundedDivision(x * p, 100)

\* Quantities are kept in hundredths of a unit.
Lot == 100
Value(price, quantity) == RoundedDivision(price * quantity, Lot)

-----------------------------------------------------------------------------
(* Positions; a direction is 1 for LONG and BUY, -1 for SHORT and SELL     *)

\* A position pays slippage with its direction, a closing against it; beyond
\* 100 % a price may be negative, and so may a quantity.
Filled(price, dir) == Percent(price, 100 + dir * SlippagePercent)

QuantityFor(equity, entry) ==
  RoundedDivision(equity * Lot * 100, entry * (100 + FeePercent))

\* INVALID_INPUT is thrown: there is no result.
Refused(s) == [s EXCEPT !.ended = TRUE, !.trades = <<>>]

\* openPosition: a quantity that rounds to nothing opens none, and a price
\* that does is not allowed.
Opened(s, dir, price) ==
  LET entry == Filled(price, dir)
      quantity == QuantityFor(s.equity, entry)
      stop == Percent(price, 100 - dir * StopPercent)
      take == Percent(price, 100 + dir * TakePercent)
  IN  IF entry = 0 THEN Refused(s)
      ELSE IF quantity <= 0 THEN s
      ELSE IF stop = 0 \/ take = 0 THEN Refused(s)
      ELSE [s EXCEPT !.position =
             [ dir |-> dir, index |-> s.index, market |-> price, entry |-> entry,
               quantity |-> quantity, before |-> s.equity,
               stop |-> IF StopPercent = 0 THEN 0 ELSE stop,
               take |-> IF TakePercent = 0 THEN 0 ELSE take ]]

\* closePosition: gross profit less the slippage and the fees of both sides.
Profit(p, price) ==
  LET exit == Filled(price, -p.dir)
      slippage == Value(Abs(p.entry - p.market), p.quantity) + Value(Abs(exit - price), p.quantity)
      fees == Percent(Value(p.entry, p.quantity), FeePercent)
              + Percent(Value(exit, p.quantity), FeePercent)
  IN  Value(p.dir * (price - p.market), p.quantity) - slippage - fees

\* A Trade keeps the candle of its exit, for the properties.
Trade(s, c, price, reason) ==
  LET p == s.position
  IN  [ dir |-> p.dir, from |-> p.index, to |-> s.index, market |-> p.market,
        exit |-> price, during |-> c, reason |-> reason,
        before |-> p.before, profit |-> Profit(p, price) ]

Closed(s, c, price, reason) ==
  [s EXCEPT !.position = NoPosition,
            !.equity = s.position.before + Profit(s.position, price),
            !.trades = Append(@, Trade(s, c, price, reason))]

-----------------------------------------------------------------------------
(* One candle                                                              *)

\* The signal of the previous candle is executed at the open: an opposite
\* position is closed, and a new one opened unless the range ends here.
BugExecute(s, c, last) ==
  IF s.scheduled = 0 \/ s.index < Warmup \/ last THEN s
  ELSE LET closed == IF ~ Flat(s) /\ s.position.dir # s.scheduled
                     THEN Closed(s, c, c.open, "STRATEGY_CLOSE") ELSE s
       IN  [IF Flat(closed) THEN Opened(closed, s.scheduled, c.open) ELSE closed
              EXCEPT !.scheduled = 0]
Execute(s, c, last) ==
  IF s.scheduled = 0 \/ s.index < Warmup THEN s
  ELSE LET closed == IF ~ Flat(s) /\ s.position.dir # s.scheduled
                     THEN Closed(s, c, c.open, "STRATEGY_CLOSE") ELSE s
           opened == IF Flat(closed) /\ ~ last
                     THEN Opened(closed, s.scheduled, c.open) ELSE closed
       IN  [opened EXCEPT !.scheduled = 0]

\* Whether the candle reaches a level below (dir 1) or above (dir -1) it.
Reaches(c, level, dir) ==
  level # 0 /\ IF dir = 1 THEN c.low <= level ELSE c.high >= level

\* The fill of a triggered level: the open, if the candle opened beyond it.
Fill(c, level, dir) ==
  IF dir * (level - c.open) >= 0 THEN c.open ELSE level

\* Protective exits from the candle after the entry candle; the stop wins.
Protect(s, c) ==
  LET p == s.position
  IN  IF Flat(s) \/ p.index = s.index THEN s
      ELSE IF Reaches(c, p.stop, p.dir) THEN Closed(s, c, Fill(c, p.stop, p.dir), "STOP_LOSS")
      ELSE IF Reaches(c, p.take, -p.dir) THEN Closed(s, c, Fill(c, p.take, -p.dir), "TAKE_PROFIT")
      ELSE s

\* analyze is asked from the end of the warm-up, except at the last candle;
\* 0 is HOLD, and a signal for the side already held changes nothing.
Analyze(s, signal, last) ==
  IF s.index < Warmup \/ last \/ signal = 0 THEN s
  ELSE IF Flat(s) \/ s.position.dir # signal THEN [s EXCEPT !.scheduled = signal] ELSE s

\* What is still open at the end of the range is closed at the last close.
RangeEnd(s, c) == IF Flat(s) THEN s ELSE Closed(s, c, c.close, "RANGE_END")

Step(s, c, signal, last) ==
  LET traded == Analyze(Protect(Execute(s, c, last), c), signal, last)
  IN  IF last THEN [RangeEnd(traded, c) EXCEPT !.ended = TRUE]
      ELSE [traded EXCEPT !.index = @ + 1]

SimNext ==
  \E c \in Candles, signal \in {-1, 0, 1}, last \in BOOLEAN :
    /\ ~ sim.ended
    /\ sim.index + 1 >= Warmup \/ ~ last   \* otherwise SNAPSHOT_INCOMPLETE
    /\ last \/ sim.index + 1 < MaxCandles
    /\ sim' = Step(sim, c, signal, last)

SimSpec == SimInit /\ [][SimNext]_simVars

-----------------------------------------------------------------------------
(* What the simulation promises                                            *)

Held == sim.position
Trades == sim.trades

SimTypeOK ==
  /\ sim.index \in 0 .. MaxCandles - 1 /\ sim.ended \in BOOLEAN
  /\ sim.scheduled \in {-1, 0, 1} /\ sim.equity \in Int
  /\ Held.dir \in {-1, 0, 1}

\* One position at a time, entered after the warm-up and at the open that
\* follows its signal: Trades follow each other, a stop or a take is never
\* taken in the entry candle, and nothing is open after the end.
TradesDoNotOverlap ==
  /\ \A k \in 1 .. Len(Trades) :
       /\ Trades[k].from > Warmup /\ Trades[k].from <= Trades[k].to
       /\ Trades[k].reason \in {"STOP_LOSS", "TAKE_PROFIT"} => Trades[k].from < Trades[k].to
       /\ k > 1 => Trades[k - 1].to <= Trades[k].from
  /\ sim.ended => Flat(sim)

\* Costs never turn into gains, whatever is rounded: a position gains no
\* more than its market move, a stop is no gain and a take no loss of the market.
CostsNeverHelp ==
  \A k \in 1 .. Len(Trades) :
    LET t == Trades[k]
        move == t.dir * (t.exit - t.market)
    IN  /\ move <= 0 => t.profit <= 0
        /\ t.reason = "STOP_LOSS" => move <= 0
        /\ t.reason = "TAKE_PROFIT" => move >= 0

\* No look-ahead: a range that ends with this candle has the Trades a longer
\* range has, whatever follows, and at most its forced close besides.
LongerRangeKeepsTrades ==
  ~ sim.ended =>
    \A c \in Candles, signal \in {-1, 0, 1} :
      LET ending == Step(sim, c, signal, TRUE).trades
          longer == Step(sim, c, signal, FALSE)
          forced == ending[Len(ending)]
      IN  \/ longer.ended \/ ending = longer.trades
          \/ ending = Append(longer.trades, forced) /\ forced.reason = "RANGE_END"

\* Every fill is a price its candle traded at.
FillsAreInTheCandle ==
  \A k \in 1 .. Len(Trades) :
    LET t == Trades[k] IN t.during.low <= t.exit /\ t.exit <= t.during.high

\* The books balance: each Trade starts from the equity the previous one
\* left, and without equity nothing is opened.
BooksBalance ==
  /\ \A k \in 1 .. Len(Trades) :
       Trades[k].before = IF k = 1 THEN Capital ELSE Trades[k - 1].before + Trades[k - 1].profit
  /\ ~ Flat(sim) => Held.before > 0 /\ Held.before = sim.equity

\* Every Trade is one the market allowed, decided without looking ahead, and the
\* books hold it to the last unit.
TradesAreSound ==
  /\ SimTypeOK /\ TradesDoNotOverlap /\ CostsNeverHelp
  /\ FillsAreInTheCandle /\ BooksBalance /\ LongerRangeKeepsTrades
=============================================================================
