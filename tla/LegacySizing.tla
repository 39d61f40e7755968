---------------------------- MODULE LegacySizing ----------------------------
(***************************************************************************)
(* The plan of the TSMOM runner (_legacy): EngineRunner._signal_tick, with *)
(* the universe, the trend scores, the sizing of the targets and the risk  *)
(* guard.  What the plan becomes on the exchange is module LegacyRunner's. *)
(*                                                                         *)
(* A price is asked of the exchange whenever one is needed, so that one    *)
(* computation sees several prices of a symbol, or none: a read that fails *)
(* is a price of 0.  A quantity is in lots; a notional value is rounded    *)
(* down to a whole unit, where the code keeps a float.                     *)
(***************************************************************************)
EXTENDS LegacyFaults, Sequences, SequencesExt

CONSTANTS
  Symbols,      \* 1..n
  Majors,       \* EXCLUDE_ALT_ONLY
  EngineConfig, \* the fields of EngineConfig that sizing reads, see Fields
  Markets,      \* what a signal tick may read, see MarketFields
  PriceReads,   \* the answers of _get_price, 0 among them
  Equities,     \* totalWalletBalance
  Exposures     \* what the risk guard may read, see Guarded

Fields == {
  "top_n", "max_spread",                     \* the universe
  "horizons", "deadzone",                    \* in bars; in tenths
  "rsi_period", "overbought", "oversold",    \* in percent
  "vol_unit", "target_vol", "leverage",      \* every volatility divides vol_unit
  "top_k", "min_weight", "max_weight",       \* weights in hundredths
  "risk", "stop_k",                          \* per mille of equity; in ATR
  "min_concentration", "max_concentration",  \* in percent
  "min_notional", "kill", "reserve", "max_symbols" }

MarketFields == {
  "alt_only",  \* universe_mode, which the user may change between two ticks
  "listed",    \* perpetual, trading, old enough
  "volume",    \* quoteVolume, different for any two
  "spread", "closes", "funding", "vol", "atr" }   \* by symbol

ASSUME SizingAssumption ==
  /\ \E n \in 1..4 : Symbols = 1..n
  /\ Majors \subseteq Symbols
  /\ DOMAIN EngineConfig = Fields
  /\ \A m \in Markets : DOMAIN m = MarketFields
  /\ PriceReads \subseteq Nat /\ Equities \subseteq Nat

Cfg == EngineConfig

VARIABLES
  planner,     \* where _signal_tick is
  engaged,     \* _running
  equity, peak,
  work,        \* what compute_target_positions has before the first price
  plan,        \* the targets, by symbol
  incumbents   \* _current_symbols

sizingVars == <<planner, engaged, equity, peak, work, plan, incumbents>>

AtLeast(m, n) == IF m < n THEN n ELSE m
SumOf(f) == FoldFunction(LAMBDA a, b : a + b, 0, f)
NoWork == [shares |-> <<>>, scores |-> <<>>]

SizingInit ==
  /\ planner = "idle" /\ engaged = TRUE
  /\ equity = 0 /\ peak = 0
  /\ work = NoWork /\ plan = <<>> /\ incumbents = {}

-----------------------------------------------------------------------------
(***************************************************************************)
(* get_universe: the most traded symbols, without those of a wide spread.  *)
(***************************************************************************)
Ranked(m) ==
  LET some == SetToSortSeq(m.listed \ (IF m.alt_only THEN Majors ELSE {}),
                           LAMBDA a, b : m.volume[a] > m.volume[b])
  IN SubSeq(some, 1, AtMost(Cfg.top_n, Len(some)))

Universe(m) == SelectSeq(Ranked(m), LAMBDA s : m.spread[s] <= Cfg.max_spread)

\* In twentieths, at least 0.1.
LiquidityPenalty(m, s) ==
  AtLeast(2, (20 * m.volume[s] * (2 * Cfg.max_spread - m.spread[s]))
               \div (2 * Cfg.max_spread * m.volume[Head(Ranked(m))]))

-----------------------------------------------------------------------------
(***************************************************************************)
(* signals.py.  A score is the sum of the signs, not their mean; the       *)
(* scales of the overlays are in halves and in tenths.                     *)
(***************************************************************************)
HorizonSignal(closes, bars) ==
  IF Len(closes) <= bars THEN 0 ELSE Sign(Last(closes) - closes[Len(closes) - bars])

TrendScore(closes) ==
  LET sum == SumOf([h \in Cfg.horizons |-> HorizonSignal(closes, h)]) IN
  IF 10 * Size(sum) < Cfg.deadzone * Cardinality(Cfg.horizons) THEN 0 ELSE sum

Moves(closes) ==
  LET n == Len(closes) IN
  [i \in (n - Cfg.rsi_period + 1)..n |-> closes[i] - closes[i - 1]]
Gains(closes)  == SumOf([i \in DOMAIN Moves(closes) |-> AtLeast(0, Moves(closes)[i])])
Losses(closes) == SumOf([i \in DOMAIN Moves(closes) |-> AtLeast(0, -Moves(closes)[i])])

\* Sign of the RSI against a threshold; without a loss it is 100.
RsiAgainst(closes, percent) ==
  IF Losses(closes) = 0 THEN Sign(100 - percent)
  ELSE Sign(100 * Gains(closes) - percent * (Gains(closes) + Losses(closes)))

RsiHalves(closes, score) ==
  LET far  == RsiAgainst(closes, Cfg.overbought) >= 0
      near == RsiAgainst(closes, Cfg.oversold) <= 0
  IN CASE Len(closes) < Cfg.rsi_period + 1 \/ score = 0 -> 2
       [] IF score > 0 THEN far  ELSE near              -> 1
       [] IF score > 0 THEN near ELSE far               -> 3
       [] OTHER                                         -> 2

\* Rates are in thousandths, so that 0.0005 lies between two of them.
FundingTenths(rate, score) == AtLeast(5, 10 - AtLeast(0, Sign(score) * rate))

FinalScore(m, s) ==
  LET score == TrendScore(m.closes[s]) IN
  score * RsiHalves(m.closes[s], score) * FundingTenths(m.funding[s], score)

Scored(m) == {s \in ToSet(Universe(m)) : m.closes[s] # <<>>}

-----------------------------------------------------------------------------
(***************************************************************************)
(* compute_target_positions, up to the first price.                        *)
(***************************************************************************)
RawWeights(m) ==
  [s \in {c \in Scored(m) : FinalScore(m, c) # 0 /\ m.vol[c] > 0} |->
     FinalScore(m, s) * LiquidityPenalty(m, s) * (Cfg.vol_unit \div m.vol[s])]

\* By absolute value; sorted is stable, and the dictionary has the order of
\* the universe.
ByStrength(m, w) ==
  SetToSortSeq(DOMAIN w, LAMBDA a, b :
    \/ Size(w[a]) > Size(w[b])
    \/ Size(w[a]) = Size(w[b]) /\ m.volume[a] > m.volume[b])

\* What a market comes to before the equity is known.
Reading(m) ==
  [alt_only |-> m.alt_only,
   weights  |-> RawWeights(m),
   rank     |-> ByStrength(m, RawWeights(m)),
   scores   |-> [s \in {c \in Scored(m) : FinalScore(m, c) # 0} |-> FinalScore(m, s)],
   vol      |-> m.vol,
   atr      |-> m.atr]

Readings == {Reading(m) : m \in {k \in Markets : Scored(k) # {}}}

DynamicTopK(money, count) ==
  LET byEquity   == CASE money < 100 -> 1 [] money < 300 -> 2 [] money < 600 -> 3
                      [] money < 1000 -> AtMost(Cfg.top_k, 4) [] OTHER -> Cfg.top_k
      byNotional == IF money >= 15 * Cfg.top_k THEN AtMost(Cfg.top_k, count) ELSE 0
  IN AtMost(AtMost(byEquity, AtLeast(1, byNotional)), Cfg.top_k)

\* Only the first symbol that finds no place is compared with the weakest,
\* which the order makes at least as strong.
Selected(r, money, old) ==
  LET w    == r.weights
      rank == r.rank
      k    == IF r.alt_only THEN 1 ELSE DynamicTopK(money, Len(rank))
      in   == ToSet(SubSeq(rank, 1, AtMost(k, Len(rank))))
  IN IF /\ Len(rank) > k
        /\ rank[k + 1] \in old
        /\ Size(w[rank[k + 1]]) > Size(w[rank[k]])
     THEN (in \ {rank[k]}) \cup {rank[k + 1]} ELSE in

\* Floor and cap, over a common denominator.  The weights are normalised once
\* more after the cap: a share is what counts.
Shares(w, chosen) ==
  LET all == SumOf([s \in chosen |-> Size(w[s])]) IN
  [s \in {c \in chosen : 100 * Size(w[c]) >= Cfg.min_weight * all} |->
     AtMost(100 * Size(w[s]), Cfg.max_weight * all)]

\* Percent of the buying power for a single position.
Concentration(score, vol) ==
  LET reference  == AtLeast(3 * Cfg.deadzone * Cardinality(Cfg.horizons), 1)
      conviction == AtLeast(50, AtMost(100, (50 * Size(score)) \div reference))
      calm       == AtMost(100, (100 * Cfg.target_vol) \div vol)
      span       == Cfg.max_concentration - Cfg.min_concentration
  IN Cfg.min_concentration + (span * conviction * calm) \div 10000

\* What a symbol may cost, as a fraction: of equity times leverage, or less
\* by the volatility; and, with an ATR, the quantity that risks the budget.
Allotted(r, v, money) ==
  LET total  == SumOf(v)
      risky  == SumOf([s \in DOMAIN v |-> v[s] * r.vol[s]])
      single == r.alt_only /\ Cardinality(DOMAIN v) = 1
      capped == Cfg.target_vol * total > Cfg.leverage * risky
  IN [s \in DOMAIN v |->
       [side  |-> Sign(r.weights[s]),
        share |-> v[s],
        num   |-> IF single
                    THEN money * Cfg.leverage * Concentration(r.scores[s], r.vol[s])
                  ELSE IF capped THEN money * Cfg.leverage * v[s]
                  ELSE money * Cfg.target_vol * v[s],
        den   |-> IF single THEN 100 ELSE IF capped THEN total ELSE risky,
        lots  |-> IF r.atr[s] = 0 \/ single THEN -1
                  ELSE (money * Cfg.risk * v[s]) \div (1000 * total * r.atr[s] * Cfg.stop_k)]]

Prepared(r, money, old) ==
  [shares |-> Allotted(r, Shares(r.weights, Selected(r, money, old)), money),
   scores |-> r.scores]

(***************************************************************************)
(* _signal_tick.  An empty universe or no closes leave the old plan as it  *)
(* is; no equity or no score make an empty one.                            *)
(***************************************************************************)
SignalTick ==
  /\ planner = "idle" /\ engaged
  /\ \E r \in Readings, money \in Equities \cup {equity} :
       /\ equity' = money
       /\ peak' = AtLeast(peak, money)
       /\ IF money = 0 \/ r.rank = <<>>
            THEN work' = NoWork /\ planner' = "guard"
            ELSE /\ work' = Prepared(r, money, incumbents)
                 /\ planner' = IF DOMAIN work'.shares = {} THEN "guard" ELSE "size"
  /\ plan' = <<>>
  /\ UNCHANGED <<engaged, incumbents>>

-----------------------------------------------------------------------------
(***************************************************************************)
(* compute_target_positions, from the first price on.  read is a history:  *)
(* the price a target was last compared with min_notional at.              *)
(***************************************************************************)
Target(side, share, qty, price) ==
  [side |-> side, share |-> share, qty |-> qty, notional |-> qty * price, read |-> price]

SizeTargets ==
  /\ planner = "size"
  /\ \E price \in [DOMAIN work.shares -> PriceReads] :
       LET lots == [s \in {c \in DOMAIN price : price[c] > 0} |->
                     LET a == work.shares[s]
                         n == a.num \div (a.den * price[s])
                     IN IF a.lots < 0 THEN n ELSE AtMost(n, a.lots)]
       IN plan' = [s \in {c \in DOMAIN lots : lots[c] * price[c] >= Cfg.min_notional} |->
                    Target(work.shares[s].side, work.shares[s].share, lots[s], price[s])]
  /\ planner' = "check"
  /\ UNCHANGED <<engaged, equity, peak, work, incumbents>>

Tradable(targets, price) ==
  {s \in DOMAIN targets : price[s] > 0 /\ targets[s].qty * price[s] >= Cfg.min_notional}

Checked(targets, price) == [s \in DOMAIN targets |-> [targets[s] EXCEPT !.read = price[s]]]

\* Mutant: a target without a price is kept, and its value given away.
RedistributeUnread ==
  /\ planner = "check"
  /\ \E price, later \in [DOMAIN plan -> PriceReads] :
       LET kept    == Tradable(plan, price)
           dropped == SumOf([s \in DOMAIN plan \ kept |-> plan[s].notional])
           weights == SumOf([s \in kept |-> plan[s].share])
           value   == [s \in kept |-> plan[s].notional + (dropped * plan[s].share) \div weights]
       IN IF kept = DOMAIN plan
          THEN /\ plan' = Checked(plan, price)
               /\ planner' = IF kept = {} THEN "fallback" ELSE "validate"
          ELSE /\ plan' = [s \in kept \cup {c \in DOMAIN plan : price[c] = 0} |->
                    IF s \notin kept THEN plan[s]
                    ELSE [plan[s] EXCEPT !.notional = value[s],
                            !.qty = IF later[s] > 0 THEN value[s] \div later[s] ELSE @]]
               /\ planner' = IF kept = {} THEN "fallback" ELSE "check"
  /\ UNCHANGED <<engaged, equity, peak, work, incumbents>>

\* One round: what is not tradable any more is dropped and its value given to
\* the rest.  Every round but the last drops a target, so that the five
\* rounds of the code are enough for four symbols.
Redistribute ==
  /\ planner = "check"
  /\ \E price, later \in [DOMAIN plan -> PriceReads] :
       LET kept    == Tradable(plan, price)
           dropped == SumOf([s \in DOMAIN plan \ kept |-> plan[s].notional])
           weights == SumOf([s \in kept |-> plan[s].share])
           value   == [s \in kept |-> plan[s].notional + (dropped * plan[s].share) \div weights]
       IN IF kept = DOMAIN plan
          THEN /\ plan' = Checked(plan, price)
               /\ planner' = IF kept = {} THEN "fallback" ELSE "validate"
          ELSE /\ plan' = [s \in kept |->
                    [plan[s] EXCEPT !.notional = value[s],
                       !.qty = IF later[s] > 0 THEN value[s] \div later[s] ELSE @]]
               /\ planner' = IF kept = {} THEN "fallback" ELSE "check"
  /\ UNCHANGED <<engaged, equity, peak, work, incumbents>>

\* _check_tradability: lots for the smallest order, 0 if there is none.  The
\* budget is the larger of 1.1 min_notional and 5 % of the equity.
SmallestOrder(price) ==
  LET most   == equity * Cfg.leverage
      budget == AtMost(AtLeast(22 * Cfg.min_notional, equity), 20 * most)
      lots   == IF price = 0 THEN 0 ELSE budget \div (20 * price)
      bumped == IF lots * price < Cfg.min_notional /\ (lots + 1) * price <= most
                  THEN lots + 1 ELSE lots
  IN IF lots > 0 /\ bumped * price >= Cfg.min_notional /\ bumped * price <= most
     THEN bumped ELSE 0

\* The best score that can be ordered at all.
Fallback ==
  /\ planner = "fallback"
  /\ \E price \in [DOMAIN work.scores -> PriceReads] :
       LET able == {s \in DOMAIN price : SmallestOrder(price[s]) > 0}
           best == {s \in able : \A c \in able : Size(work.scores[c]) <= Size(work.scores[s])}
       IN IF able = {} THEN plan' = <<>>
          ELSE \E s \in best :
                 plan' = s :> Target(Sign(work.scores[s]), 1, SmallestOrder(price[s]), price[s])
  /\ planner' = "validate"
  /\ UNCHANGED <<engaged, equity, peak, work, incumbents>>

PlanNotional == SumOf([s \in DOMAIN plan |-> plan[s].notional])

Validate ==
  LET total == PlanNotional
      most  == equity * Cfg.leverage
  IN /\ planner = "validate"
     /\ planner' = "guard"
     /\ IF total <= most THEN plan' = plan
        ELSE \E price \in [DOMAIN plan -> PriceReads] :
               plan' = [s \in DOMAIN plan |->
                 LET value == (plan[s].notional * most) \div total IN
                 [plan[s] EXCEPT !.notional = value,
                    !.qty = IF price[s] > 0 THEN value \div price[s] ELSE @]]
     /\ work' = NoWork
     /\ UNCHANGED <<engaged, equity, peak, incumbents>>

-----------------------------------------------------------------------------
(***************************************************************************)
(* run_all_checks, in its order.  A drawdown ends the engine; the others   *)
(* clear the targets, and with them what exec would have closed.           *)
(***************************************************************************)
Drawdown == peak > 0 /\ equity > 0 /\ 100 * (peak - equity) >= Cfg.kill * peak

Blocks(read) ==
  \/ equity > 0 /\ read.gross > 2 * Cfg.leverage * equity
  \/ equity > 0 /\ read.available > 0 /\ 100 * read.available < Cfg.reserve * equity
  \/ read.open >= Cfg.max_symbols

Guard ==
  /\ planner = "guard"
  /\ planner' = "idle"
  /\ IF Drawdown
       THEN engaged' = FALSE /\ UNCHANGED <<plan, incumbents>>
       ELSE /\ \E read \in Exposures : plan' = IF Blocks(read) THEN <<>> ELSE plan
            /\ incumbents' = DOMAIN plan'
            /\ UNCHANGED engaged
  /\ work' = NoWork
  /\ UNCHANGED <<equity, peak>>

-----------------------------------------------------------------------------
SizingNext == SignalTick \/ SizeTargets \/ Redistribute \/ Fallback \/ Validate \/ Guard

SizingSpec == SizingInit /\ [][SizingNext]_sizingVars
=============================================================================
