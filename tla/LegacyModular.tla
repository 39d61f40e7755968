--------------------------- MODULE LegacyModular ----------------------------
(***************************************************************************)
(* ModularRunner (_legacy): a loop that turns one snapshot of the market   *)
(* into signals, decisions and orders, symbol after symbol, and then looks *)
(* for positions without a stop.  stop waits five seconds for the loop, so *)
(* that a start may find it in the middle of its tick: there can be two.   *)
(***************************************************************************)
EXTENDS LegacyFaults, Sequences, SequencesExt

CONSTANTS
  Coins,          \* the symbols
  Btc,            \* BTCUSDT
  ModularFaults,  \* of FaultKinds
  Sizes,          \* position sizes, rounded
  MaxTotal,       \* MAX_TOTAL_EXPOSURE_PCT, in sizes
  MaxAlt,         \* MAX_ALT_EXPOSURE_PCT
  MaxPosition,    \* bound: units of a position
  ModularTicks    \* bound: ticks that execute something

ASSUME ModularAssumption ==
  /\ IsFiniteSet(Coins) /\ Btc \in Coins /\ ModularFaults \subseteq FaultKinds
  /\ Sizes \subseteq Nat \ {0} /\ MaxTotal \in Nat /\ MaxAlt \in Nat
  /\ MaxPosition \in Nat /\ ModularTicks \in Nat

VARIABLES
  held,      \* positionAmt by symbol, signed
  stops,     \* live STOP_MARKET orders by symbol
  profits,   \* live take-profit and trailing orders by symbol
  holes,     \* history, by symbol: why a stop may be missing or too small
  active,    \* _running, and _stop_event not set
  loop,      \* the loops, by thread
  ran        \* ticks that executed something

modularVars == <<held, stops, profits, holes, active, loop, ran>>

Loops == {1, 2}
NoLoop == [at |-> "off", plan |-> <<>>, coin |-> Btc, order |-> 0, reduce |-> FALSE]

ModularInit ==
  /\ held = [c \in Coins |-> 0]
  /\ stops = [c \in Coins |-> {}] /\ profits = [c \in Coins |-> {}]
  /\ holes = [c \in Coins |-> {}]
  /\ active = FALSE
  /\ loop = [l \in Loops |-> NoLoop]
  /\ ran = 0

Covers(order, amount) == order.side = Sign(amount) /\ order.qty >= Size(amount)
Covered(c) == \E o \in stops[c] : Covers(o, held[c])

At(l, place) == loop' = [loop EXCEPT ![l].at = place]
NextSymbol(l) == loop' = [loop EXCEPT ![l].at = "symbols", ![l].plan = Tail(@)]
Alone(l) == \A k \in Loops \ {l} : loop[k].at \in {"off", "idle"}
unchangedMarket == <<held, stops, profits>>

-----------------------------------------------------------------------------
(***************************************************************************)
(* signal_engine.run: the direction by symbol.  BTC follows the trend of   *)
(* its 4h average on a pullback; the others go against the bands, and not  *)
(* long when BTC falls.                                                    *)
(***************************************************************************)
BtcSignals ==
  LET Direction(above, pullback, rising, calm) ==
        IF ~(pullback /\ calm) THEN 0
        ELSE IF above /\ rising > 0 THEN 1 ELSE IF ~above /\ rising < 0 THEN -1 ELSE 0
  IN {Direction(a, p, r, c) : a \in BOOLEAN, p \in BOOLEAN, r \in {-1, 0, 1}, c \in BOOLEAN}

AltSignals(btc_blocks_long) ==
  LET Direction(touch, spike) ==
        IF ~spike THEN 0
        ELSE IF touch < 0 /\ ~btc_blocks_long THEN 1 ELSE IF touch > 0 THEN -1 ELSE 0
  IN {Direction(t, v) : t \in {-1, 0, 1}, v \in BOOLEAN}

Signals ==
  UNION {{s \in [Coins -> {-1, 0, 1}] :
            /\ s[Btc] \in BtcSignals
            /\ \A c \in Coins \ {Btc} : s[c] \in AltSignals(b)} : b \in BOOLEAN}

(***************************************************************************)
(* risk_engine.run: a decision is [coin, qty], qty signed.  In the order   *)
(* of the signals, each is allowed as long as the exposure of those before *)
(* it leaves room; what is held already does not count.  As any symbol may *)
(* be blocked besides (no price, funding, below the least notional), what  *)
(* is allowed are any decisions, in any order, within the limits.          *)
(***************************************************************************)
Exposure(plan, coins) ==
  MapThenSumSet(LAMBDA i : Size(plan[i].qty), {i \in DOMAIN plan : plan[i].coin \in coins})

WithinLimits(plan) ==
  /\ Exposure(plan, Coins) <= MaxTotal
  /\ Exposure(plan, Coins \ {Btc}) <= MaxAlt

Plans ==
  LET Wanted(s, size) == {[coin |-> c, qty |-> s[c] * size[c]] : c \in {x \in Coins : s[x] # 0}}
  IN {p \in UNION {UNION {SetToSeqs(w) : w \in SUBSET Wanted(s, size)} :
                      s \in Signals, size \in [Coins -> Sizes]} : WithinLimits(p)}

-----------------------------------------------------------------------------
\* Which of two ended loops begins again is all the same.
StartModular ==
  /\ ~active /\ ran < ModularTicks
  /\ active' = TRUE
  /\ \E l \in Loops :
       /\ loop[l].at = "off" /\ \A k \in Loops : k < l => loop[k].at # "off"
       /\ At(l, "idle")
  /\ UNCHANGED <<unchangedMarket, holes, ran>>

StopModular ==
  /\ "stop" \in ModularFaults
  /\ active
  /\ active' = FALSE
  /\ UNCHANGED <<unchangedMarket, holes, loop, ran>>

LoopStops(l) ==
  /\ loop[l].at = "idle" /\ ~active
  /\ At(l, "off")
  /\ UNCHANGED <<unchangedMarket, holes, active, ran>>

\* Snapshot, signals, risk.  Without a symbol allowed nothing is executed,
\* and no stop looked for.
Tick(l) ==
  /\ loop[l].at = "idle" /\ active /\ ran < ModularTicks
  /\ ran' = ran + 1
  /\ \E plan \in Plans \ {<<>>} :
       loop' = [loop EXCEPT ![l] = [@ EXCEPT !.at = "symbols", !.plan = plan]]
  /\ UNCHANGED <<unchangedMarket, holes, active>>

-----------------------------------------------------------------------------
(***************************************************************************)
(* _execute_one_symbol.  A failure of any call, three times tried, ends    *)
(* the symbol with all its orders cancelled.                               *)
(***************************************************************************)
SymbolReads(l) ==
  LET d     == Head(loop[l].plan)
      delta == d.qty - held[d.coin]
  IN /\ loop[l].at = "symbols" /\ loop[l].plan # <<>>
     /\ \/ "read" \in ModularFaults /\ loop' = [loop EXCEPT ![l] = [@ EXCEPT !.at = "clear", !.coin = d.coin]]
        \/ delta = 0 /\ NextSymbol(l)
        \/ delta # 0 /\ loop' = [loop EXCEPT ![l] =
             [@ EXCEPT !.at = "enter", !.coin = d.coin, !.order = delta,
                       !.reduce = (Sign(delta) = -Sign(held[d.coin]) /\ Size(delta) <= Size(held[d.coin]))]]
     /\ UNCHANGED <<unchangedMarket, holes, active, ran>>

\* The answer is lost again and again, the order executed each time.
Entered(amount, order, reduce, times) ==
  IF reduce
  THEN IF Sign(amount) = -Sign(order) THEN amount + Sign(order) * AtMost(times * Size(order), Size(amount))
                                      ELSE amount
  ELSE amount + times * order

SymbolEnters(l) ==
  LET c == loop[l].coin IN
  /\ loop[l].at = "enter"
  /\ \E times \in 0..3, ok \in BOOLEAN :
       /\ ok => times > 0 /\ (times > 1 => "lost" \in ModularFaults)
       /\ ~ok => IF times = 0 THEN "order" \in ModularFaults \/ loop[l].reduce
                              ELSE times = 3 /\ "lost" \in ModularFaults
       /\ held' = [held EXCEPT ![c] = Entered(@, loop[l].order, loop[l].reduce, times)]
       /\ Size(held'[c]) <= MaxPosition
       /\ At(l, IF ok THEN "confirm" ELSE "clear")
       /\ holes' = [holes EXCEPT ![c] = IF held'[c] = 0 THEN {}
                      ELSE IF Alone(l) \/ held'[c] = held[c] THEN @ ELSE @ \cup {"overlap"}]
  /\ UNCHANGED <<stops, profits, active, ran>>

\* Mutant: the stop is for what was ordered, not for what is held.
SymbolConfirmsOrdered(l) ==
  LET c == loop[l].coin IN
  /\ loop[l].at = "confirm"
  /\ ~loop[l].reduce /\ held[c] # 0
  /\ At(l, "stop")
  /\ UNCHANGED <<unchangedMarket, holes, active, ran>>

\* What only reduces has its orders already; what is not seen gets none, and
\* what is seen as it was before the entry the stop for that.
SymbolConfirms(l) ==
  LET c      == loop[l].coin
      before == held[c] - loop[l].order
  IN /\ loop[l].at = "confirm"
     /\ \/ /\ ~loop[l].reduce /\ held[c] # 0
           /\ loop' = [loop EXCEPT ![l] = [@ EXCEPT !.at = "stop", !.order = held[c]]]
           /\ UNCHANGED holes
        \/ /\ ~loop[l].reduce /\ held[c] # 0 /\ before # 0 /\ "lag" \in ModularFaults
           /\ loop' = [loop EXCEPT ![l] = [@ EXCEPT !.at = "stop", !.order = before]]
           /\ holes' = [holes EXCEPT ![c] = @ \cup {"unconfirmed"}]
        \/ /\ loop[l].reduce \/ held[c] = 0 \/ "lag" \in ModularFaults
           /\ NextSymbol(l)
           /\ holes' = IF loop[l].reduce \/ held[c] = 0 THEN holes
                       ELSE [holes EXCEPT ![c] = @ \cup {"unconfirmed"}]
        \/ "read" \in ModularFaults /\ At(l, "clear") /\ UNCHANGED holes
     /\ UNCHANGED <<unchangedMarket, active, ran>>

\* The stop for the whole position.
StopPlaced(c, amount) ==
  LET stop == [side |-> Sign(amount), qty |-> Size(amount)] IN
  /\ stops' = [stops EXCEPT ![c] = @ \cup {stop}]
  /\ holes' = [holes EXCEPT ![c] = IF Covers(stop, held[c]) THEN {} ELSE @]

SymbolStop(l) ==
  LET c == loop[l].coin IN
  /\ loop[l].at = "stop"
  /\ \/ StopPlaced(c, loop[l].order) /\ At(l, "profits")
     \/ "refuse" \in ModularFaults /\ At(l, "clear") /\ UNCHANGED <<stops, holes>>
  /\ UNCHANGED <<held, profits, active, ran>>

\* A half at tp1_r_multiple, a quarter at tp2_r_multiple, a quarter trailing;
\* one that is refused takes the others with it, and the stop.
SymbolProfits(l) ==
  LET c   == loop[l].coin
      tps == {[side |-> Sign(loop[l].order), qty |-> Size(loop[l].order) \div part] : part \in {2, 4}}
  IN /\ loop[l].at = "profits"
     /\ profits' = [profits EXCEPT ![c] = @ \cup {o \in tps : o.qty > 0}]
     /\ \/ NextSymbol(l)
        \/ "refuse" \in ModularFaults /\ At(l, "clear")
     /\ UNCHANGED <<held, stops, holes, active, ran>>

\* _cancel_all_orders_symbol, each of the two calls failing or not.
SymbolCleared(l) ==
  LET c == loop[l].coin IN
  /\ loop[l].at = "clear"
  /\ \/ /\ stops' = [stops EXCEPT ![c] = {}] /\ profits' = [profits EXCEPT ![c] = {}]
        /\ holes' = IF Alone(l) \/ held[c] = 0 THEN holes
                    ELSE [holes EXCEPT ![c] = @ \cup {"overlap"}]
     \/ /\ "cancel" \in ModularFaults
        /\ holes' = [holes EXCEPT ![c] = @ \cup {"cancel"}]
        /\ UNCHANGED <<stops, profits>>
  /\ NextSymbol(l)
  /\ UNCHANGED <<held, active, ran>>

-----------------------------------------------------------------------------
(***************************************************************************)
(* The end of execute_risk_plan: _ensure_stop_for_position for every       *)
(* position.  Any stop of that side counts, whatever its size; the first   *)
(* failure ends the pass.                                                  *)
(***************************************************************************)
HasStop(c) == \E o \in stops[c] : o.side = Sign(held[c])
Bare == {c \in Coins : held[c] # 0 /\ ~HasStop(c)}

EnsureStops(l) ==
  /\ loop[l].at = "symbols" /\ loop[l].plan = <<>>
  /\ \E done \in {Bare} \cup (IF {"read", "refuse"} \cap ModularFaults # {} THEN SUBSET Bare ELSE {}) :
       /\ stops' = [c \in Coins |-> IF c \in done
                      THEN stops[c] \cup {[side |-> Sign(held[c]), qty |-> Size(held[c])]} ELSE stops[c]]
       /\ holes' = [c \in Coins |-> IF c \in done THEN {}
                      ELSE IF c \in Bare THEN holes[c] \cup {"refused"} ELSE holes[c]]
  /\ loop' = [loop EXCEPT ![l] = [NoLoop EXCEPT !.at = "idle"]]
  /\ UNCHANGED <<held, profits, active, ran>>

-----------------------------------------------------------------------------
Triggers(c, o) ==
  /\ o.side = Sign(held[c])
  /\ held' = [held EXCEPT ![c] = @ - o.side * AtMost(o.qty, Size(@))]
  /\ holes' = [holes EXCEPT ![c] = IF held'[c] = 0 THEN {} ELSE @]
  /\ UNCHANGED <<active, loop, ran>>

StopTriggers(c) ==
  \E o \in stops[c] :
    Triggers(c, o) /\ stops' = [stops EXCEPT ![c] = @ \ {o}] /\ UNCHANGED profits

ProfitTaken(c) ==
  \E o \in profits[c] :
    Triggers(c, o) /\ profits' = [profits EXCEPT ![c] = @ \ {o}] /\ UNCHANGED stops

ModularNext ==
  \/ StartModular \/ StopModular
  \/ \E l \in Loops : \/ LoopStops(l) \/ Tick(l) \/ SymbolReads(l) \/ SymbolEnters(l)
                      \/ SymbolConfirms(l) \/ SymbolStop(l) \/ SymbolProfits(l)
                      \/ SymbolCleared(l) \/ EnsureStops(l)
  \/ \E c \in Coins : StopTriggers(c) \/ ProfitTaken(c)

ModularSpec == ModularInit /\ [][ModularNext]_modularVars
=============================================================================
