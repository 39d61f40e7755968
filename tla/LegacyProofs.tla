---------------------------- MODULE LegacyProofs ----------------------------
(***************************************************************************)
(* The archived engines leave no position without its stop, but behind a   *)
(* step that is named, for any faults, sizes, modes and bounds.  Each of   *)
(* the three proofs follows the position from the moment it is without its *)
(* stop to the step that mends it: of the modular engine, the loop that is *)
(* about to place the stop of the coin; of the autopilot, the order that   *)
(* is looked after still; of the runner, the thread that is about to place *)
(* the stop or the fill that will be heard.                                *)
(***************************************************************************)
EXTENDS LegacyEnginesProperties, FiniteSetTheorems, TLAPS

\* A position without a stop, and nothing to blame for that.
Naked == amt # 0 /\ ~Protected /\ gaps = {}

-----------------------------------------------------------------------------
(***************************************************************************)
(* Sizes, market orders and protective orders.                             *)
(***************************************************************************)
\* Signed sizes.
LEMMA SignedSizes ==
  ASSUME NEW n \in Int
  PROVE  /\ Sign(n) \in {-1, 0, 1} /\ Size(n) \in Nat
         /\ Sign(n) = 0 <=> n = 0
         /\ Size(n) = 0 <=> n = 0
         /\ n = Sign(n) * Size(n)
BY DEF Sign, Size

\* What reduces a position by an amount leaves it on its side.
LEMMA ReducedKeepsSide ==
  ASSUME NEW n \in Int, NEW q \in Nat
  PROVE  LET m == n - Sign(n) * AtMost(q, Size(n)) IN
         /\ m \in Int /\ Size(m) <= Size(n)
         /\ m # 0 => Sign(m) = Sign(n)
         /\ q >= Size(n) => m = 0
BY DEF Sign, Size, AtMost

\* A market order that reduces, and one that does not.
LEMMA MarketOrders ==
  ASSUME amt \in Int, NEW side \in {-1, 0, 1}, NEW qty \in Nat
  PROVE  /\ Bought(side, qty) \in Int
         /\ Reduced(side, qty) \in Int
         /\ Reduces(side) /\ Reduced(side, qty) # 0 => Sign(Reduced(side, qty)) = Sign(amt)
<1>1. Size(amt) \in Nat
  BY SignedSizes
<1> DEFINE m == AtMost(qty, Size(amt))
<1>2. m \in Nat
  BY <1>1 DEF AtMost
<1>3. side * m \in Int /\ side * qty \in Int
  <2> HIDE DEF m
  <2> QED BY <1>2
<1>4. ASSUME Reduces(side)
      PROVE  amt + side * m = amt - Sign(amt) * m
  <2>1. side = -Sign(amt) /\ Sign(amt) \in {-1, 0, 1}
    BY <1>4 DEF Reduces, Sign
  <2>2. ASSUME NEW x \in {-1, 0, 1}, NEW n \in Int, NEW b \in Int
        PROVE  n + (-x) * b = n - x * b
    OBVIOUS
  <2> HIDE DEF m
  <2>3. m \in Int
    BY <1>2
  <2>4. amt + (-Sign(amt)) * m = amt - Sign(amt) * m
    BY <2>1, <2>2, <2>3
  <2> QED BY <2>1, <2>4
<1>5. Reduced(side, qty) = amt + side * m
  BY DEF Reduced
<1> HIDE DEF m
<1> QED BY <1>3, <1>4, <1>5, ReducedKeepsSide DEF Bought, m

\* A protective order leaves the position smaller, on its side.
LEMMA FiredKeepsSide ==
  ASSUME amt \in Int, live \subseteq Orders, NEW o \in live, Fires(o)
  PROVE  /\ amt' \in Int /\ live' \subseteq live
         /\ \A p \in live : p.kind = "entry" => p \in live'
         /\ amt' # 0 => amt # 0 /\ Sign(amt') = Sign(amt)
         /\ amt' # 0 /\ gaps' = {} => gaps = {} /\ \A p \in live : p.kind = "sl" => p \in live'
<1>1. o \in Orders /\ amt \in Int
  OBVIOUS
<1>2. CASE amt' = 0
  BY <1>2 DEF Fires, Protective
<1>3. CASE amt' # 0
  <2>1. /\ o.kind # "entry" /\ live' = live \ {o} /\ o.qty \in Nat
        /\ gaps' = {} => gaps = {} /\ o.kind # "sl"
        /\ amt' = amt - Sign(amt) * AtMost(o.qty, Size(amt))
    BY <1>1, <1>3 DEF Fires, Orders, Protective
  <2>2. amt' \in Int /\ Sign(amt') = Sign(amt)
    BY <1>1, <1>3, <2>1, ReducedKeepsSide
  <2>3. amt # 0
    BY <1>3, <2>2, <1>1, SignedSizes
  <2> QED BY <2>1, <2>2, <2>3
<1> QED BY <1>2, <1>3

\* The stops of a position are those of its side.
LEMMA StopsKept ==
  ASSUME Sign(amt') = Sign(amt),
         \A o \in live : o.kind = "sl" => o \in live'
  PROVE  Protected => Protected'
BY DEF Protected

\* The image of a finite set is finite, and no larger.
LEMMA ImageIsFinite ==
  ASSUME NEW S, IsFiniteSet(S), NEW f, S = DOMAIN f
  PROVE  /\ IsFiniteSet({f[x] : x \in S})
         /\ Cardinality({f[x] : x \in S}) <= Cardinality(S)
<1> DEFINE T == {f[x] : x \in S}
           g == [x \in S |-> f[x]]
<1>1. g \in Surjection(S, T)
  BY DEF Surjection
<1> QED BY <1>1, FS_Surjection

-----------------------------------------------------------------------------
(***************************************************************************)
(* The modular engine.                                                     *)
(***************************************************************************)
Decision == [coin : Coins, qty : Int]
CoinOrder    == [side : {-1, 0, 1}, qty : Nat]
ModularPlaces   == {"off", "idle", "symbols", "enter", "confirm", "stop", "profits", "clear"}
OnSymbol == {"enter", "confirm", "stop", "profits", "clear"}
Progress ==
  {p \in [at : ModularPlaces, plan : Seq(Decision), coin : Coins, order : Int, reduce : BOOLEAN] :
     p.at \in OnSymbol => p.plan # <<>>}

ModularTypeOK ==
  /\ held \in [Coins -> Int]
  /\ stops \in [Coins -> SUBSET CoinOrder] /\ profits \in [Coins -> SUBSET CoinOrder]
  /\ DOMAIN holes = Coins
  /\ active \in BOOLEAN
  /\ loop \in [Loops -> Progress]
  /\ ran \in Nat

\* A position without a stop for all of it, and nothing to blame for that.
Uncovered(c) == held[c] # 0 /\ ~Covered(c) /\ holes[c] = {}

Working(l) == loop[l].at \notin {"off", "idle"}

\* The loop is about to place the stop of the coin, or to cancel its orders.
Mends(l, c) ==
  /\ loop[l].coin = c
  /\ \/ loop[l].at = "confirm" /\ ~loop[l].reduce
     \/ loop[l].at \in {"stop", "clear"}

StopOf(amount) == [side |-> Sign(amount), qty |-> Size(amount)]

StopFits(l, c) ==
  loop[l].at = "stop" /\ loop[l].coin = c => Covers(StopOf(loop[l].order), held[c])

UncoveredIsMended(c) ==
  Uncovered(c) =>
    /\ \A l \in Loops : StopFits(l, c)
    /\ \/ \E l \in Loops : Mends(l, c)
       \/ ~HasStop(c) /\ \E l \in Loops : Working(l)

ModularInv == \A c \in Coins : UncoveredIsMended(c)

-----------------------------------------------------------------------------
\* An entry of several orders, cut to the position when it reduces.
LEMMA EnteredTyped ==
  ASSUME NEW a \in Int, NEW o \in Int, NEW r \in BOOLEAN, NEW times \in 0..3
  PROVE  Entered(a, o, r, times) \in Int
<1>1. times * Size(o) \in Nat /\ times * o \in Int
  <2>1. Size(o) \in Nat
    BY SignedSizes
  <2>2. times \in Int
    OBVIOUS
  <2> QED BY <2>1
<1>2. AtMost(times * Size(o), Size(a)) \in Int
  <2>1. Size(a) \in Nat
    BY SignedSizes
  <2> QED BY <1>1, <2>1 DEF AtMost
<1>3. a + Sign(o) * AtMost(times * Size(o), Size(a)) \in Int
  BY <1>2 DEF Sign
<1> QED BY <1>1, <1>3 DEF Entered

\* A loop between two ticks.
LEMMA IdleLoop == [NoLoop EXCEPT !.at = "idle"] \in Progress
<1>1. << >> \in Seq(Decision)
  OBVIOUS
<1>2. Btc \in Coins /\ {"off", "idle"} \subseteq ModularPlaces \ OnSymbol
  BY ModularAssumption DEF ModularPlaces, OnSymbol
<1>3. NoLoop \in Progress
  BY <1>1, <1>2 DEF Progress, NoLoop
<1>4. ASSUME NEW p \in Progress PROVE [p EXCEPT !.at = "idle"] \in Progress
  BY <1>2 DEF Progress
<1> QED BY <1>3, <1>4

\* A plan is a sequence of decisions.
LEMMA PlansTyped == Plans \subseteq Seq(Decision)
<1>1. ASSUME NEW s \in [Coins -> {-1, 0, 1}], NEW size \in [Coins -> Sizes], NEW c \in Coins
      PROVE  s[c] * size[c] \in Int
  <2>1. s[c] \in Int
    OBVIOUS
  <2>2. size[c] \in Int
    <3>1. size[c] \in Sizes
      OBVIOUS
    <3>2. \A n \in Sizes : n \in Int
      BY ModularAssumption
    <3> QED BY <3>1, <3>2
  <2> QED BY <2>1, <2>2
<1>2. ASSUME NEW s \in [Coins -> {-1, 0, 1}], NEW size \in [Coins -> Sizes],
             NEW w \in SUBSET {[coin |-> c, qty |-> s[c] * size[c]] : c \in {x \in Coins : s[x] # 0}},
             NEW p \in SetToSeqs(w)
      PROVE  p \in Seq(Decision)
  <2> DEFINE d == [c \in Coins |-> [coin |-> c, qty |-> s[c] * size[c]]]
  <2>1. w \subseteq Decision
    BY <1>1 DEF Decision
  <2>2. p \in [1..Cardinality(w) -> w]
    BY DEF SetToSeqs
  <2>3. w \subseteq {d[c] : c \in Coins}
    OBVIOUS
  <2>4. IsFiniteSet({d[c] : c \in Coins})
    <3>1. DOMAIN d = Coins /\ IsFiniteSet(Coins)
      BY ModularAssumption
    <3> HIDE DEF d
    <3> QED BY <3>1, ImageIsFinite
  <2>5. Cardinality(w) \in Nat
    BY <2>3, <2>4, FS_Subset, FS_CardinalityType
  <2> QED BY <2>1, <2>2, <2>5
<1>3. Signals \subseteq [Coins -> {-1, 0, 1}]
  BY DEF Signals
<1> QED BY <1>2, <1>3 DEF Plans

\* A loop that goes on stays a loop, and leaves the other alone.
LEMMA LoopMoves ==
  ASSUME ModularTypeOK, NEW l \in Loops, NEW r \in Progress, loop' = [loop EXCEPT ![l] = r]
  PROVE  /\ loop' \in [Loops -> Progress]
         /\ loop'[l] = r
         /\ \A k \in Loops \ {l} : loop'[k] = loop[k]
BY DEF ModularTypeOK

\* A loop goes on to the next step of its coin.
LEMMA LoopGoesTo ==
  ASSUME ModularTypeOK, NEW l \in Loops, NEW place \in ModularPlaces, At(l, place),
         place \in OnSymbol => loop[l].plan # <<>>
  PROVE  /\ loop' \in [Loops -> Progress]
         /\ loop'[l].at = place /\ loop'[l].coin = loop[l].coin
         /\ loop'[l].order = loop[l].order /\ loop'[l].reduce = loop[l].reduce
         /\ \A k \in Loops \ {l} : loop'[k] = loop[k]
<1> DEFINE r == [loop[l] EXCEPT !.at = place]
<1>1. loop[l] \in Progress
  BY DEF ModularTypeOK
<1>2. /\ r \in Progress /\ r.at = place /\ r.coin = loop[l].coin
      /\ r.order = loop[l].order /\ r.reduce = loop[l].reduce
  BY <1>1 DEF Progress
<1>3. loop' = [loop EXCEPT ![l] = r]
  BY DEF At, ModularTypeOK
<1> HIDE DEF r
<1> QED BY <1>2, <1>3, LoopMoves

\* A loop is done with a coin: the next one, or the end of its tick.
LEMMA LoopAdvances ==
  ASSUME ModularTypeOK, NEW l \in Loops, loop[l].plan # <<>>, NextSymbol(l)
  PROVE  /\ loop' \in [Loops -> Progress]
         /\ loop'[l].at = "symbols" 
         /\ \A k \in Loops \ {l} : loop'[k] = loop[k]
<1> DEFINE r == [loop[l] EXCEPT !.at = "symbols", !.plan = Tail(loop[l].plan)]
<1>1. loop[l] \in Progress /\ Tail(loop[l].plan) \in Seq(Decision)
  BY DEF ModularTypeOK, Progress
<1>2. r \in Progress /\ r.at = "symbols"
  BY <1>1 DEF Progress, ModularPlaces, OnSymbol
<1>3. loop' = [loop EXCEPT ![l] = r]
  BY <1>1 DEF NextSymbol, ModularTypeOK, Progress
<1> HIDE DEF r
<1> QED BY <1>2, <1>3, LoopMoves

\* The first decision of a plan that is left.
LEMMA NextDecision ==
  ASSUME ModularTypeOK, NEW l \in Loops, loop[l].plan # <<>>
  PROVE  Head(loop[l].plan).coin \in Coins /\ Head(loop[l].plan).qty \in Int
<1>1. loop[l].plan \in Seq(Decision)
  BY DEF ModularTypeOK, Progress
<1>2. Head(loop[l].plan) \in Decision
  BY <1>1
<1> QED BY <1>2 DEF Decision

\* A tick stays one of execute_risk_plan, with its plan while it is at a coin.
LEMMA ModularTypeStep == ModularTypeOK /\ [ModularNext]_modularVars => ModularTypeOK'
<1> SUFFICES ASSUME ModularTypeOK, [ModularNext]_modularVars
             PROVE  ModularTypeOK'
  OBVIOUS
<1> DEFINE LoopsTyped == loop' \in [Loops -> Progress]
<1>0. /\ held \in [Coins -> Int] /\ DOMAIN holes = Coins
      /\ stops \in [Coins -> SUBSET CoinOrder] /\ profits \in [Coins -> SUBSET CoinOrder]
      /\ active \in BOOLEAN /\ ran \in Nat
      /\ \A l \in Loops : loop[l] \in Progress
  BY DEF ModularTypeOK
<1> USE DEF unchangedMarket
<1>1. CASE StartModular
  <2>1. PICK l \in Loops : At(l, "idle")
    BY <1>1 DEF StartModular
  <2> QED BY <1>1, <2>1, LoopGoesTo DEF StartModular, ModularPlaces, OnSymbol, ModularTypeOK
<1>2. CASE StopModular
  BY <1>2 DEF StopModular, ModularTypeOK
<1>3. ASSUME NEW l \in Loops, LoopStops(l) PROVE ModularTypeOK'
  BY <1>3, LoopGoesTo DEF LoopStops, ModularPlaces, OnSymbol, ModularTypeOK
<1>4. ASSUME NEW l \in Loops, Tick(l) PROVE ModularTypeOK'
  <2>1. PICK p \in Plans :
          loop' = [loop EXCEPT ![l] = [loop[l] EXCEPT !.at = "symbols", !.plan = p]]
    BY <1>4 DEF Tick, ModularTypeOK
  <2>2. p \in Seq(Decision)
    BY PlansTyped
  <2>3. [loop[l] EXCEPT !.at = "symbols", !.plan = p] \in Progress
    BY <1>0, <2>2 DEF Progress, ModularPlaces, OnSymbol
  <2> QED BY <1>4, <2>1, <2>3, LoopMoves DEF Tick, ModularTypeOK
<1>5. ASSUME NEW l \in Loops, SymbolReads(l) PROVE ModularTypeOK'
  <2> DEFINE d == Head(loop[l].plan)
             delta == d.qty - held[d.coin]
             lessens == Sign(delta) = -Sign(held[d.coin]) /\ Size(delta) <= Size(held[d.coin])
  <2>1. d.coin \in Coins /\ d.qty \in Int /\ loop[l].plan # <<>>
    BY <1>5, NextDecision DEF SymbolReads
  <2>2. delta \in Int
    BY <1>0, <2>1
  <2>3. [loop[l] EXCEPT !.at = "clear", !.coin = d.coin] \in Progress
    <3> HIDE DEF d
    <3> QED BY <1>0, <2>1 DEF Progress, ModularPlaces
  <2>4. [loop[l] EXCEPT !.at = "enter", !.coin = d.coin, !.order = delta, !.reduce = lessens]
          \in Progress
    <3>1. lessens \in BOOLEAN
      OBVIOUS
    <3> HIDE DEF d, delta, lessens
    <3> QED BY <1>0, <2>1, <2>2, <3>1 DEF Progress, ModularPlaces
  <2>5. LoopsTyped
    <3>1. CASE NextSymbol(l)
      BY <3>1, <2>1, LoopAdvances
    <3>2. CASE loop' = [loop EXCEPT ![l] = [loop[l] EXCEPT !.at = "clear", !.coin = d.coin]]
      BY <3>2, <2>3, LoopMoves
    <3>3. CASE loop' = [loop EXCEPT ![l] = [loop[l] EXCEPT !.at = "enter", !.coin = d.coin,
                                              !.order = delta, !.reduce = lessens]]
      BY <3>3, <2>4, LoopMoves
    <3> QED BY <1>5, <3>1, <3>2, <3>3 DEF SymbolReads, ModularTypeOK
  <2> QED BY <1>5, <2>5 DEF SymbolReads, ModularTypeOK
<1>6. ASSUME NEW l \in Loops, SymbolEnters(l) PROVE ModularTypeOK'
  <2>1. PICK times \in 0..3, ok \in BOOLEAN :
          /\ held' = [held EXCEPT ![loop[l].coin] =
                        Entered(held[loop[l].coin], loop[l].order, loop[l].reduce, times)]
          /\ At(l, IF ok THEN "confirm" ELSE "clear")
          /\ \E f : holes' = [holes EXCEPT ![loop[l].coin] = f]
    BY <1>6 DEF SymbolEnters, ModularTypeOK
  <2>2. loop[l].coin \in Coins /\ loop[l].order \in Int /\ loop[l].plan # <<>>
    BY <1>0, <1>6 DEF SymbolEnters, Progress, OnSymbol
  <2>3. Entered(held[loop[l].coin], loop[l].order, loop[l].reduce, times) \in Int
    <3>1. held[loop[l].coin] \in Int
      BY <1>0, <2>2
    <3>2. loop[l].reduce \in BOOLEAN
      BY <1>0 DEF Progress
    <3> QED BY <2>2, <3>1, <3>2, EnteredTyped
  <2>4. held' \in [Coins -> Int] /\ DOMAIN holes' = Coins
    BY <1>0, <2>1, <2>3
  <2>5. LoopsTyped
    BY <2>1, <2>2, LoopGoesTo DEF ModularPlaces
  <2> QED BY <1>6, <2>4, <2>5 DEF SymbolEnters, ModularTypeOK
<1>7. ASSUME NEW l \in Loops, SymbolConfirms(l) PROVE ModularTypeOK'
  <2>1. loop[l].coin \in Coins /\ loop[l].plan # <<>>
    BY <1>0, <1>7 DEF SymbolConfirms, Progress, OnSymbol
  <2>2. DOMAIN holes' = Coins
    BY <1>0, <1>7 DEF SymbolConfirms
  <2>3. LoopsTyped
    <3> DEFINE r == [loop[l] EXCEPT !.at = "stop", !.order = held[loop[l].coin]]
    <3>1. CASE loop' = [loop EXCEPT ![l] = r]
      <4>1. held[loop[l].coin] \in Int
        BY <1>0, <2>1
      <4>2. r \in Progress
        BY <1>0, <2>1, <4>1 DEF Progress, ModularPlaces
      <4> QED BY <3>1, <4>2, LoopMoves
    <3>2. CASE At(l, "clear")
      BY <2>1, <3>2, LoopGoesTo DEF ModularPlaces
    <3>3. CASE NextSymbol(l)
      BY <2>1, <3>3, LoopAdvances
    <3> DEFINE old == held[loop[l].coin] - loop[l].order
               q   == [loop[l] EXCEPT !.at = "stop", !.order = old]
    <3>4. CASE loop' = [loop EXCEPT ![l] = q]
      <4>1. old \in Int
        <5>1. held[loop[l].coin] \in Int /\ loop[l].order \in Int
          BY <1>0, <2>1 DEF Progress
        <5> QED BY <5>1
      <4>2. q \in Progress
        <5> HIDE DEF old
        <5> QED BY <1>0, <2>1, <4>1 DEF Progress, ModularPlaces
      <4> HIDE DEF q
      <4> QED BY <3>4, <4>2, LoopMoves
    <3> QED BY <1>7, <3>1, <3>2, <3>3, <3>4 DEF SymbolConfirms, ModularTypeOK
  <2> QED BY <1>7, <2>2, <2>3 DEF SymbolConfirms, ModularTypeOK
<1>8. ASSUME NEW l \in Loops, SymbolStop(l) PROVE ModularTypeOK'
  <2>1. loop[l].coin \in Coins /\ loop[l].plan # <<>> /\ loop[l].order \in Int
    BY <1>0, <1>8 DEF SymbolStop, Progress, OnSymbol
  <2>2. StopOf(loop[l].order) \in CoinOrder
    BY <2>1, SignedSizes DEF StopOf, CoinOrder
  <2>3. stops' \in [Coins -> SUBSET CoinOrder] /\ DOMAIN holes' = Coins
    BY <1>0, <1>8, <2>1, <2>2 DEF SymbolStop, StopPlaced, StopOf
  <2>4. LoopsTyped
    BY <1>8, <2>1, LoopGoesTo DEF SymbolStop, ModularPlaces
  <2> QED BY <1>8, <2>3, <2>4 DEF SymbolStop, ModularTypeOK
<1>9. ASSUME NEW l \in Loops, SymbolProfits(l) PROVE ModularTypeOK'
  <2> DEFINE tps == {[side |-> Sign(loop[l].order), qty |-> Size(loop[l].order) \div part] :
                       part \in {2, 4}}
  <2>1. loop[l].coin \in Coins /\ loop[l].plan # <<>> /\ loop[l].order \in Int
    BY <1>0, <1>9 DEF SymbolProfits, Progress, OnSymbol
  <2>2. tps \subseteq CoinOrder
    <3>1. Sign(loop[l].order) \in {-1, 0, 1} /\ Size(loop[l].order) \in Nat
      BY <2>1, SignedSizes
    <3> QED BY <3>1 DEF CoinOrder
  <2>3. profits' = [profits EXCEPT ![loop[l].coin] = @ \cup {o \in tps : o.qty > 0}]
    BY <1>9 DEF SymbolProfits
  <2>4. profits' \in [Coins -> SUBSET CoinOrder]
    <3> HIDE DEF tps
    <3> QED BY <1>0, <2>2, <2>3
  <2>5. LoopsTyped
    BY <1>9, <2>1, LoopAdvances, LoopGoesTo DEF SymbolProfits, ModularPlaces
  <2> QED BY <1>9, <2>4, <2>5 DEF SymbolProfits, ModularTypeOK
<1>10. ASSUME NEW l \in Loops, SymbolCleared(l) PROVE ModularTypeOK'
  <2>1. loop[l].coin \in Coins /\ loop[l].plan # <<>>
    BY <1>0, <1>10 DEF SymbolCleared, Progress, OnSymbol
  <2>2. LoopsTyped
    BY <1>10, <2>1, LoopAdvances DEF SymbolCleared
  <2>3. DOMAIN holes' = Coins
    BY <1>0, <1>10 DEF SymbolCleared
  <2>4. stops' \in [Coins -> SUBSET CoinOrder] /\ profits' \in [Coins -> SUBSET CoinOrder]
    BY <1>0, <1>10 DEF SymbolCleared
  <2> QED BY <1>10, <2>2, <2>3, <2>4 DEF SymbolCleared, ModularTypeOK
<1>11. ASSUME NEW l \in Loops, EnsureStops(l) PROVE ModularTypeOK'
  <2>1. \A c \in Coins : [side |-> Sign(held[c]), qty |-> Size(held[c])] \in CoinOrder
    <3>1. \A c \in Coins : Sign(held[c]) \in {-1, 0, 1} /\ Size(held[c]) \in Nat
      BY <1>0, SignedSizes
    <3> QED BY <3>1 DEF CoinOrder
  <2>2. stops' \in [Coins -> SUBSET CoinOrder] /\ DOMAIN holes' = Coins
    <3>1. PICK done : 
            /\ stops' = [c \in Coins |-> IF c \in done
                 THEN stops[c] \cup {[side |-> Sign(held[c]), qty |-> Size(held[c])]} ELSE stops[c]]
            /\ holes' = [c \in Coins |-> IF c \in done THEN {}
                      ELSE IF c \in Bare THEN holes[c] \cup {"refused"} ELSE holes[c]]
      BY <1>11 DEF EnsureStops
    <3> QED BY <1>0, <2>1, <3>1
  <2>3. [NoLoop EXCEPT !.at = "idle"] \in Progress
    BY IdleLoop
  <2>4. LoopsTyped
    BY <1>11, <2>3, LoopMoves DEF EnsureStops
  <2> QED BY <1>11, <2>2, <2>4 DEF EnsureStops, ModularTypeOK
<1>12. ASSUME NEW c \in Coins, StopTriggers(c) \/ ProfitTaken(c) PROVE ModularTypeOK'
  <2>1. PICK o \in CoinOrder : Triggers(c, o)
    BY <1>0, <1>12 DEF StopTriggers, ProfitTaken
  <2>2. held[c] - o.side * AtMost(o.qty, Size(held[c])) \in Int
    <3>1. o.side = Sign(held[c]) /\ o.qty \in Nat /\ held[c] \in Int
      BY <1>0, <2>1 DEF Triggers, CoinOrder
    <3> QED BY <3>1, ReducedKeepsSide
  <2>3. held' \in [Coins -> Int] /\ DOMAIN holes' = Coins
    BY <1>0, <2>1, <2>2 DEF Triggers
  <2>4. UNCHANGED <<active, loop, ran>>
    BY <2>1 DEF Triggers
  <2>5. stops' \in [Coins -> SUBSET CoinOrder] /\ profits' \in [Coins -> SUBSET CoinOrder]
    BY <1>0, <1>12 DEF StopTriggers, ProfitTaken
  <2> QED BY <2>3, <2>4, <2>5 DEF ModularTypeOK
<1>13. CASE UNCHANGED modularVars
  BY <1>13 DEF modularVars, ModularTypeOK
<1> QED
  BY <1>1, <1>2, <1>3, <1>4, <1>5, <1>6, <1>7, <1>8, <1>9, <1>10, <1>11, <1>12, <1>13
  DEF ModularNext

\* A step that does not touch what the coin has, by a loop that goes on with
\* it if it was about to mend it.
LEMMA Untouched ==
  ASSUME NEW c \in Coins, UncoveredIsMended(c), NEW l \in Loops,
         held'[c] = held[c], stops'[c] = stops[c], holes'[c] = holes[c],
         \A k \in Loops \ {l} : loop'[k] = loop[k],
         Uncovered(c) => StopFits(l, c)',
         Mends(l, c) => Mends(l, c)',
         Working(l) => Working(l)' \/ HasStop(c)
  PROVE  UncoveredIsMended(c)'
<1> SUFFICES ASSUME Uncovered(c)'
             PROVE  /\ \A k \in Loops : StopFits(k, c)'
                    /\ \/ \E k \in Loops : Mends(k, c)'
                       \/ ~HasStop(c)' /\ \E k \in Loops : Working(k)'
  BY DEF UncoveredIsMended
<1>1. Uncovered(c)
  BY DEF Uncovered, Covered
<1>2. \A k \in Loops : StopFits(k, c)'
  BY <1>1 DEF UncoveredIsMended, StopFits
<1>3. HasStop(c)' <=> HasStop(c)
  BY DEF HasStop
<1>4. CASE \E k \in Loops : Mends(k, c)
  BY <1>2, <1>4 DEF Mends
<1>5. CASE ~HasStop(c) /\ \E k \in Loops : Working(k)
  BY <1>2, <1>3, <1>5 DEF Working
<1> QED BY <1>1, <1>4, <1>5 DEF UncoveredIsMended

\* What a position keeps, when it shrinks on its side and no stop is added.
LEMMA Shrunk ==
  ASSUME NEW c \in Coins, held[c] \in Int, held'[c] \in Int, held[c] # 0,
         Sign(held'[c]) = Sign(held[c]), Size(held'[c]) <= Size(held[c]),
         stops'[c] \subseteq stops[c], stops[c] \in SUBSET CoinOrder
  PROVE  /\ \A o \in CoinOrder : Covers(o, held[c]) => Covers(o, held'[c])
         /\ ~HasStop(c) => ~HasStop(c)'
<1>1. Size(held'[c]) \in Nat /\ Size(held[c]) \in Nat
  BY SignedSizes
<1> QED BY <1>1 DEF Covers, HasStop, CoinOrder

\* A coin that loses its stop has a loop that places another, or a cause.
LEMMA ModularInvStep ==
  ModularTypeOK /\ ModularInv /\ [ModularNext]_modularVars => ModularInv'
<1> SUFFICES ASSUME ModularTypeOK, ModularInv, [ModularNext]_modularVars, NEW c \in Coins
             PROVE  UncoveredIsMended(c)'
  BY DEF ModularInv
<1>0. /\ UncoveredIsMended(c)
      /\ held \in [Coins -> Int] /\ DOMAIN holes = Coins
      /\ stops \in [Coins -> SUBSET CoinOrder] /\ profits \in [Coins -> SUBSET CoinOrder]
      /\ \A l \in Loops : loop[l] \in Progress
  BY DEF ModularTypeOK, ModularInv
<1> USE DEF unchangedMarket
<1>a. ASSUME NEW l \in Loops, UNCHANGED <<held, stops, holes>>,
             loop[l].at \notin {"confirm", "stop", "clear"}, loop'[l].at # "stop",
             Working(l) => Working(l)',
             \A k \in Loops \ {l} : loop'[k] = loop[k]
      PROVE  UncoveredIsMended(c)'
  BY <1>0, <1>a, Untouched DEF StopFits, Mends
<1>b. ASSUME NEW l \in Loops, c # loop[l].coin, loop'[l].coin = loop[l].coin \/ loop'[l].at = "symbols",
             held'[c] = held[c], stops'[c] = stops[c], holes'[c] = holes[c],
             Working(l)', \A k \in Loops \ {l} : loop'[k] = loop[k]
      PROVE  UncoveredIsMended(c)'
  BY <1>0, <1>b, Untouched DEF StopFits, Mends
<1>1. CASE StartModular
  <2>1. PICK l \in Loops : At(l, "idle") /\ loop[l].at = "off"
    BY <1>1 DEF StartModular
  <2>2. loop'[l].at = "idle" /\ \A k \in Loops \ {l} : loop'[k] = loop[k]
    BY <2>1, LoopGoesTo DEF ModularPlaces, OnSymbol
  <2> QED BY <1>1, <1>a, <2>1, <2>2 DEF StartModular, Working
<1>2. CASE StopModular
  BY <1>0, <1>2 DEF StopModular, UncoveredIsMended, Uncovered, Covered, HasStop, StopFits, Mends, Working
<1>3. ASSUME NEW l \in Loops, LoopStops(l) PROVE UncoveredIsMended(c)'
  <2>1. loop'[l].at = "off" /\ \A k \in Loops \ {l} : loop'[k] = loop[k]
    BY <1>3, LoopGoesTo DEF LoopStops, ModularPlaces, OnSymbol
  <2> QED BY <1>3, <1>a, <2>1 DEF LoopStops, Working
<1>4. ASSUME NEW l \in Loops, Tick(l) PROVE UncoveredIsMended(c)'
  <2>1. loop'[l].at = "symbols" /\ \A k \in Loops \ {l} : loop'[k] = loop[k]
    BY <1>0, <1>4 DEF Tick, Progress, ModularTypeOK
  <2> QED BY <1>4, <1>a, <2>1 DEF Tick, Working
<1>5. ASSUME NEW l \in Loops, SymbolReads(l) PROVE UncoveredIsMended(c)'
  <2>1. /\ loop'[l].at \in {"symbols", "clear", "enter"}
        /\ \A k \in Loops \ {l} : loop'[k] = loop[k]
    <3>1. loop[l].plan # <<>> /\ loop[l] \in Progress
      BY <1>0, <1>5 DEF SymbolReads
    <3>2. CASE NextSymbol(l)
      BY <3>1, <3>2, LoopAdvances
    <3> DEFINE d == Head(loop[l].plan)
               delta == d.qty - held[d.coin]
               lessens == Sign(delta) = -Sign(held[d.coin]) /\ Size(delta) <= Size(held[d.coin])
               cleared == [loop[l] EXCEPT !.at = "clear", !.coin = d.coin]
               entered == [loop[l] EXCEPT !.at = "enter", !.coin = d.coin, !.order = delta,
                                          !.reduce = lessens]
    <3>3. CASE loop' = [loop EXCEPT ![l] = cleared]
      BY <3>1, <3>3 DEF Progress, ModularTypeOK
    <3>4. CASE loop' = [loop EXCEPT ![l] = entered]
      <4>1. entered.at = "enter"
        BY <3>1 DEF Progress
      <4> HIDE DEF entered
      <4> QED BY <3>4, <4>1 DEF ModularTypeOK
    <3> QED BY <1>5, <3>2, <3>3, <3>4 DEF SymbolReads
  <2> QED BY <1>5, <1>a, <2>1 DEF SymbolReads, Working
<1>6. ASSUME NEW l \in Loops, SymbolEnters(l) PROVE UncoveredIsMended(c)'
  <2>1. /\ loop[l].at = "enter" /\ loop[l].coin \in Coins /\ loop[l].order \in Int
        /\ loop[l].plan # <<>> /\ loop[l].reduce \in BOOLEAN
    BY <1>0, <1>6 DEF SymbolEnters, Progress, OnSymbol
  <2>2. PICK times \in 0..3, ok \in BOOLEAN :
          /\ held' = [held EXCEPT ![loop[l].coin] =
                        Entered(held[loop[l].coin], loop[l].order, loop[l].reduce, times)]
          /\ At(l, IF ok THEN "confirm" ELSE "clear")
          /\ holes' = [holes EXCEPT ![loop[l].coin] =
               IF held'[loop[l].coin] = 0 THEN {}
               ELSE IF Alone(l) \/ held'[loop[l].coin] = held[loop[l].coin]
                    THEN holes[loop[l].coin] ELSE holes[loop[l].coin] \cup {"overlap"}]
    BY <1>0, <1>6 DEF SymbolEnters
  <2>3. /\ loop'[l].at \in {"confirm", "clear"} /\ loop'[l].coin = loop[l].coin
        /\ loop'[l].reduce = loop[l].reduce
        /\ \A k \in Loops \ {l} : loop'[k] = loop[k]
    BY <2>1, <2>2, LoopGoesTo DEF ModularPlaces
  <2>4. stops' = stops
    BY <1>6 DEF SymbolEnters
  <2>5. CASE c # loop[l].coin
    BY <1>0, <1>b, <2>2, <2>3, <2>4, <2>5 DEF Working
  <2>6. CASE c = loop[l].coin /\ held'[c] = held[c]
    <3>1. CASE held[c] = 0
      BY <2>6, <3>1 DEF UncoveredIsMended, Uncovered
    <3>2. CASE held[c] # 0
      <4>1. holes'[c] = holes[c]
        BY <1>0, <2>2, <2>6, <3>2
      <4> QED BY <1>0, <2>1, <2>3, <2>4, <2>6, <4>1, Untouched DEF StopFits, Mends, Working
    <3> QED BY <3>1, <3>2
  <2>7. CASE c = loop[l].coin /\ held'[c] # held[c]
    <3> SUFFICES ASSUME Uncovered(c)'
                 PROVE  /\ \A k \in Loops : StopFits(k, c)'
                        /\ \/ \E k \in Loops : Mends(k, c)'
                           \/ ~HasStop(c)' /\ \E k \in Loops : Working(k)'
      BY DEF UncoveredIsMended
    <3>1. Alone(l) /\ held'[c] # 0 /\ holes[c] = {}
      BY <1>0, <2>2, <2>7 DEF Uncovered
    <3>2. \A k \in Loops : StopFits(k, c)'
      BY <2>3, <3>1 DEF StopFits, Alone
    <3>3. CASE loop'[l].at = "clear" \/ ~loop[l].reduce
      BY <2>3, <2>7, <3>2, <3>3 DEF Mends
    <3>4. CASE loop[l].reduce
      <4> DEFINE o == loop[l].order
      <4>1. /\ held[c] \in Int /\ held'[c] \in Int
            /\ held'[c] = Entered(held[c], o, TRUE, times)
        BY <1>0, <2>1, <2>2, <2>7, <3>4, EnteredTyped
      <4>2. /\ Sign(held[c]) = -Sign(o)
            /\ held'[c] = held[c] + Sign(o) * AtMost(times * Size(o), Size(held[c]))
        BY <2>7, <4>1 DEF Entered
      <4>3. times * Size(o) \in Nat
        BY <2>1, SignedSizes
      <4>4. held'[c] = held[c] - Sign(held[c]) * AtMost(times * Size(o), Size(held[c]))
        <5>1. Size(held[c]) \in Nat
          BY <4>1, SignedSizes
        <5>2. AtMost(times * Size(o), Size(held[c])) \in Int
          BY <4>3, <5>1 DEF AtMost
        <5> DEFINE m == AtMost(times * Size(o), Size(held[c]))
        <5>3. Sign(o) = -Sign(held[c]) /\ Sign(held[c]) \in {-1, 0, 1}
          BY <4>1, <4>2 DEF Sign
        <5>4. ASSUME NEW s \in {-1, 0, 1}, NEW n \in Int, NEW b \in Int
              PROVE  n + (-s) * b = n - s * b
          OBVIOUS
        <5> HIDE DEF o, m
        <5>5. held'[c] = held[c] + (-Sign(held[c])) * m
          BY <4>2, <5>3 DEF m
        <5>6. held'[c] = held[c] - Sign(held[c]) * m
          <6>1. m \in Int
            BY <5>2 DEF m
          <6> QED BY <4>1, <5>3, <5>4, <5>5, <6>1
        <5> QED BY <5>6 DEF m
      <4>5. Size(held'[c]) <= Size(held[c]) /\ Sign(held'[c]) = Sign(held[c])
        BY <3>1, <4>1, <4>3, <4>4, ReducedKeepsSide
      <4>6. held[c] # 0
        BY <3>1, <4>1, <4>5, SignedSizes
      <4>7. Uncovered(c)
        BY <1>0, <2>4, <3>1, <4>1, <4>5, <4>6, Shrunk DEF Uncovered, Covered
      <4>8. ~HasStop(c)
        BY <1>0, <2>1, <3>1, <4>7 DEF UncoveredIsMended, Mends, Alone
      <4>9. ~HasStop(c)'
        BY <1>0, <2>4, <4>1, <4>5, <4>6, <4>8, Shrunk
      <4> QED BY <2>3, <3>2, <4>9 DEF Working
    <3> QED BY <2>1, <3>3, <3>4
  <2> QED BY <2>5, <2>6, <2>7
<1>7. ASSUME NEW l \in Loops, SymbolConfirms(l) PROVE UncoveredIsMended(c)'
  <2>1. /\ loop[l].at = "confirm" /\ loop[l].coin \in Coins /\ loop[l].plan # <<>>
        /\ held' = held /\ stops' = stops
    BY <1>0, <1>7 DEF SymbolConfirms, Progress, OnSymbol
  <2>2. CASE /\ held[loop[l].coin] # 0
             /\ loop' = [loop EXCEPT ![l] = [loop[l] EXCEPT !.at = "stop", !.order = held[loop[l].coin]]]
             /\ UNCHANGED holes
    <3>1. /\ loop'[l].at = "stop" /\ loop'[l].coin = loop[l].coin
          /\ loop'[l].order = held[loop[l].coin]
          /\ \A k \in Loops \ {l} : loop'[k] = loop[k]
      BY <1>0, <2>2 DEF Progress, ModularTypeOK
    <3>2. CASE c = loop[l].coin
      <4>1. Size(held[c]) \in Nat
        BY <1>0, SignedSizes
      <4>2. Covers(StopOf(held[c]), held[c])
        BY <4>1 DEF Covers, StopOf
      <4>3. StopFits(l, c)' /\ Mends(l, c)' /\ Working(l)'
        BY <2>1, <3>1, <3>2, <4>2 DEF StopFits, Mends, Working, Covers, StopOf
      <4> QED BY <1>0, <2>1, <2>2, <3>1, <4>3, Untouched
    <3> QED BY <1>b, <2>1, <2>2, <3>1, <3>2 DEF Working
  <2>3. CASE /\ loop' = [loop EXCEPT ![l] = [loop[l] EXCEPT !.at = "stop",
                                              !.order = held[loop[l].coin] - loop[l].order]]
             /\ holes' = [holes EXCEPT ![loop[l].coin] = holes[loop[l].coin] \cup {"unconfirmed"}]
    <3>1. loop'[l].at = "stop" /\ \A k \in Loops \ {l} : loop'[k] = loop[k]
      BY <1>0, <2>3 DEF Progress, ModularTypeOK
    <3>2. CASE c # loop[l].coin
      <4>1. holes'[c] = holes[c]
        BY <1>0, <2>1, <2>3, <3>2
      <4>2. loop'[l].coin = loop[l].coin
        BY <1>0, <2>3 DEF Progress, ModularTypeOK
      <4> QED BY <1>b, <2>1, <3>1, <3>2, <4>1, <4>2 DEF Working
    <3>3. CASE c = loop[l].coin
      <4>1. holes'[c] # {}
        BY <1>0, <2>1, <2>3, <3>3
      <4> QED BY <4>1 DEF UncoveredIsMended, Uncovered
    <3> QED BY <3>2, <3>3
  <2>4. CASE NextSymbol(l) /\ holes' = IF loop[l].reduce \/ held[loop[l].coin] = 0 THEN holes
                    ELSE [holes EXCEPT ![loop[l].coin] = holes[loop[l].coin] \cup {"unconfirmed"}]
    <3>1. /\ loop'[l].at = "symbols" /\ \A k \in Loops \ {l} : loop'[k] = loop[k]
      BY <2>1, <2>4, LoopAdvances
    <3>2. CASE c # loop[l].coin
      <4>1. holes'[c] = holes[c]
        BY <1>0, <2>1, <2>4, <3>2
      <4> QED BY <1>b, <2>1, <3>1, <3>2, <4>1 DEF Working
    <3>3. CASE c = loop[l].coin /\ loop[l].reduce
      <4>1. ~Mends(l, c) /\ StopFits(l, c)' /\ Working(l)'
        BY <2>1, <3>1, <3>3 DEF Mends, StopFits, Working
      <4> QED BY <1>0, <2>1, <2>4, <3>1, <3>3, <4>1, Untouched
    <3>4. CASE c = loop[l].coin /\ ~loop[l].reduce
      <4>1. held'[c] = 0 \/ holes'[c] # {}
        BY <1>0, <2>1, <2>4, <3>4
      <4> QED BY <4>1 DEF UncoveredIsMended, Uncovered
    <3> QED BY <3>2, <3>3, <3>4
  <2>5. CASE At(l, "clear") /\ UNCHANGED holes
    <3>1. /\ loop'[l].at = "clear" /\ loop'[l].coin = loop[l].coin
          /\ \A k \in Loops \ {l} : loop'[k] = loop[k]
      BY <2>1, <2>5, LoopGoesTo DEF ModularPlaces
    <3>2. StopFits(l, c)' /\ (Mends(l, c) => Mends(l, c)') /\ Working(l)'
      BY <3>1 DEF StopFits, Mends, Working
    <3> QED BY <1>0, <2>1, <2>5, <3>1, <3>2, Untouched
  <2> QED BY <1>0, <1>7, <2>2, <2>3, <2>4, <2>5 DEF SymbolConfirms
<1>8. ASSUME NEW l \in Loops, SymbolStop(l) PROVE UncoveredIsMended(c)'
  <2>1. /\ loop[l].at = "stop" /\ loop[l].coin \in Coins /\ loop[l].plan # <<>>
        /\ held' = held
    BY <1>0, <1>8 DEF SymbolStop, Progress, OnSymbol
  <2>2. CASE StopPlaced(loop[l].coin, loop[l].order) /\ At(l, "profits")
    <3>1. /\ loop'[l].at = "profits" /\ loop'[l].coin = loop[l].coin
          /\ \A k \in Loops \ {l} : loop'[k] = loop[k]
      BY <2>1, <2>2, LoopGoesTo DEF ModularPlaces
    <3>2. /\ stops' = [stops EXCEPT ![loop[l].coin] = @ \cup {StopOf(loop[l].order)}]
          /\ holes' = [holes EXCEPT ![loop[l].coin] =
               IF Covers(StopOf(loop[l].order), held[loop[l].coin]) THEN {} ELSE @]
      BY <2>2 DEF StopPlaced, StopOf
    <3>3. CASE c # loop[l].coin
      BY <1>0, <1>b, <2>1, <3>1, <3>2, <3>3 DEF Working
    <3>4. CASE c = loop[l].coin
      <4>1. CASE Covers(StopOf(loop[l].order), held[c])
        <5>1. StopOf(loop[l].order) \in stops'[c]
          BY <1>0, <2>1, <3>2, <3>4
        <5>2. Covered(c)'
          BY <2>1, <4>1, <5>1 DEF Covered, Covers
        <5> QED BY <5>2 DEF UncoveredIsMended, Uncovered
      <4>2. CASE ~Covers(StopOf(loop[l].order), held[c])
        <5>1. stops[c] \subseteq stops'[c] /\ holes'[c] = holes[c]
          BY <1>0, <2>1, <3>2, <3>4, <4>2
        <5>2. Uncovered(c)' => Uncovered(c)
          BY <2>1, <5>1 DEF Uncovered, Covered, Covers
        <5>3. ~Uncovered(c)
          BY <1>0, <2>1, <3>4, <4>2 DEF UncoveredIsMended, StopFits
        <5> QED BY <5>2, <5>3 DEF UncoveredIsMended
      <4> QED BY <4>1, <4>2
    <3> QED BY <3>3, <3>4
  <2>3. CASE At(l, "clear") /\ UNCHANGED <<stops, holes>>
    <3>1. /\ loop'[l].at = "clear" /\ loop'[l].coin = loop[l].coin
          /\ \A k \in Loops \ {l} : loop'[k] = loop[k]
      BY <2>1, <2>3, LoopGoesTo DEF ModularPlaces
    <3>2. StopFits(l, c)' /\ (Mends(l, c) => Mends(l, c)') /\ Working(l)'
      BY <3>1 DEF StopFits, Mends, Working
    <3> QED BY <1>0, <2>1, <2>3, <3>1, <3>2, Untouched
  <2> QED BY <1>8, <2>2, <2>3 DEF SymbolStop
<1>9. ASSUME NEW l \in Loops, SymbolProfits(l) PROVE UncoveredIsMended(c)'
  <2>1. loop[l].at = "profits" /\ loop[l].plan # <<>>
    BY <1>0, <1>9 DEF SymbolProfits, Progress, OnSymbol
  <2>2. /\ loop'[l].at \in {"symbols", "clear"}
        /\ \A k \in Loops \ {l} : loop'[k] = loop[k]
    BY <1>9, <2>1, LoopAdvances, LoopGoesTo DEF SymbolProfits, ModularPlaces
  <2> QED BY <1>9, <1>a, <2>1, <2>2 DEF SymbolProfits, Working
<1>10. ASSUME NEW l \in Loops, SymbolCleared(l) PROVE UncoveredIsMended(c)'
  <2>1. /\ loop[l].at = "clear" /\ loop[l].coin \in Coins /\ loop[l].plan # <<>>
        /\ held' = held
    BY <1>0, <1>10 DEF SymbolCleared, Progress, OnSymbol
  <2>2. /\ loop'[l].at = "symbols" /\ \A k \in Loops \ {l} : loop'[k] = loop[k]
    BY <1>10, <2>1, LoopAdvances DEF SymbolCleared
  <2>3. CASE c # loop[l].coin
    <3>1. stops'[c] = stops[c] /\ holes'[c] = holes[c]
      BY <1>0, <1>10, <2>1, <2>3 DEF SymbolCleared
    <3> QED BY <1>b, <2>1, <2>2, <2>3, <3>1 DEF Working
  <2>4. CASE c = loop[l].coin
    <3>1. \/ holes'[c] # {} \/ held'[c] = 0
          \/ stops'[c] = {} /\ Alone(l)
      <4>1. CASE /\ stops' = [stops EXCEPT ![c] = {}]
                 /\ holes' = IF Alone(l) \/ held[c] = 0 THEN holes
                              ELSE [holes EXCEPT ![c] = holes[c] \cup {"overlap"}]
        BY <1>0, <2>1, <4>1
      <4>2. CASE holes' = [holes EXCEPT ![c] = holes[c] \cup {"cancel"}]
        BY <1>0, <4>2
      <4> QED BY <1>10, <2>4, <4>1, <4>2 DEF SymbolCleared
    <3>2. CASE stops'[c] = {} /\ Alone(l)
      <4>1. ~HasStop(c)' /\ Working(l)' /\ \A k \in Loops : StopFits(k, c)'
        BY <2>2, <3>2 DEF HasStop, Working, StopFits, Alone
      <4> QED BY <4>1 DEF UncoveredIsMended
    <3> QED BY <3>1, <3>2 DEF UncoveredIsMended, Uncovered
  <2> QED BY <2>3, <2>4
<1>11. ASSUME NEW l \in Loops, EnsureStops(l) PROVE UncoveredIsMended(c)'
  <2>1. /\ loop'[l].at = "idle" /\ loop[l].at = "symbols"
        /\ \A k \in Loops \ {l} : loop'[k] = loop[k]
    BY <1>0, <1>11, IdleLoop DEF EnsureStops, NoLoop, ModularTypeOK
  <2>2. PICK done \in SUBSET Bare :
          /\ stops' = [x \in Coins |-> IF x \in done
               THEN stops[x] \cup {[side |-> Sign(held[x]), qty |-> Size(held[x])]} ELSE stops[x]]
          /\ holes' = [x \in Coins |-> IF x \in done THEN {}
               ELSE IF x \in Bare THEN holes[x] \cup {"refused"} ELSE holes[x]]
    BY <1>11 DEF EnsureStops
  <2>3. held' = held
    BY <1>11 DEF EnsureStops
  <2>4. CASE c \in done
    <3>1. StopOf(held[c]) \in stops'[c] /\ Size(held[c]) \in Nat
      BY <1>0, <2>2, <2>4, SignedSizes DEF StopOf
    <3>2. Covered(c)'
      BY <2>3, <3>1 DEF Covered, Covers, StopOf
    <3> QED BY <3>2 DEF UncoveredIsMended, Uncovered
  <2>5. CASE c \in Bare \ done
    <3>1. holes'[c] # {}
      BY <2>2, <2>5
    <3> QED BY <3>1 DEF UncoveredIsMended, Uncovered
  <2>6. CASE c \notin Bare
    <3>1. stops'[c] = stops[c] /\ holes'[c] = holes[c]
      BY <2>2, <2>6
    <3>2. held[c] = 0 \/ HasStop(c)
      BY <2>6 DEF Bare
    <3>3. CASE held[c] = 0
      BY <2>3, <3>3 DEF UncoveredIsMended, Uncovered
    <3>4. CASE HasStop(c)
      BY <1>0, <2>1, <2>3, <3>1, <3>4, Untouched DEF StopFits, Mends
    <3> QED BY <3>2, <3>3, <3>4
  <2> QED BY <2>4, <2>5, <2>6
<1>12. ASSUME NEW x \in Coins, StopTriggers(x) \/ ProfitTaken(x) PROVE UncoveredIsMended(c)'
  <2>1. PICK o \in CoinOrder :
          /\ Triggers(x, o)
          /\ stops' = [stops EXCEPT ![x] = @ \ {o}] \/ stops' = stops
    BY <1>0, <1>12 DEF StopTriggers, ProfitTaken
  <2>2. /\ o.side = Sign(held[x]) /\ o.qty \in Nat /\ held[x] \in Int
        /\ held' = [held EXCEPT ![x] = held[x] - Sign(held[x]) * AtMost(o.qty, Size(held[x]))]
        /\ holes' = [holes EXCEPT ![x] = IF held'[x] = 0 THEN {} ELSE holes[x]]
        /\ loop' = loop
    BY <1>0, <2>1 DEF Triggers, CoinOrder
  <2>3. CASE c # x
    <3>1. held'[c] = held[c] /\ holes'[c] = holes[c] /\ stops'[c] = stops[c]
      BY <1>0, <2>1, <2>2, <2>3
    <3>2. 1 \in Loops /\ loop'[1] = loop[1]
      BY <2>2 DEF Loops
    <3>3. Uncovered(c) => StopFits(1, c)'
      BY <1>0, <3>1, <3>2 DEF StopFits, UncoveredIsMended
    <3> QED BY <1>0, <2>2, <3>1, <3>2, <3>3, Untouched DEF Mends, Working
  <2>4. CASE c = x
    <3> SUFFICES ASSUME Uncovered(c)' PROVE UncoveredIsMended(c)'
      BY DEF UncoveredIsMended
    <3>1. /\ held'[c] # 0 /\ holes[c] = {} /\ held'[c] \in Int
          /\ held'[c] = held[c] - Sign(held[c]) * AtMost(o.qty, Size(held[c]))
      BY <1>0, <2>2, <2>4, ReducedKeepsSide DEF Uncovered
    <3>2. /\ Sign(held'[c]) = Sign(held[c]) /\ Size(held'[c]) <= Size(held[c])
          /\ ~(o.qty >= Size(held[c]))
      BY <2>2, <2>4, <3>1, ReducedKeepsSide
    <3>3. held[c] # 0
      BY <1>0, <3>1, <3>2, SignedSizes
    <3>4. stops'[c] \subseteq stops[c] /\ \A p \in stops[c] : p \in stops'[c] \/ p = o
      BY <1>0, <2>1, <2>4
    <3>5. /\ \A p \in CoinOrder : Covers(p, held[c]) => Covers(p, held'[c])
          /\ ~HasStop(c) => ~HasStop(c)'
      BY <1>0, <3>1, <3>2, <3>3, <3>4, Shrunk
    <3>6. ~Covered(c)
      BY <1>0, <2>2, <3>2, <3>4, <3>5 DEF Uncovered, Covered, Covers
    <3>7. Uncovered(c)
      BY <3>1, <3>3, <3>6 DEF Uncovered
    <3>8. \A l \in Loops : StopFits(l, c)'
      <4> SUFFICES ASSUME NEW l \in Loops, loop[l].at = "stop", loop[l].coin = c
                   PROVE  Covers(StopOf(loop[l].order), held'[c])
        BY <2>2 DEF StopFits
      <4>1. StopOf(loop[l].order) \in CoinOrder
        BY <1>0, SignedSizes DEF StopOf, CoinOrder, Progress
      <4>2. Covers(StopOf(loop[l].order), held[c])
        BY <1>0, <3>7 DEF UncoveredIsMended, StopFits
      <4> QED BY <3>5, <4>1, <4>2
    <3> QED BY <1>0, <2>2, <3>5, <3>7, <3>8 DEF UncoveredIsMended, Mends, Working
  <2> QED BY <2>3, <2>4
<1>13. CASE UNCHANGED modularVars
  BY <1>0, <1>13 DEF modularVars, UncoveredIsMended, Uncovered, Covered, HasStop, StopFits, Mends, Working
<1> QED
  BY <1>1, <1>2, <1>3, <1>4, <1>5, <1>6, <1>7, <1>8, <1>9, <1>10, <1>11, <1>12, <1>13
  DEF ModularNext

-----------------------------------------------------------------------------
\* What a step of LegacyEngines is for the modular engine.
LEMMA ModularSteps == [LegacyNext]_legacyVars => [ModularNext]_modularVars
BY DEF LegacyNext, legacyVars, RunnerStep, AutopilotStep, ModularStep, PlannerStep

\* Nothing is held at the start.
LEMMA ModularBegins == LegacyInit => ModularTypeOK /\ ModularInv
<1> SUFFICES ASSUME ModularInit PROVE ModularTypeOK /\ ModularInv
  BY DEF LegacyInit
<1>1. << >> \in Seq(Decision)
  OBVIOUS
<1>2. NoLoop \in Progress
  BY <1>1, ModularAssumption DEF Progress, NoLoop, ModularPlaces, OnSymbol
<1>3. ModularTypeOK
  <2>1. loop \in [Loops -> Progress]
    BY <1>2 DEF ModularInit
  <2>2. held \in [Coins -> Int] /\ DOMAIN holes = Coins
    BY DEF ModularInit
  <2>3. stops \in [Coins -> SUBSET CoinOrder] /\ profits \in [Coins -> SUBSET CoinOrder]
    BY DEF ModularInit
  <2> QED BY <2>1, <2>2, <2>3 DEF ModularInit, ModularTypeOK
<1>4. ModularInv
  BY DEF ModularInit, ModularInv, UncoveredIsMended, Uncovered
<1> QED BY <1>3, <1>4

(***************************************************************************)
(* Between two ticks of the modular engine a position has a stop for all   *)
(* of it, or one was refused, not cancelled or placed on an old reading,   *)
(* or two loops ran at a time (execute_risk_plan,                          *)
(* _ensure_stop_for_position): for any coins, sizes, limits and faults. A  *)
(* coin without its stop is one a loop has still to place a stop for, and  *)
(* the stop it is about to place is of the size of the position.           *)
(***************************************************************************)
THEOREM ModularCoversAlways == LegacySpec => []ModularCovers
<1> DEFINE Inv == ModularTypeOK /\ ModularInv
<1>1. LegacyInit => Inv
  BY ModularBegins
<1>2. Inv /\ [LegacyNext]_legacyVars => Inv'
  BY ModularSteps, ModularTypeStep, ModularInvStep
<1>3. Inv => ModularCovers
  BY DEF ModularInv, ModularCovers, ModularSettled, UncoveredIsMended, Uncovered, Mends, Working
<1> QED BY <1>1, <1>2, <1>3, PTL DEF LegacySpec

-----------------------------------------------------------------------------
(***************************************************************************)
(* The autopilot.                                                          *)
(***************************************************************************)
Steps ==
  {"off", "boot", "asleep", "top", "expired", "gone", "protectPending", "cycle", "exit", "signal",
   "decide", "flip", "flipOpen", "flipAlgo", "flipClose", "enter", "place", "placed", "protect"}

\* What the exchange knows, whichever engine runs.
BookOK ==
  /\ amt \in Int
  /\ live \subseteq Orders /\ IsFiniteSet(live)

\* An entry order is known by its id, and never grows.
EntriesOK ==
  /\ \A o, p \in live : o.kind = "entry" /\ p.kind = "entry" /\ o.id = p.id => o = p
  /\ \A o \in live : o.kind = "entry" => o.qty <= Full

CycleLocals == [held : Int, side : {-1, 1}, id : 0..MaxOrders, restarted : BOOLEAN]

AutopilotTypeOK ==
  /\ BookOK /\ EntriesOK
  /\ step \in Steps
  /\ pending \in [id : 0..MaxOrders, side : {-1, 1}]
  /\ cycle \in CycleLocals
  /\ counted \in Int /\ since \in Int
  /\ cooling \in BOOLEAN /\ seen \in BOOLEAN

\* Where the order of the loop is noted.
NotedOK ==
  /\ step = "placed" => pending.id = 0 /\ cycle.id # 0
  /\ step = "place" /\ entryType = "limit" => pending.id = 0
  /\ step \in {"expired", "gone", "protectPending"} /\ pending.id # 0 => cycle.id = pending.id

Whole(i) == \E o \in OurEntry(i) : o.qty = Full

\* A position without a stop is that of an order that is looked after still.
NakedIsKnown ==
  Naked => \/ pending.id # 0 /\ ~Whole(pending.id)
           \/ step = "placed" /\ ~Whole(cycle.id)
           \/ step \in {"protect", "protectPending"}

\* The limit of the day, from where it is checked to the order.
Within == counted > -DailyLimit \/ cycle.restarted

LimitChecked ==
  /\ step \in {"exit", "flip", "flipOpen", "flipAlgo", "flipClose", "enter", "place"} => Within
  /\ step = "signal" => (Within \/ cooling) /\ (cycle.held # 0 => Within)
  /\ step = "decide" => Within \/ cooling

AutopilotInv ==
  IF engine = "autopilot" THEN AutopilotTypeOK /\ NotedOK /\ NakedIsKnown ELSE step = "off"


\* A set with an element more.
LEMMA OneMoreElement ==
  ASSUME NEW S, IsFiniteSet(S), NEW x
  PROVE  /\ IsFiniteSet(S \cup {x}) /\ Cardinality(S \cup {x}) \in Nat
         /\ Cardinality(S \cup {x}) <= Cardinality(S) + 1
<1>1. Cardinality(S) \in Nat
  BY FS_CardinalityType
<1>2. /\ IsFiniteSet(S \cup {x})
      /\ Cardinality(S \cup {x}) = IF x \in S THEN Cardinality(S) ELSE Cardinality(S) + 1
  BY FS_AddElement
<1> QED BY <1>1, <1>2

\* Orders that are filled or cancelled.
LEMMA FewerOrders ==
  ASSUME BookOK, EntriesOK, amt' \in Int, live' \subseteq live
  PROVE  BookOK' /\ EntriesOK'
BY FS_Subset DEF BookOK, EntriesOK

\* An order that is placed.
LEMMA OneMore ==
  ASSUME BookOK, NEW o \in Orders
  PROVE  live \cup {o} \subseteq Orders /\ IsFiniteSet(live \cup {o})
BY FS_AddElement DEF BookOK

\* There is a client id that no order has, and the loop has not noted.
LEMMA NewOrderIdIsNew ==
  ASSUME AutopilotTypeOK, Room
  PROVE  /\ NewOrderId \in 1..MaxOrders
         /\ NewOrderId # pending.id /\ NewOrderId # cycle.id
         /\ \A o \in live : o.id # NewOrderId
<1> DEFINE ids == {o.id : o \in live}
           known == ids \cup {pending.id, cycle.id}
<1>1. /\ live \subseteq Orders /\ IsFiniteSet(live) /\ Cardinality(live) \in Nat
      /\ MaxOrders \in Nat
  BY LegacyAssumption, FS_CardinalityType DEF AutopilotTypeOK, BookOK
<1>2. IsFiniteSet(ids) /\ Cardinality(ids) <= Cardinality(live) /\ Cardinality(ids) \in Nat
  <2> DEFINE f == [o \in live |-> o.id]
  <2>1. ids = {f[o] : o \in live} /\ live = DOMAIN f
    OBVIOUS
  <2>2. IsFiniteSet({f[o] : o \in live}) /\ Cardinality({f[o] : o \in live}) <= Cardinality(live)
    <3> HIDE DEF f
    <3> QED BY <1>1, <2>1, ImageIsFinite
  <2> HIDE DEF f, ids
  <2> QED BY <2>1, <2>2, FS_CardinalityType
<1>3. IsFiniteSet(known) /\ Cardinality(known) <= Cardinality(ids) + 2 /\ Cardinality(known) \in Nat
  <2> HIDE DEF ids
  <2>1. /\ IsFiniteSet(ids \cup {pending.id})
        /\ Cardinality(ids \cup {pending.id}) <= Cardinality(ids) + 1
        /\ Cardinality(ids \cup {pending.id}) \in Nat
    BY <1>2, OneMoreElement
  <2>2. known = (ids \cup {pending.id}) \cup {cycle.id}
    OBVIOUS
  <2> HIDE DEF known
  <2>3. /\ IsFiniteSet(known) /\ Cardinality(known) \in Nat
        /\ Cardinality(known) <= Cardinality(ids \cup {pending.id}) + 1
    BY <2>1, <2>2, OneMoreElement
  <2> QED BY <1>2, <2>1, <2>3
<1>4. \E i \in 1..MaxOrders : i \notin known
  <2> SUFFICES ASSUME 1..MaxOrders \subseteq known PROVE FALSE
    OBVIOUS
  <2>1. Cardinality(1..MaxOrders) = MaxOrders
    BY <1>1, FS_Interval
  <2> HIDE DEF known
  <2>2. MaxOrders <= Cardinality(known)
    <3>1. Cardinality(1..MaxOrders) <= Cardinality(known)
      BY <1>3, FS_Subset
    <3> QED BY <2>1, <3>1
  <2> QED BY <1>1, <1>2, <1>3, <2>2 DEF Room
<1>5. NewOrderId \in 1..MaxOrders /\ NewOrderId \notin known
  BY <1>4 DEF NewOrderId
<1> QED BY <1>5

\* The cycle and the book stay well formed: one entry order by id.
LEMMA AutopilotTypeStep ==
  AutopilotTypeOK /\ [AutopilotNext]_autopilotVars => AutopilotTypeOK'
<1> SUFFICES ASSUME AutopilotTypeOK, [AutopilotNext]_autopilotVars PROVE AutopilotTypeOK'
  OBVIOUS
<1> USE DEF unchangedControl, unchangedBooks, exchangeVars, Sleeps, CycleLocals
<1>0. /\ BookOK /\ EntriesOK /\ amt \in Int
      /\ step \in Steps /\ pending \in [id : 0..MaxOrders, side : {-1, 1}]
      /\ cycle \in CycleLocals
      /\ counted \in Int /\ since \in Int /\ cooling \in BOOLEAN /\ seen \in BOOLEAN
      /\ MaxOrders \in Nat /\ NoPending \in [id : 0..MaxOrders, side : {-1, 1}]
      /\ NoCycle \in CycleLocals
  BY LegacyAssumption DEF AutopilotTypeOK, BookOK, NoPending, NoCycle
<1> DEFINE BooksOK == counted' \in Int /\ since' \in Int /\ cooling' \in BOOLEAN /\ seen' \in BOOLEAN
           MarketOK == BookOK' /\ EntriesOK'
           LocalsOK == /\ step' \in Steps /\ pending' \in [id : 0..MaxOrders, side : {-1, 1}]
                       /\ cycle' \in CycleLocals
<1>a. UNCHANGED <<amt, live>> => MarketOK
  BY <1>0, FewerOrders
<1>b. amt' \in Int /\ live' \subseteq live => MarketOK
  BY <1>0, FewerOrders
<1>c. UNCHANGED unchangedBooks => BooksOK
  BY <1>0
<1>d. EntriesCancelled => live' \subseteq live
  BY DEF EntriesCancelled, Protective
<1>e. MarketOK /\ LocalsOK /\ BooksOK => AutopilotTypeOK'
  BY DEF AutopilotTypeOK
<1>1. CASE StartAutopilot
  <2>1. LocalsOK
    <3>1. PICK b \in BOOLEAN : cycle' = [cycle EXCEPT !.restarted = b]
      BY <1>1 DEF StartAutopilot
    <3>2. step' \in Steps /\ pending' = pending
      BY <1>0, <1>1 DEF StartAutopilot, Steps
    <3>3. cycle' \in CycleLocals
      BY <1>0, <3>1
    <3> QED BY <1>0, <3>2, <3>3
  <2>2. BooksOK
    <3>1. cooling' = FALSE /\ seen' = FALSE
      BY <1>1 DEF StartAutopilot
    <3>2. counted' \in {counted, 0} /\ since' = since
      BY <1>1 DEF StartAutopilot
    <3>3. counted' \in Int /\ since' \in Int
      BY <1>0, <3>2
    <3>4. cooling' \in BOOLEAN /\ seen' \in BOOLEAN
      BY <3>1
    <3> QED BY <3>3, <3>4
  <2> QED BY <1>1, <1>a, <1>e, <2>1, <2>2 DEF StartAutopilot
<1>2. CASE StopAutopilot
  <2>1. LocalsOK
    BY <1>0, <1>2 DEF StopAutopilot
  <2>2. amt' = amt /\ live' \subseteq live
    BY <1>2, <1>d DEF StopAutopilot
  <2> QED BY <1>0, <1>2, <1>b, <1>c, <1>e, <2>1, <2>2 DEF StopAutopilot
<1>3. CASE Boot \/ Wake \/ CooldownOver \/ NothingPending \/ PendingOpen \/ CycleSkipped
           \/ LimitReached \/ Signal \/ EntryUnfunded \/ EntryRefused
  <2>1. LocalsOK
    <3>1. step' \in Steps
      BY <1>0, <1>3 DEF Boot, Wake, CooldownOver, NothingPending, PendingOpen, CycleSkipped,
                        LimitReached, Signal, EntryUnfunded, EntryRefused, Steps
    <3>2. pending' = pending
      BY <1>3 DEF Boot, Wake, CooldownOver, NothingPending, PendingOpen, CycleSkipped,
                  LimitReached, Signal, EntryUnfunded, EntryRefused
    <3>3. \/ cycle' = cycle \/ cycle' = NoCycle
          \/ cycle' = [cycle EXCEPT !.side = pending.side, !.id = pending.id]
          \/ \E side \in {-1, 1} : cycle' = [cycle EXCEPT !.side = side]
      BY <1>3 DEF Boot, Wake, CooldownOver, NothingPending, PendingOpen, CycleSkipped,
                  LimitReached, Signal, EntryUnfunded, EntryRefused
    <3>4. pending.id \in 0..MaxOrders /\ pending.side \in {-1, 1}
      BY <1>0
    <3>5. cycle' \in CycleLocals
      BY <1>0, <3>3, <3>4
    <3> QED BY <1>0, <3>1, <3>2, <3>5
  <2>2. BooksOK /\ UNCHANGED <<amt, live>>
    BY <1>0, <1>3 DEF Boot, Wake, CooldownOver, NothingPending, PendingOpen, CycleSkipped,
                      LimitReached, Signal, EntryUnfunded, EntryRefused
  <2> QED BY <1>a, <1>e, <2>1, <2>2
<1>4. ASSUME NEW o \in live, ExitFires(o) PROVE AutopilotTypeOK'
  <2>1. LocalsOK /\ BooksOK
    BY <1>0, <1>4 DEF ExitFires
  <2>2. amt' \in Int /\ live' \subseteq live
    BY <1>0, <1>4, FiredKeepsSide DEF ExitFires, BookOK
  <2> QED BY <1>b, <1>e, <2>1, <2>2
<1>5. ASSUME NEW o \in live, NEW qty \in 1..Full, EntryFills(o, qty) PROVE AutopilotTypeOK'
  <2> DEFINE rest == [o EXCEPT !.qty = o.qty - qty]
  <2>1. LocalsOK /\ BooksOK
    BY <1>0, <1>5 DEF EntryFills
  <2>2. o \in Orders /\ o.kind = "entry" /\ qty \in 1..o.qty
    BY <1>0, <1>5 DEF EntryFills, BookOK
  <2>3. amt' \in Int
    <3>1. amt' = Bought(o.side, qty) /\ o.side \in {-1, 0, 1} /\ qty \in Nat
      BY <1>5, <2>2 DEF EntryFills, Orders
    <3> QED BY <1>0, <3>1, MarketOrders
  <2>4. rest \in Orders /\ rest.id = o.id /\ rest.qty <= o.qty
    BY <2>2 DEF Orders
  <2>5. live' = live \ {o} \/ live' = (live \ {o}) \cup {rest}
    BY <1>5 DEF EntryFills
  <2>6. BookOK'
    <3>1. IsFiniteSet(live \ {o})
      BY <1>0, FS_Subset DEF BookOK
    <3>2. IsFiniteSet((live \ {o}) \cup {rest})
      BY <3>1, FS_AddElement
    <3> HIDE DEF rest
    <3> QED BY <1>0, <2>3, <2>4, <2>5, <3>1, <3>2 DEF BookOK
  <2>7. EntriesOK'
    <3>1. \A p \in live \ {o} : p.kind = "entry" => p.id # o.id
      BY <1>0, <2>2 DEF EntriesOK
    <3>2. rest.qty <= Full
      <4>1. o.qty <= Full /\ Full \in Nat /\ o.qty \in Nat /\ rest.qty \in Nat
        BY <1>0, <2>2, <2>4, LegacyAssumption DEF EntriesOK, Orders
      <4> QED BY <2>4, <4>1
    <3> HIDE DEF rest
    <3> QED BY <1>0, <2>4, <2>5, <3>1, <3>2 DEF EntriesOK
  <2> QED BY <1>e, <2>1, <2>6, <2>7
<1>6. CASE PendingExpired
  <2>1. LocalsOK
    BY <1>0, <1>6 DEF PendingExpired, Steps
  <2>2. amt' = amt /\ live' \subseteq live
    BY <1>6, <1>d DEF PendingExpired
  <2> QED BY <1>0, <1>6, <1>b, <1>c, <1>e, <2>1, <2>2 DEF PendingExpired
<1>7. CASE PendingGone \/ FlipReads
  <2>1. LocalsOK
    BY <1>0, <1>7 DEF PendingGone, FlipReads, Steps
  <2>2. UNCHANGED <<amt, live>> /\ BooksOK
    BY <1>0, <1>7 DEF PendingGone, FlipReads
  <2> QED BY <1>a, <1>e, <2>1, <2>2
<1>8. CASE CycleReads
  <2>1. LocalsOK
    <3>1. PICK n \in {amt, 0} : cycle' = [NoCycle EXCEPT !.held = n, !.restarted = cycle.restarted]
      BY <1>8 DEF CycleReads
    <3>2. cycle.restarted \in BOOLEAN /\ n \in Int
      BY <1>0 DEF CycleLocals
    <3>3. cycle' \in CycleLocals
      <4>1. \A b \in BOOLEAN :
              [NoCycle EXCEPT !.held = n, !.restarted = b] \in CycleLocals
        BY <1>0, <3>2
      <4> QED BY <3>1, <3>2, <4>1
    <3> QED BY <1>0, <1>8, <3>3 DEF CycleReads, Steps
  <2>2. BooksOK
    BY <1>0, <1>8 DEF CycleReads
  <2> QED BY <1>8, <1>a, <1>e, <2>1, <2>2 DEF CycleReads
<1>9. CASE DetectExit
  <2>1. LocalsOK
    BY <1>0, <1>9 DEF DetectExit, Steps
  <2>2. BooksOK
    BY <1>0, <1>9, AutopilotAssumption DEF DetectExit
  <2> QED BY <1>9, <1>a, <1>e, <2>1, <2>2 DEF DetectExit
<1>10. CASE Decide
  <2>1. LocalsOK
    BY <1>0, <1>10 DEF Decide, Steps
  <2>2. amt' = amt /\ live' \subseteq live
    BY <1>10, <1>d DEF Decide
  <2> QED BY <1>0, <1>10, <1>b, <1>c, <1>e, <2>1, <2>2 DEF Decide
<1>11. CASE FlipCancelsOpen \/ FlipCancelsAlgo \/ EntryCancelsAlgo
  <2>1. LocalsOK
    BY <1>0, <1>11 DEF FlipCancelsOpen, FlipCancelsAlgo, EntryCancelsAlgo, Steps
  <2>2. amt' = amt /\ live' \subseteq live
    BY <1>11, <1>d DEF FlipCancelsOpen, FlipCancelsAlgo, EntryCancelsAlgo
  <2> QED BY <1>0, <1>11, <1>b, <1>c, <1>e, <2>1, <2>2
          DEF FlipCancelsOpen, FlipCancelsAlgo, EntryCancelsAlgo
<1>12. CASE FlipCloses
  <2>1. LocalsOK /\ BooksOK
    BY <1>0, <1>12 DEF FlipCloses, Steps
  <2>2. amt' \in Int /\ live' = live
    <3>1. -Sign(cycle.held) \in {-1, 0, 1} /\ Size(cycle.held) \in Nat
      BY <1>0, SignedSizes
    <3>2. amt' = Reduced(-Sign(cycle.held), Size(cycle.held)) \/ amt' = amt
      BY <1>12 DEF FlipCloses
    <3> QED BY <1>0, <1>12, <3>1, <3>2, MarketOrders DEF FlipCloses
  <2> QED BY <1>b, <1>e, <2>1, <2>2
<1>13. CASE PlaceLimit
  <2> DEFINE o == [kind |-> "entry", id |-> NewOrderId, side |-> cycle.side, qty |-> Full]
  <2>1. NewOrderId \in 1..MaxOrders /\ \A p \in live : p.id # NewOrderId
    BY <1>13, NewOrderIdIsNew DEF PlaceLimit
  <2>2. LocalsOK
    BY <1>0, <1>13, <2>1 DEF PlaceLimit, Steps
  <2>3. o \in Orders /\ o.qty <= Full /\ o.id = NewOrderId
    BY <1>0, <2>1, LegacyAssumption DEF Orders, Kinds
  <2>4. live' = live \cup {o} /\ amt' = amt
    BY <1>13 DEF PlaceLimit
  <2> HIDE DEF o
  <2>5. MarketOK
    BY <1>0, <2>1, <2>3, <2>4, OneMore DEF BookOK, EntriesOK
  <2> QED BY <1>13, <1>c, <1>e, <2>2, <2>5 DEF PlaceLimit
<1>14. CASE LimitPlaced
  <2>1. LocalsOK
    BY <1>0, <1>14 DEF LimitPlaced, Steps
  <2> QED BY <1>14, <1>a, <1>c, <1>e, <2>1 DEF LimitPlaced
<1>15. CASE PlaceMarket
  <2>1. LocalsOK
    BY <1>0, <1>15 DEF PlaceMarket, Steps
  <2>2. amt' \in Int /\ live' = live
    BY <1>0, <1>15, LegacyAssumption, MarketOrders DEF PlaceMarket
  <2> QED BY <1>15, <1>b, <1>c, <1>e, <2>1, <2>2 DEF PlaceMarket
<1>16. CASE SetSlTp
  <2> DEFINE sl == [kind |-> "sl", id |-> NewOrderId, side |-> cycle.side, qty |-> 0]
             tp == [sl EXCEPT !.kind = "tp2"]
  <2>1. NewOrderId \in 1..MaxOrders
    BY <1>16, NewOrderIdIsNew DEF SetSlTp
  <2>2. LocalsOK /\ BooksOK
    BY <1>0, <1>16 DEF SetSlTp, Steps
  <2>3. sl \in Orders /\ tp \in Orders /\ sl.kind # "entry" /\ tp.kind # "entry"
    BY <1>0, <2>1 DEF Orders, Kinds
  <2>4. PICK placed \in SUBSET {sl, tp} : live' = live \cup placed
    BY <1>16 DEF SetSlTp
  <2>5. amt' = amt
    BY <1>16 DEF SetSlTp
  <2> HIDE DEF sl, tp
  <2>6. IsFiniteSet(live \cup placed)
    <3>1. IsFiniteSet(live \cup {sl}) /\ IsFiniteSet((live \cup {sl}) \cup {tp})
      BY <1>0, FS_AddElement DEF BookOK
    <3>2. live \cup placed \subseteq (live \cup {sl}) \cup {tp}
      OBVIOUS
    <3> QED BY <3>1, <3>2, FS_Subset
  <2>7. MarketOK
    BY <1>0, <2>3, <2>4, <2>5, <2>6 DEF BookOK, EntriesOK
  <2> QED BY <1>e, <2>2, <2>7
<1>17. CASE UNCHANGED autopilotVars
  BY <1>0, <1>17, <1>a, <1>c, <1>e DEF autopilotVars
<1> QED
  BY <1>1, <1>2, <1>3, <1>4, <1>5, <1>6, <1>7, <1>8, <1>9, <1>10, <1>11, <1>12, <1>13, <1>14,
     <1>15, <1>16, <1>17 DEF AutopilotNext

\* The id of the order under way is noted where the loop needs it.
LEMMA NotedStep ==
  AutopilotTypeOK /\ NotedOK /\ [AutopilotNext]_autopilotVars => NotedOK'
<1> SUFFICES ASSUME AutopilotTypeOK, NotedOK, [AutopilotNext]_autopilotVars PROVE NotedOK'
  OBVIOUS
<1> USE DEF unchangedControl, unchangedBooks, exchangeVars, Sleeps
<1>0. /\ NotedOK /\ NoPending.id = 0
      /\ pending \in [id : 0..MaxOrders, side : {-1, 1}] /\ cycle \in CycleLocals
      /\ MaxOrders \in Nat
  BY LegacyAssumption DEF AutopilotTypeOK, NoPending
<1>1. CASE StartAutopilot
  <2>1. PICK b : cycle' = [cycle EXCEPT !.restarted = b]
    BY <1>1 DEF StartAutopilot
  <2>2. cycle'.id = cycle.id
    BY <1>0, <2>1 DEF CycleLocals
  <2>3. pending' = pending /\ entryType' = entryType /\ step' \in {"boot", step}
    BY <1>1 DEF StartAutopilot
  <2> QED BY <1>0, <2>2, <2>3 DEF NotedOK
<1>2. CASE StopAutopilot
  BY <1>0, <1>2 DEF StopAutopilot, NotedOK
<1>3. CASE \/ Boot \/ Wake \/ NothingPending \/ CycleSkipped \/ LimitReached \/ CycleReads
           \/ DetectExit \/ Signal \/ Decide \/ FlipReads \/ FlipCancelsOpen \/ FlipCancelsAlgo
           \/ FlipCloses \/ EntryUnfunded \/ EntryRefused \/ LimitPlaced \/ PlaceMarket \/ SetSlTp
           \/ PendingExpired
  <2>1. step' \notin {"placed", "place", "expired", "gone", "protectPending"}
    BY <1>3 DEF Boot, Wake, NothingPending, CycleSkipped, LimitReached, CycleReads, DetectExit,
                Signal, Decide, FlipReads, FlipCancelsOpen, FlipCancelsAlgo, FlipCloses,
                EntryUnfunded, EntryRefused, LimitPlaced, PlaceMarket, SetSlTp, PendingExpired
  <2> QED BY <2>1 DEF NotedOK
<1>4. CASE CooldownOver \/ \E o \in live : ExitFires(o) \/ \E qty \in 1..Full : EntryFills(o, qty)
  <2>1. UNCHANGED <<step, pending, cycle, entryType>>
    BY <1>4 DEF CooldownOver, ExitFires, EntryFills
  <2> QED BY <1>0, <2>1 DEF NotedOK
<1>5. CASE PendingOpen
  <2>1. cycle'.id = pending.id
    BY <1>0, <1>5 DEF PendingOpen, CycleLocals
  <2>2. pending' = pending /\ step' \in {"cycle", "expired", "gone"}
    BY <1>5 DEF PendingOpen
  <2> QED BY <2>1, <2>2 DEF NotedOK
<1>6. CASE PendingGone
  <2>1. \/ step' = "protectPending" /\ step = "gone" /\ UNCHANGED <<pending, cycle>>
        \/ step' = "cycle"
    BY <1>6 DEF PendingGone
  <2> QED BY <1>0, <2>1 DEF NotedOK
<1>7. CASE EntryCancelsAlgo
  BY <1>0, <1>7 DEF EntryCancelsAlgo, NotedOK
<1>8. CASE PlaceLimit
  <2>1. NewOrderId \in 1..MaxOrders
    BY <1>8, NewOrderIdIsNew DEF PlaceLimit
  <2>2. \/ step' = "placed" /\ cycle' = [cycle EXCEPT !.id = NewOrderId]
        \/ step' = "asleep"
    BY <1>8 DEF PlaceLimit
  <2>3. cycle' = [cycle EXCEPT !.id = NewOrderId] => cycle'.id # 0
    BY <1>0, <2>1 DEF CycleLocals
  <2>4. pending' = pending /\ pending.id = 0
    BY <1>0, <1>8 DEF PlaceLimit, NotedOK
  <2> QED BY <2>2, <2>3, <2>4 DEF NotedOK
<1>9. CASE UNCHANGED autopilotVars
  BY <1>0, <1>9 DEF autopilotVars, NotedOK
<1> QED
  BY <1>1, <1>2, <1>3, <1>4, <1>5, <1>6, <1>7, <1>8, <1>9 DEF AutopilotNext

\* A step that only takes entry orders from the book.
LEMMA NakedBefore ==
  ASSUME amt' = amt, \A o \in live : o.kind = "sl" => o \in live', gaps \subseteq gaps', Naked'
  PROVE  Naked
BY DEF Naked, Protected

\* The order that is dropped without a gap is whole, and gone.
LEMMA DroppedWhole ==
  ASSUME NEW order, Dropped(order, live') = {}
  PROVE  order.id = 0 \/ Whole(order.id)
BY DEF Dropped, Whole

\* A position that loses its stop is that of an order the loop looks after, or
\* has a cause.
LEMMA NakedIsKnownStep ==
  AutopilotTypeOK /\ NotedOK /\ NakedIsKnown /\ [AutopilotNext]_autopilotVars => NakedIsKnown'
<1> SUFFICES ASSUME AutopilotTypeOK, NotedOK, NakedIsKnown, [AutopilotNext]_autopilotVars, Naked'
             PROVE  NakedIsKnown'
  BY DEF NakedIsKnown
<1> USE DEF unchangedControl, unchangedBooks, exchangeVars, Sleeps
<1>0. /\ BookOK /\ EntriesOK /\ NoPending.id = 0
      /\ pending \in [id : 0..MaxOrders, side : {-1, 1}] /\ cycle \in CycleLocals
      /\ MaxOrders \in Nat /\ amt \in Int
  BY LegacyAssumption DEF AutopilotTypeOK, NoPending, BookOK
<1>a. EntriesCancelled => live' \subseteq live /\ \A o \in live : o.kind = "sl" => o \in live'
  BY DEF EntriesCancelled, Protective
<1>b. ASSUME live' \subseteq live, NEW i, ~Whole(i)
      PROVE  ~Whole(i)'
  BY <1>b DEF Whole, OurEntry
<1>c. ASSUME UNCHANGED <<amt, live, gaps, pending>>, step \notin {"placed", "protect", "protectPending"}
      PROVE  NakedIsKnown'
  <2>1. Naked /\ pending.id # 0 /\ ~Whole(pending.id)
    BY <1>c DEF Naked, Protected, NakedIsKnown
  <2> QED BY <1>b, <1>c, <2>1 DEF NakedIsKnown
<1>1. CASE StartAutopilot
  <2>1. PICK b : cycle' = [cycle EXCEPT !.restarted = b]
    BY <1>1 DEF StartAutopilot
  <2>2. cycle'.id = cycle.id
    BY <1>0, <2>1 DEF CycleLocals
  <2>3. UNCHANGED <<amt, live, gaps, pending>> /\ (step' = step \/ step = "off")
    BY <1>1 DEF StartAutopilot
  <2>4. CASE step' = step
    <3>1. Naked
      BY <2>3 DEF Naked, Protected
    <3> QED BY <1>b, <2>2, <2>3, <2>4, <3>1 DEF NakedIsKnown
  <2> QED BY <1>c, <2>3, <2>4
<1>2. CASE StopAutopilot
  <2>1. /\ amt' = amt /\ step' = step /\ cycle' = cycle
        /\ live' \subseteq live /\ \A o \in live : o.kind = "sl" => o \in live'
        /\ gaps \subseteq gaps' /\ Dropped(pending, live') \subseteq gaps'
    BY <1>2, <1>a DEF StopAutopilot
  <2>2. Naked
    BY <2>1, NakedBefore
  <2>3. Dropped(pending, live') = {}
    BY <2>1 DEF Naked
  <2>4. pending.id = 0 \/ Whole(pending.id)
    BY <2>3, DroppedWhole
  <2> QED BY <1>b, <2>1, <2>2, <2>4 DEF NakedIsKnown
<1>3. CASE Boot \/ Wake \/ CooldownOver \/ NothingPending \/ PendingOpen \/ CycleSkipped
           \/ LimitReached \/ CycleReads \/ DetectExit \/ Signal \/ EntryUnfunded \/ EntryRefused
  <2>1. /\ UNCHANGED <<amt, live, gaps, pending>>
        /\ step \notin {"placed", "protect", "protectPending"}
    BY <1>3 DEF Boot, Wake, CooldownOver, NothingPending, PendingOpen, CycleSkipped, LimitReached,
                CycleReads, DetectExit, Signal, EntryUnfunded, EntryRefused, Waits
  <2> QED BY <1>c, <2>1
<1>4. ASSUME NEW o \in live, ExitFires(o) PROVE NakedIsKnown'
  <2>1. UNCHANGED <<step, pending, cycle>> /\ Fires(o)
    BY <1>4 DEF ExitFires
  <2>2. /\ amt' # 0 /\ live' \subseteq live
        /\ amt # 0 /\ Sign(amt') = Sign(amt) /\ gaps = {}
        /\ \A p \in live : p.kind = "sl" => p \in live'
    BY <1>0, <2>1, FiredKeepsSide DEF Naked, BookOK
  <2>3. Naked
    BY <2>2, StopsKept DEF Naked
  <2> QED BY <1>b, <2>1, <2>2, <2>3 DEF NakedIsKnown
<1>5. ASSUME NEW o \in live, NEW qty \in 1..Full, EntryFills(o, qty) PROVE NakedIsKnown'
  <2> DEFINE rest == [o EXCEPT !.qty = o.qty - qty]
  <2>1. /\ UNCHANGED <<step, pending, cycle>> /\ o.kind = "entry"
        /\ o.id = pending.id \/ (step = "placed" /\ o.id = cycle.id)
    BY <1>5 DEF EntryFills, Naked
  <2>2. o.id \in 1..MaxOrders /\ o.qty \in Nat /\ o.qty <= Full /\ qty \in 1..o.qty /\ o \in Orders
    BY <1>0, <1>5 DEF EntryFills, BookOK, EntriesOK, Orders
  <2>3. live' = live \ {o} \/ live' = (live \ {o}) \cup {rest}
    BY <1>5 DEF EntryFills
  <2>4. \A p \in live \ {o} : p.kind = "entry" => p.id # o.id
    BY <1>0, <2>1 DEF EntriesOK
  <2>5. rest.qty # Full
    <3>1. rest.qty = o.qty - qty
      BY <2>2 DEF Orders
    <3>2. Full \in Nat
      BY LegacyAssumption
    <3> HIDE DEF rest
    <3> QED BY <2>2, <3>1, <3>2
  <2> HIDE DEF rest
  <2>6. ~Whole(o.id)'
    BY <2>3, <2>4, <2>5 DEF Whole, OurEntry
  <2> QED BY <2>1, <2>2, <2>6 DEF NakedIsKnown
<1>6. CASE PendingExpired
  <2> DEFINE order == [pending EXCEPT !.id = cycle.id]
  <2>1. /\ amt' = amt /\ step = "expired"
        /\ live' \subseteq live /\ \A o \in live : o.kind = "sl" => o \in live'
        /\ gaps \subseteq gaps' /\ Dropped(order, live') \subseteq gaps'
    BY <1>6, <1>a DEF PendingExpired
  <2>2. Naked
    BY <2>1, NakedBefore
  <2>3. Dropped(order, live') = {}
    BY <2>1 DEF Naked
  <2>4. order.id = cycle.id
    BY <1>0
  <2>5. cycle.id = 0 \/ Whole(cycle.id)
    <3> HIDE DEF order
    <3> QED BY <2>3, <2>4, DroppedWhole
  <2> QED BY <2>1, <2>2, <2>5 DEF NakedIsKnown, NotedOK
<1>7. CASE PendingGone
  <2>1. \/ step' = "protectPending"
        \/ amt' = 0
        \/ gaps' = gaps \cup {"unread"}
    BY <1>7 DEF PendingGone
  <2> QED BY <2>1 DEF NakedIsKnown, Naked
<1>8. CASE Decide
  <2>1. step = "decide" /\ amt' = amt
    BY <1>8 DEF Decide
  <2>2. CASE UNCHANGED <<live, gaps, pending>>
    BY <1>c, <2>1, <2>2
  <2>3. CASE EntriesCancelled /\ gaps' = gaps \cup Dropped(pending, live')
    <3>1. Naked
      BY <1>a, <2>1, <2>3, NakedBefore
    <3>2. Dropped(pending, live') = {}
      BY <2>3 DEF Naked
    <3>3. pending.id = 0 \/ Whole(pending.id)
      BY <3>2, DroppedWhole
    <3> QED BY <2>1, <3>1, <3>3 DEF NakedIsKnown
  <2> QED BY <1>8, <2>2, <2>3 DEF Decide
<1>9. CASE FlipReads
  <2>1. step = "flip" /\ UNCHANGED <<amt, live>>
    BY <1>9 DEF FlipReads
  <2>2. CASE UNCHANGED <<pending, gaps>>
    BY <1>c, <2>1, <2>2
  <2>3. CASE gaps' = gaps \cup Dropped(pending, live)
    <3>1. Naked
      BY <2>1, <2>3, NakedBefore
    <3>2. Dropped(pending, live') = {}
      BY <2>1, <2>3 DEF Naked
    <3>3. pending.id = 0 \/ Whole(pending.id)
      BY <3>2, DroppedWhole
    <3> QED BY <2>1, <3>1, <3>3 DEF NakedIsKnown
  <2> QED BY <1>9, <2>2, <2>3 DEF FlipReads
<1>10. CASE FlipCancelsOpen
  <2>1. /\ UNCHANGED <<amt, gaps, pending>> /\ step = "flipOpen"
        /\ live' \subseteq live /\ \A o \in live : o.kind = "sl" => o \in live'
    BY <1>10, <1>a DEF FlipCancelsOpen
  <2>2. Naked
    BY <2>1, NakedBefore
  <2> QED BY <1>b, <2>1, <2>2 DEF NakedIsKnown
<1>11. CASE FlipCancelsAlgo
  <2>1. UNCHANGED <<amt, live, gaps, pending>> /\ step = "flipAlgo"
    BY <1>11 DEF FlipCancelsAlgo, Naked
  <2> QED BY <1>c, <2>1
<1>12. CASE FlipCloses
  <2> DEFINE side == -Sign(cycle.held)
  <2>1. step = "flipClose" /\ UNCHANGED <<live, pending>>
    BY <1>12 DEF FlipCloses
  <2>2. CASE UNCHANGED <<amt, gaps>>
    BY <1>c, <2>1, <2>2
  <2>3. CASE Reduces(side) /\ amt' = Reduced(side, Size(cycle.held)) /\ gaps' = IF amt' = 0 THEN {} ELSE gaps
    <3>1. side \in {-1, 0, 1} /\ Size(cycle.held) \in Nat
      <4>1. cycle.held \in Int
        BY <1>0 DEF CycleLocals
      <4> QED BY <4>1, SignedSizes
    <3>2. amt' \in Int /\ amt' # 0 /\ Sign(amt') = Sign(amt) /\ gaps' = gaps
      <4> HIDE DEF side
      <4> QED BY <1>0, <2>3, <3>1, MarketOrders DEF Naked
    <3>3. amt # 0
      BY <1>0, <3>2, SignedSizes
    <3>4. Naked
      BY <2>1, <3>2, <3>3, StopsKept DEF Naked
    <3> QED BY <1>b, <2>1, <3>4 DEF NakedIsKnown
  <2> QED BY <1>12, <2>2, <2>3 DEF FlipCloses
<1>13. CASE EntryCancelsAlgo
  <2>1. amt' # 0 /\ amt' = amt /\ gaps' = IF amt # 0 THEN gaps \cup {"uncovered"} ELSE gaps
    BY <1>13 DEF EntryCancelsAlgo, Naked
  <2> QED BY <2>1 DEF Naked
<1>14. CASE PlaceLimit
  <2>1. /\ amt' = amt /\ step = "place" /\ entryType = "limit"
        /\ live \subseteq live' /\ gaps \subseteq gaps'
    BY <1>14 DEF PlaceLimit
  <2>2. Naked
    BY <2>1, NakedBefore
  <2> QED BY <2>1, <2>2 DEF NakedIsKnown, NotedOK
<1>15. CASE LimitPlaced
  <2>1. step = "placed" /\ UNCHANGED <<amt, live, gaps, cycle>> /\ cycle.id # 0 /\ pending.id = 0
    BY <1>15 DEF LimitPlaced, NotedOK
  <2>2. Naked
    BY <2>1, NakedBefore
  <2>3. ~Whole(cycle.id)'
    BY <1>b, <2>1, <2>2 DEF NakedIsKnown
  <2>4. step' = "protect" \/ pending' = [id |-> cycle.id, side |-> cycle.side]
    BY <1>15 DEF LimitPlaced
  <2>5. pending' = [id |-> cycle.id, side |-> cycle.side] => pending'.id = cycle.id
    OBVIOUS
  <2> QED BY <2>1, <2>3, <2>4, <2>5 DEF NakedIsKnown
<1>16. CASE PlaceMarket
  <2>1. step' = "protect" \/ gaps' = gaps \cup {"lost"}
    BY <1>16 DEF PlaceMarket
  <2> QED BY <2>1 DEF NakedIsKnown, Naked
<1>17. CASE SetSlTp
  <2> DEFINE sl == [kind |-> "sl", id |-> NewOrderId, side |-> cycle.side, qty |-> 0]
  <2>1. PICK placed :
          /\ live' = live \cup placed
          /\ \/ sl \in placed /\ Sign(amt) = cycle.side
             \/ amt = 0
             \/ \E cause : gaps' = gaps \cup {cause}
    BY <1>17 DEF SetSlTp
  <2>2. amt' = amt
    BY <1>17 DEF SetSlTp
  <2>3. sl.kind = "sl" /\ sl.side = cycle.side
    OBVIOUS
  <2> HIDE DEF sl
  <2> QED BY <2>1, <2>2, <2>3 DEF Naked, Protected
<1>18. CASE UNCHANGED autopilotVars
  <2>1. UNCHANGED <<amt, live, gaps, pending, step, cycle>>
    BY <1>18 DEF autopilotVars
  <2> QED BY <2>1 DEF NakedIsKnown, Naked, Protected, Whole, OurEntry
<1> QED
  BY <1>1, <1>2, <1>3, <1>4, <1>5, <1>6, <1>7, <1>8, <1>9, <1>10, <1>11, <1>12, <1>13, <1>14,
     <1>15, <1>16, <1>17, <1>18 DEF AutopilotNext

\* The limit of the day holds from its check to the order.
LEMMA LimitStep ==
  ASSUME Cooldown
  PROVE  AutopilotTypeOK /\ LimitChecked /\ [AutopilotNext]_autopilotVars => LimitChecked'
<1> SUFFICES ASSUME AutopilotTypeOK, LimitChecked, [AutopilotNext]_autopilotVars
             PROVE  LimitChecked'
  OBVIOUS
<1> USE DEF unchangedControl, unchangedBooks, exchangeVars, Sleeps
<1>0. cycle \in CycleLocals /\ counted \in Int /\ DailyLimit \in Nat \ {0} /\ NoCycle \in CycleLocals
  BY AutopilotAssumption, LegacyAssumption DEF AutopilotTypeOK, NoCycle, CycleLocals
<1> DEFINE checked == {"exit", "flip", "flipOpen", "flipAlgo", "flipClose", "enter", "place"}
<1>a. ASSUME step' \notin checked \cup {"signal", "decide"}
      PROVE  LimitChecked'
  BY <1>a DEF LimitChecked
<1>b. ASSUME UNCHANGED <<counted, cooling>>, cycle'.restarted = cycle.restarted, Within,
             step' \notin {"signal", "decide"}
      PROVE  LimitChecked'
  BY <1>b DEF LimitChecked, Within
<1>1. CASE StartAutopilot
  <2>1. CASE step \in Waits
    BY <1>1, <1>a, <2>1 DEF StartAutopilot, Waits
  <2>2. CASE step \notin Waits
    <3>1. cycle'.restarted
      BY <1>0, <1>1, <2>2 DEF StartAutopilot, CycleLocals
    <3> QED BY <3>1 DEF LimitChecked, Within
  <2> QED BY <2>1, <2>2
<1>2. CASE \/ Boot \/ Wake \/ NothingPending \/ PendingOpen \/ PendingExpired \/ PendingGone
           \/ CycleSkipped \/ LimitReached \/ EntryUnfunded \/ EntryRefused \/ PlaceLimit
           \/ LimitPlaced \/ PlaceMarket \/ SetSlTp
  <2>1. step' \notin checked \cup {"signal", "decide"}
    BY <1>2 DEF Boot, Wake, NothingPending, PendingOpen, PendingExpired, PendingGone, CycleSkipped,
                LimitReached, EntryUnfunded, EntryRefused, PlaceLimit, LimitPlaced, PlaceMarket, SetSlTp
  <2> QED BY <1>a, <2>1
<1>3. CASE CooldownOver
  BY <1>3, <1>a DEF CooldownOver, Waits
<1>4. CASE \/ StopAutopilot \/ UNCHANGED autopilotVars
           \/ \E o \in live : ExitFires(o) \/ \E qty \in 1..Full : EntryFills(o, qty)
  <2>1. UNCHANGED <<step, counted, cooling, cycle>>
    BY <1>4 DEF StopAutopilot, ExitFires, EntryFills, autopilotVars
  <2> QED BY <2>1 DEF LimitChecked, Within
<1>5. CASE CycleReads
  <2>1. counted' > -DailyLimit /\ step' = "exit"
    BY <1>0, <1>5 DEF CycleReads
  <2> QED BY <2>1 DEF LimitChecked, Within
<1>6. CASE DetectExit
  <2>1. step = "exit" /\ step' = "signal" /\ cycle' = cycle /\ Within
    BY <1>6 DEF DetectExit, LimitChecked
  <2>2. CASE seen /\ cycle.held = 0
    <3>1. cooling'
      BY <1>6, <2>2 DEF DetectExit
    <3> QED BY <2>1, <2>2, <3>1 DEF LimitChecked
  <2>3. CASE ~(seen /\ cycle.held = 0)
    <3>1. counted' = counted
      BY <1>6, <2>3 DEF DetectExit
    <3> QED BY <2>1, <3>1 DEF LimitChecked, Within
  <2> QED BY <2>2, <2>3
<1>7. CASE Signal
  <2>1. step = "signal" /\ UNCHANGED <<counted, cooling>>
    BY <1>7 DEF Signal
  <2>2. (Within \/ cooling) /\ (cycle.held # 0 => Within)
    BY <2>1 DEF LimitChecked
  <2>3. CASE step' = "asleep"
    BY <1>a, <2>3
  <2>4. CASE step' # "asleep"
    <3>1. PICK side \in {-1, 1} : cycle' = [cycle EXCEPT !.side = side]
      BY <1>7, <2>4 DEF Signal
    <3>2. cycle'.restarted = cycle.restarted /\ cycle'.held = cycle.held
      BY <1>0, <3>1 DEF CycleLocals
    <3>3. step' \in {"decide", "flip"} /\ (step' = "flip" => cycle.held # 0)
      BY <1>7, <2>4 DEF Signal
    <3> QED BY <2>1, <2>2, <3>2, <3>3 DEF LimitChecked, Within
  <2> QED BY <2>3, <2>4
<1>8. CASE Decide
  <2>1. step = "decide" /\ UNCHANGED <<counted, cooling, cycle>> /\ step' \in {"asleep", "enter"}
        /\ (cooling => step' = "asleep")
    BY <1>8 DEF Decide
  <2> QED BY <2>1 DEF LimitChecked, Within
<1>9. CASE FlipReads \/ FlipCancelsOpen \/ FlipCancelsAlgo \/ FlipCloses \/ EntryCancelsAlgo
  <2>1. /\ step \in checked /\ step' \notin {"signal", "decide"}
        /\ UNCHANGED <<counted, cooling>>
        /\ cycle' = cycle \/ cycle' = [cycle EXCEPT !.held = amt]
    BY <1>9 DEF FlipReads, FlipCancelsOpen, FlipCancelsAlgo, FlipCloses, EntryCancelsAlgo
  <2>2. cycle'.restarted = cycle.restarted
    BY <1>0, <2>1 DEF CycleLocals
  <2> QED BY <1>b, <2>1, <2>2 DEF LimitChecked
<1> QED
  BY <1>1, <1>2, <1>3, <1>4, <1>5, <1>6, <1>7, <1>8, <1>9 DEF AutopilotNext

-----------------------------------------------------------------------------
\* The engine stays what it is, and the state of the autopilot its own.
LEMMA AutopilotSteps ==
  [LegacyNext]_legacyVars =>
    /\ engine' = engine
    /\ IF engine = "autopilot" THEN [AutopilotNext]_autopilotVars ELSE UNCHANGED step
<1> SUFFICES ASSUME [LegacyNext]_legacyVars
             PROVE  /\ engine' = engine
                    /\ IF engine = "autopilot" THEN [AutopilotNext]_autopilotVars ELSE UNCHANGED step
  OBVIOUS
<1>1. CASE RunnerStep
  BY <1>1 DEF RunnerStep, onlyAutopilot
<1>2. CASE AutopilotStep
  BY <1>2 DEF AutopilotStep
<1>3. CASE ModularStep
  BY <1>3 DEF ModularStep, onlyAutopilot
<1>4. CASE PlannerStep
  BY <1>4 DEF PlannerStep, onlyAutopilot
<1>5. CASE UNCHANGED legacyVars
  BY <1>5 DEF legacyVars, autopilotVars
<1> QED BY <1>1, <1>2, <1>3, <1>4, <1>5 DEF LegacyNext

\* Nothing is held, and nothing noted, at the start.
LEMMA AutopilotBegins == LegacyInit => AutopilotInv /\ LimitChecked
<1> SUFFICES ASSUME LegacyInit PROVE AutopilotInv /\ LimitChecked
  OBVIOUS
<1>1. /\ amt = 0 /\ live = {} /\ step = "off" /\ pending = NoPending /\ cycle = NoCycle
      /\ seen = FALSE /\ cooling = FALSE /\ counted = 0 /\ since = 0
  BY DEF LegacyInit, AutopilotInit, ExchangeInit
<1>2. NoPending \in [id : 0..MaxOrders, side : {-1, 1}] /\ NoCycle \in CycleLocals
  BY LegacyAssumption DEF NoPending, NoCycle, CycleLocals
<1>3. BookOK /\ EntriesOK /\ step \in Steps
  BY <1>1, FS_EmptySet DEF BookOK, EntriesOK, Steps
<1>4. AutopilotTypeOK
  <2>1. cooling \in BOOLEAN /\ seen \in BOOLEAN
    BY <1>1
  <2>2. counted \in Int /\ since \in Int
    BY <1>1
  <2> QED BY <1>1, <1>2, <1>3, <2>1, <2>2 DEF AutopilotTypeOK
<1>5. NotedOK /\ NakedIsKnown /\ LimitChecked
  BY <1>1 DEF NotedOK, NakedIsKnown, Naked, LimitChecked
<1> QED BY <1>1, <1>4, <1>5 DEF AutopilotInv

\* A step of another engine leaves the autopilot off.
LEMMA AutopilotInvStep == AutopilotInv /\ [LegacyNext]_legacyVars => AutopilotInv'
<1> SUFFICES ASSUME AutopilotInv, [LegacyNext]_legacyVars PROVE AutopilotInv'
  OBVIOUS
<1>1. CASE engine = "autopilot"
  BY <1>1, AutopilotSteps, AutopilotTypeStep, NotedStep, NakedIsKnownStep DEF AutopilotInv
<1>2. CASE engine # "autopilot"
  BY <1>2, AutopilotSteps DEF AutopilotInv
<1> QED BY <1>1, <1>2

(***************************************************************************)
(* A settled position of the autopilot has a stop, or a cause is noted     *)
(* (_check_pending_limit_orders, _set_sl_tp, the flip), for any position   *)
(* size, entry type and faults. A position without its stop is that of a   *)
(* limit order filled in part which is looked after still, or the loop is  *)
(* on its way to _set_sl_tp.                                               *)
(***************************************************************************)
THEOREM AutopilotProtectsAlways == LegacySpec => []AutopilotProtects
<1>1. LegacyInit => AutopilotInv
  BY AutopilotBegins
<1>2. AutopilotInv /\ [LegacyNext]_legacyVars => AutopilotInv'
  BY AutopilotInvStep
<1>3. AutopilotInv => AutopilotProtects
  BY DEF AutopilotInv, AutopilotProtects, AutopilotSettled, NakedIsKnown, Naked, Waits
<1> QED BY <1>1, <1>2, <1>3, PTL DEF LegacySpec

(***************************************************************************)
(* With a cooldown no entry is sent once the counted loss has reached the  *)
(* limit of the day (run_one_cycle): it is counted after the limit is      *)
(* checked, but only when a position is found closed, which begins the     *)
(* cooldown, and without a position a cycle in the cooldown ends before    *)
(* its order. A restart in between forgets the cooldown, and is excepted.  *)
(***************************************************************************)
THEOREM EntersWithinLimitAlways ==
  ASSUME Cooldown
  PROVE  LegacySpec => EntersWithinLimit
<1> DEFINE Inv == AutopilotInv /\ LimitChecked
<1>1. LegacyInit => Inv
  BY AutopilotBegins
<1>2. Inv /\ [LegacyNext]_legacyVars => Inv'
  <2> SUFFICES ASSUME Inv, [LegacyNext]_legacyVars PROVE LimitChecked'
    BY AutopilotInvStep
  <2>1. CASE engine = "autopilot"
    BY <2>1, AutopilotSteps, LimitStep DEF AutopilotInv
  <2>2. CASE engine # "autopilot"
    BY <2>2, AutopilotSteps DEF AutopilotInv, LimitChecked
  <2> QED BY <2>1, <2>2
<1>3. Inv /\ [LegacyNext]_legacyVars
        => [PlaceLimit \/ PlaceMarket => counted > -DailyLimit \/ cycle.restarted]_legacyVars
  BY DEF LimitChecked, PlaceLimit, PlaceMarket, Within
<1> QED BY <1>1, <1>2, <1>3, PTL DEF LegacySpec, EntersWithinLimit

-----------------------------------------------------------------------------
(***************************************************************************)
(* The runner.                                                             *)
(***************************************************************************)
LoopPlaces == {"off", "head", "exec", "preflight", "stale", "delta", "cancel", "close", "order",
               "pend", "filled", "old", "stop", "return", "attach", "out"}
WsPlaces   == {"idle", "filled", "old", "stop", "return", "breakeven", "raise", "sweep"}

OrderIds == 0..MaxOrders
OrderStates == [pending : OrderIds, sl : OrderIds, tp1 : OrderIds, tp2 : OrderIds, priced : BOOLEAN,
                tp1_done : BOOLEAN, tp2_done : BOOLEAN]
TickLocals  == [target : Int, held : Int, side : {-1, 1}, left : Seq(Nat), reduce : BOOLEAN,
                id : OrderIds, state : Nat, then : {"head", "order"}]
FillLocals  == [side : {-1, 1}, qty : Nat, state : Nat, caller : Nat, id : OrderIds]
Messages    == Seq([id : 1..MaxOrders, qty : Nat])

RunnerTypeOK ==
  /\ amt \in Int /\ live \subseteq Orders
  /\ at \in [Threads -> LoopPlaces \cup WsPlaces]
  /\ mode \in OrderModes
  /\ objects \in [0..MaxStarts[mode] -> OrderStates]
  /\ tick \in TickLocals
  /\ fill \in [Threads -> FillLocals]
  /\ messages \in Messages
  /\ starts \in Nat /\ current \in Nat

\* Whoever holds an OrderState holds the present one or an older one; a start
\* that is to come finds a new one.
StatesOK ==
  /\ current <= starts /\ starts <= MaxStarts[mode] /\ (running => current < starts)
  /\ tick.state <= current
  /\ \A t \in Threads : fill[t].state <= current /\ fill[t].caller <= current
  /\ \A i \in 0..MaxStarts[mode] : i > current => objects[i] = FreshState

\* The slices that are left, where one is taken, and the id of the one sent.
LeftOK ==
  /\ at.loop = "pend" <=> tick.id # 0
  /\ at.loop \in {"order", "pend"} => tick.left # <<>>
  /\ at.loop \in {"cancel", "close"} /\ tick.then = "order" => tick.left # <<>>

\* An entry order has no id of a bracket, noted or not yet.
IdsOK ==
  /\ st.pending # 0 => st.pending # st.sl
  /\ tick.id # 0 => tick.id \notin {st.sl, st.tp1, st.tp2}

Hears(i) == \E n \in DOMAIN messages : messages[n].id = i

\* A thread is about to place the stop or to close the position.
Covering ==
  \/ at.loop \in {"filled", "old", "stop", "close"}
  \/ at.ws \in {"filled", "old", "stop", "raise"}

\* A position without a stop is being covered, or its fill will be heard.
PendingHeard == st.pending # 0 /\ Hears(st.pending)
TickHeard    == tick.id # 0 /\ Hears(tick.id)
NakedIsHeard == Naked => Covering \/ PendingHeard \/ TickHeard

RunnerShape == RunnerTypeOK /\ StatesOK /\ LeftOK /\ IdsOK
RunnerInv   == RunnerShape /\ NakedIsHeard

-----------------------------------------------------------------------------
\* Where a thread goes to.
LEMMA LoopGoes ==
  ASSUME RunnerTypeOK, NEW l \in LoopPlaces, Goto("loop", l)
  PROVE  /\ at' \in [Threads -> LoopPlaces \cup WsPlaces]
         /\ at'.loop = l /\ at'.ws = at.ws
BY DEF RunnerTypeOK, Goto, Threads

\* The same of the stream thread.
LEMMA WsGoes ==
  ASSUME RunnerTypeOK, NEW l \in WsPlaces, Goto("ws", l)
  PROVE  /\ at' \in [Threads -> LoopPlaces \cup WsPlaces]
         /\ at'.ws = l /\ at'.loop = at.loop
BY DEF RunnerTypeOK, Goto, Threads

\* The same of either thread, in _on_fill.
LEMMA ThreadGoes ==
  ASSUME RunnerTypeOK, NEW t \in Threads, NEW l \in {"filled", "old", "stop", "return"}, Goto(t, l)
  PROVE  /\ at' \in [Threads -> LoopPlaces \cup WsPlaces]
         /\ at'[t] = l /\ \A u \in Threads \ {t} : at'[u] = at[u]
BY DEF RunnerTypeOK, Goto, LoopPlaces

\* One OrderState is written to, the others stay.
LEMMA StateUpdated ==
  ASSUME RunnerTypeOK, UNCHANGED mode, NEW i \in 0..MaxStarts[mode], NEW s \in OrderStates,
         Update(i, s)
  PROVE  /\ objects' \in [0..MaxStarts[mode] -> OrderStates]
         /\ objects'[i] = s
         /\ \A j \in 0..MaxStarts[mode] \ {i} : objects'[j] = objects[j]
BY DEF RunnerTypeOK, Update

\* The states a thread may hold.
LEMMA StatesHeld ==
  ASSUME RunnerTypeOK, StatesOK
  PROVE  /\ MaxStarts[mode] \in Nat
         /\ current \in 0..MaxStarts[mode] /\ st \in OrderStates
         /\ tick.state \in 0..MaxStarts[mode]
         /\ \A t \in Threads : /\ fill[t].state \in 0..MaxStarts[mode]
                               /\ fill[t].caller \in 0..MaxStarts[mode]
<1>1. MaxStarts[mode] \in Nat
  BY RunnerAssumption DEF RunnerTypeOK
<1>2. current \in Nat /\ starts \in Nat /\ current <= starts /\ starts <= MaxStarts[mode]
  BY DEF RunnerTypeOK, StatesOK
<1>3. current \in 0..MaxStarts[mode]
  BY <1>1, <1>2
<1>4. tick.state \in 0..MaxStarts[mode]
  <2>1. tick.state \in Nat /\ tick.state <= current
    BY DEF RunnerTypeOK, StatesOK, TickLocals
  <2> QED BY <1>1, <1>2, <2>1
<1>5. ASSUME NEW t \in Threads
      PROVE  fill[t].state \in 0..MaxStarts[mode] /\ fill[t].caller \in 0..MaxStarts[mode]
  <2>1. /\ fill[t].state \in Nat /\ fill[t].state <= current
        /\ fill[t].caller \in Nat /\ fill[t].caller <= current
    BY DEF RunnerTypeOK, StatesOK, FillLocals
  <2> QED BY <1>1, <1>2, <2>1
<1> QED BY <1>1, <1>3, <1>4, <1>5 DEF RunnerTypeOK, st

\* A message more, and a message less.
LEMMA MessageSent ==
  ASSUME messages \in Messages, NEW id \in 1..MaxOrders, NEW qty \in Nat, Sent(id, qty)
  PROVE  /\ messages' \in Messages
         /\ \A i : Hears(i) => Hears(i)'
         /\ stream => Hears(id)'
<1> DEFINE m == [id |-> id, qty |-> qty]
<1>1. m \in [id : 1..MaxOrders, qty : Nat] /\ m.id = id
  OBVIOUS
<1> HIDE DEF m
<1>2. CASE ~stream
  BY <1>2 DEF Sent, Hears
<1>3. CASE stream
  <2>1. messages' = Append(messages, m)
    BY <1>3 DEF Sent, m
  <2>2. messages' \in Messages
    BY <1>1, <2>1 DEF Messages
  <2>3. /\ DOMAIN messages' = 1..(Len(messages) + 1) /\ DOMAIN messages = 1..Len(messages)
        /\ Len(messages) \in Nat
        /\ messages'[Len(messages) + 1] = m
        /\ \A n \in 1..Len(messages) : messages'[n] = messages[n]
    BY <1>1, <2>1 DEF Messages
  <2>4. \A i : Hears(i) => Hears(i)'
    BY <2>3 DEF Hears
  <2>5. Len(messages) + 1 \in DOMAIN messages' /\ messages'[Len(messages) + 1].id = id
    BY <1>1, <2>3
  <2>6. Hears(id)'
    BY <2>5 DEF Hears
  <2> QED BY <2>2, <2>4, <2>6
<1> QED BY <1>2, <1>3

\* The one that is taken is heard; the others will be.
LEMMA MessageTaken ==
  ASSUME messages \in Messages, messages # <<>>, messages' = Tail(messages)
  PROVE  /\ messages' \in Messages
         /\ Heard \in 1..MaxOrders /\ Hears(Heard)
         /\ \A i : Hears(i) /\ i # Heard => Hears(i)'
<1>1. /\ messages' \in Messages /\ Len(messages) \in Nat /\ Len(messages) > 0
      /\ DOMAIN messages = 1..Len(messages) /\ DOMAIN messages' = 1..(Len(messages) - 1)
      /\ Head(messages) = messages[1]
      /\ Head(messages) \in [id : 1..MaxOrders, qty : Nat]
      /\ \A n \in 1..(Len(messages) - 1) : messages'[n] = messages[n + 1]
  <2> DEFINE M == [id : 1..MaxOrders, qty : Nat]
  <2>1. messages \in Seq(M)
    BY DEF Messages
  <2> HIDE DEF M
  <2>2. Len(messages) \in Nat /\ Len(messages) > 0 /\ DOMAIN messages = 1..Len(messages)
    BY <2>1
  <2>3. Head(messages) = messages[1] /\ Head(messages) \in M
    BY <2>1
  <2>4. messages' \in Seq(M) /\ Len(messages') = Len(messages) - 1
    BY <2>1
  <2>5. DOMAIN messages' = 1..(Len(messages) - 1)
    BY <2>4
  <2>6. \A n \in 1..(Len(messages) - 1) : messages'[n] = messages[n + 1]
    BY <2>1
  <2> QED BY <2>2, <2>3, <2>4, <2>5, <2>6 DEF M, Messages
<1>2. ASSUME NEW i, NEW n \in DOMAIN messages, messages[n].id = i, i # Heard
      PROVE  Hears(i)'
  <2>1. n # 1 /\ n \in 1..Len(messages)
    BY <1>1, <1>2 DEF Heard
  <2>2. n - 1 \in DOMAIN messages' /\ messages'[n - 1] = messages[n]
    BY <1>1, <2>1
  <2> QED BY <1>2, <2>2 DEF Hears
<1>3. Hears(Heard)
  BY <1>1 DEF Hears, Heard
<1> QED BY <1>1, <1>2, <1>3 DEF Hears, Heard

\* New client ids.
LEMMA OneLess ==
  ASSUME NEW S, IsFiniteSet(S), NEW n \in Nat, Cardinality(S) >= n + 1, NEW x
  PROVE  IsFiniteSet(S \ {x}) /\ Cardinality(S \ {x}) >= n /\ \E y : y \in S
<1>1. Cardinality(S) \in Nat
  BY FS_CardinalityType
<1>2. /\ IsFiniteSet(S \ {x})
      /\ Cardinality(S \ {x}) = IF x \in S THEN Cardinality(S) - 1 ELSE Cardinality(S)
  BY FS_RemoveElement
<1>3. S # {}
  BY <1>1, FS_EmptySet
<1> QED BY <1>1, <1>2, <1>3

\* Distinct ids that nobody has, when enough of them are free.
LEMMA FreeIds ==
  ASSUME NEW n \in 1..3, Free(n)
  PROVE  /\ NewId(1) \in 1..MaxOrders \ KnownIds
         /\ n >= 2 => NewId(2) \in 1..MaxOrders \ KnownIds /\ NewId(2) # NewId(1)
         /\ n >= 3 => NewId(3) \in 1..MaxOrders \ KnownIds
<1> DEFINE S == 1..MaxOrders \ KnownIds
           first == Unused({})
           second == Unused({first})
           third == Unused({first, second})
<1>1. IsFiniteSet(S) /\ Cardinality(S) >= n
  <2>1. MaxOrders \in Int
    BY LegacyAssumption
  <2>2. IsFiniteSet(1..MaxOrders)
    BY <2>1, FS_Interval
  <2>3. S \in SUBSET (1..MaxOrders)
    OBVIOUS
  <2> QED BY <2>2, <2>3, FS_Subset DEF Free
<1>2. first \in S
  <2>1. Cardinality(S) >= 0 + 1
    <3>1. Cardinality(S) \in Nat
      BY <1>1, FS_CardinalityType
    <3> HIDE DEF S
    <3> QED BY <1>1, <3>1
  <2>2. \E y : y \in S
    <3> HIDE DEF S
    <3> QED BY <1>1, <2>1, OneLess
  <2>3. \E i \in 1..MaxOrders : i \notin KnownIds \cup {}
    BY <2>2
  <2> QED BY <2>3 DEF Unused
<1>3. ASSUME n >= 2
      PROVE  second \in S /\ second # first
  <2>1. /\ IsFiniteSet(S \ {first}) /\ Cardinality(S \ {first}) >= n - 1 /\ n - 1 \in Nat
    <3> HIDE DEF S, first
    <3>1. n - 1 \in Nat /\ (n - 1) + 1 = n
      BY <1>3
    <3>2. Cardinality(S) >= (n - 1) + 1
      BY <1>1, <3>1
    <3> QED BY <1>1, <3>1, <3>2, OneLess
  <2>2. \E y : y \in S \ {first}
    <3>1. Cardinality(S \ {first}) >= 0 + 1
      <4>1. Cardinality(S \ {first}) \in Nat
        BY <2>1, FS_CardinalityType
      <4> HIDE DEF S, first
      <4> QED BY <1>3, <2>1, <4>1
    <3> HIDE DEF S, first
    <3> QED BY <2>1, <3>1, OneLess
  <2>3. \E i \in 1..MaxOrders : i \notin KnownIds \cup {first}
    BY <2>2
  <2> HIDE DEF first
  <2>4. second \in 1..MaxOrders /\ second \notin KnownIds \cup {first}
    BY <2>3 DEF Unused
  <2> QED BY <2>4
<1>4. ASSUME n >= 3
      PROVE  third \in S
  <2>1. /\ IsFiniteSet(S \ {first}) /\ Cardinality(S \ {first}) >= 1 + 1
    <3>1. Cardinality(S \ {first}) >= 2
      <4> HIDE DEF S, first
      <4> QED BY <1>1, <1>4, OneLess
    <3> HIDE DEF S, first
    <3> QED BY <1>1, <3>1, FS_RemoveElement
  <2>2. IsFiniteSet((S \ {first}) \ {second}) /\ Cardinality((S \ {first}) \ {second}) >= 0 + 1
    <3> HIDE DEF S, first, second
    <3> QED BY <2>1, OneLess
  <2>3. \E y : y \in (S \ {first}) \ {second}
    <3> HIDE DEF S, first, second
    <3> QED BY <2>2, OneLess
  <2>4. \E i \in 1..MaxOrders : i \notin KnownIds \cup {first, second}
    BY <2>3
  <2> HIDE DEF first, second
  <2>5. third \in 1..MaxOrders /\ third \notin KnownIds \cup {first, second}
    BY <2>4 DEF Unused
  <2> QED BY <2>5
<1>5. NewId(1) = first /\ NewId(2) = second /\ NewId(3) = third
  BY DEF NewId
<1> HIDE DEF first, second, third
<1> QED BY <1>2, <1>3, <1>4, <1>5

\* Of the ids that are known, those that matter here.
LEMMA IdsKnown ==
  /\ {st.pending, st.sl, st.tp1, st.tp2} \subseteq KnownIds
  /\ tick.id \in KnownIds
<1> DEFINE Of(s) == {s.pending, s.sl, s.tp1, s.tp2}
<1>1. Of(objects[current]) \subseteq UNION {Of(objects[i]) : i \in {current, tick.state, fill.ws.caller}}
  OBVIOUS
<1>2. Of(objects[current]) \subseteq KnownIds
  <2> SUFFICES ASSUME NEW x \in Of(objects[current]) PROVE x \in KnownIds
    OBVIOUS
  <2>1. x \in UNION {Of(objects[i]) : i \in {current, tick.state, fill.ws.caller}}
    BY <1>1
  <2> QED BY <2>1, Zenon DEF KnownIds
<1>3. tick.id \in KnownIds
  <2> DEFINE others == {o.id : o \in live} \cup {messages[i].id : i \in DOMAIN messages}
                         \cup (UNION {Of(objects[i]) : i \in {current, tick.state, fill.ws.caller}})
  <2>1. KnownIds = others \cup {tick.id, fill.ws.id}
    BY DEF KnownIds
  <2> HIDE DEF others
  <2> QED BY <2>1
<1> QED BY <1>2, <1>3 DEF st

\* The locals of a tick with a slice less.
LEMMA SliceTaken ==
  ASSUME RunnerTypeOK, tick.left # <<>>, SliceDone
  PROVE  /\ tick' \in TickLocals /\ tick'.id = 0 /\ tick'.state = tick.state
         /\ at' \in [Threads -> LoopPlaces \cup WsPlaces]
         /\ at'.ws = at.ws /\ at'.loop \in {"attach", "order"}
         /\ at'.loop = "order" => tick'.left # <<>>
<1> DEFINE left == tick.left
<1>1. left \in Seq(Nat) /\ left # <<>> /\ tick \in TickLocals
  BY DEF RunnerTypeOK, TickLocals
<1>2. Tail(left) \in Seq(Nat) /\ (Len(left) # 1 => Tail(left) # <<>>)
  <2> HIDE DEF left
  <2>1. Len(left) \in Nat /\ Len(left) # 0 /\ Tail(left) \in Seq(Nat)
    BY <1>1
  <2>2. Len(Tail(left)) = Len(left) - 1
    BY <1>1
  <2>3. ASSUME NEW s \in Seq(Nat), s = << >> PROVE Len(s) = 0
    BY <2>3
  <2>4. Len(left) # 1 => Len(Tail(left)) # 0
    BY <2>1, <2>2
  <2> QED BY <2>1, <2>3, <2>4
<1>3. 0 \in OrderIds
  BY LegacyAssumption DEF OrderIds
<1>4. tick' = [tick EXCEPT !.left = Tail(left), !.id = 0]
  BY DEF SliceDone
<1> HIDE DEF left
<1>5. tick' \in TickLocals /\ tick'.id = 0 /\ tick'.state = tick.state /\ tick'.left = Tail(left)
  BY <1>1, <1>2, <1>3, <1>4 DEF TickLocals
<1>6. Goto("loop", IF Len(left) = 1 THEN "attach" ELSE "order")
  BY DEF SliceDone, left
<1>7. /\ at' \in [Threads -> LoopPlaces \cup WsPlaces]
      /\ at'.loop = (IF Len(left) = 1 THEN "attach" ELSE "order") /\ at'.ws = at.ws
  BY <1>6, LoopGoes DEF LoopPlaces
<1> QED BY <1>2, <1>5, <1>7

\* The ids of the cancelled brackets are dropped, the pending order is not.
LEMMA BracketsCancelled ==
  ASSUME RunnerTypeOK, UNCHANGED mode, NEW i \in 0..MaxStarts[mode], NEW priced \in BOOLEAN,
         CancelBrackets(i, priced)
  PROVE  /\ live' \subseteq live
         /\ objects' \in [0..MaxStarts[mode] -> OrderStates]
         /\ objects'[i].pending = objects[i].pending
         /\ objects'[i].sl = 0 /\ objects'[i].tp1 = 0 /\ objects'[i].tp2 = 0
         /\ \A j \in 0..MaxStarts[mode] \ {i} : objects'[j] = objects[j]
<1> DEFINE s == [objects[i] EXCEPT !.sl = 0, !.tp1 = 0, !.tp2 = 0,
                                   !.priced = objects[i].priced \/ priced]
<1>1. objects[i] \in OrderStates /\ 0 \in OrderIds
  BY LegacyAssumption DEF RunnerTypeOK, OrderIds
<1>2. /\ s \in OrderStates /\ s.pending = objects[i].pending
      /\ s.sl = 0 /\ s.tp1 = 0 /\ s.tp2 = 0
  BY <1>1 DEF OrderStates
<1>3. Update(i, s) /\ live' \subseteq live
  BY <1>1 DEF CancelBrackets, OrderStates
<1> HIDE DEF s
<1> QED BY <1>2, <1>3, StateUpdated

\* A slice at least, whatever the quantity.
LEMMA SlicesTyped ==
  ASSUME NEW qty \in Nat, NEW s \in Slices(qty)
  PROVE  s \in Seq(Nat) /\ s # <<>>
<1>1. CASE s = <<qty>>
  BY <1>1
<1>2. CASE \E q \in 1..(qty - 1) : s = <<q, qty - q>>
  <2>1. PICK q \in 1..(qty - 1) : s = <<q, qty - q>>
    BY <1>2
  <2>2. q \in Nat /\ qty - q \in Nat
    OBVIOUS
  <2> QED BY <2>1, <2>2
<1> QED BY <1>1, <1>2 DEF Slices

\* How an order of the tick may change the position.
LEMMA TickOrder ==
  ASSUME RunnerTypeOK, NEW qty \in Nat, Executed(qty)
  PROVE  amt' \in Int
<1>1. tick.side \in {-1, 1} /\ amt \in Int
  BY DEF RunnerTypeOK, TickLocals
<1> QED BY <1>1, MarketOrders DEF Executed

\* A step leaves both threads at a place of theirs, with the object they hold, the
\* slices and the ids they need there.
LEMMA RunnerShapeStep == RunnerShape /\ [RunnerNext]_runnerVars => RunnerShape'
<1> SUFFICES ASSUME RunnerShape, [RunnerNext]_runnerVars PROVE RunnerShape'
  OBVIOUS
<1> USE DEF unchangedConfig, unchangedThread, exchangeVars
<1>0. /\ RunnerTypeOK /\ StatesOK /\ LeftOK /\ IdsOK
      /\ amt \in Int /\ live \subseteq Orders /\ mode \in OrderModes
      /\ at \in [Threads -> LoopPlaces \cup WsPlaces]
      /\ objects \in [0..MaxStarts[mode] -> OrderStates]
      /\ tick \in TickLocals /\ fill \in [Threads -> FillLocals] /\ messages \in Messages
      /\ starts \in Nat /\ current \in Nat
      /\ 0 \in OrderIds /\ MaxOrders \in Nat
  BY LegacyAssumption DEF RunnerShape, RunnerTypeOK, OrderIds
<1>00. /\ MaxStarts[mode] \in Nat /\ current \in 0..MaxStarts[mode] /\ st \in OrderStates
       /\ tick.state \in 0..MaxStarts[mode] /\ tick.state <= current
       /\ \A t \in Threads : /\ fill[t].state \in 0..MaxStarts[mode] /\ fill[t].state <= current
                             /\ fill[t].caller \in 0..MaxStarts[mode] /\ fill[t].caller <= current
  BY <1>0, StatesHeld DEF StatesOK
<1>000. /\ NoTick \in TickLocals /\ NoTick.id = 0 /\ NoTick.state = 0 /\ NoTick.left = <<>>
        /\ NoFill \in FillLocals /\ NoFill.state = 0 /\ NoFill.caller = 0
  <2>1. << >> \in Seq(Nat)
    OBVIOUS
  <2> QED BY <1>0, <2>1 DEF NoTick, NoFill, TickLocals, FillLocals
<1> DEFINE Config    == UNCHANGED <<mode, starts, current>> /\ (running' => running)
           AmtOK     == amt' \in Int /\ live' \subseteq Orders
           AtOK      == at' \in [Threads -> LoopPlaces \cup WsPlaces]
           TickOK    == tick' \in TickLocals /\ tick'.state <= current
           FillOK    == /\ fill' \in [Threads -> FillLocals]
                        /\ \A t \in Threads : fill'[t].state <= current /\ fill'[t].caller <= current
           ObjectsOK == /\ objects' \in [0..MaxStarts[mode] -> OrderStates]
                        /\ \A j \in 0..MaxStarts[mode] : j > current => objects'[j] = objects[j]
           MessagesOK == messages' \in Messages
<1>all. ASSUME Config, AmtOK, AtOK, TickOK, FillOK, ObjectsOK, MessagesOK, LeftOK', IdsOK'
        PROVE  RunnerShape'
  <2>1. RunnerTypeOK'
    BY <1>0, <1>all DEF RunnerTypeOK
  <2>2. StatesOK'
    BY <1>0, <1>all DEF StatesOK
  <2> QED BY <1>all, <2>1, <2>2 DEF RunnerShape
<1>amt. UNCHANGED <<amt, live>> => AmtOK
  BY <1>0
<1>tick. UNCHANGED tick => TickOK
  BY <1>0, <1>00
<1>fill. UNCHANGED fill => FillOK
  BY <1>0, <1>00
<1>objects. UNCHANGED objects => ObjectsOK
  BY <1>0
<1>messages. UNCHANGED messages => MessagesOK
  BY <1>0
\* Where the loop goes without another slice.
<1>left. ASSUME tick'.id = 0, at'.loop \notin {"pend", "order", "cancel", "close"}
         PROVE  LeftOK'
  BY <1>left DEF LeftOK
<1>stays. ASSUME UNCHANGED tick, at'.loop = at.loop
          PROVE  LeftOK'
  BY <1>0, <1>stays DEF LeftOK
<1>id. at.loop # "pend" => tick.id = 0
  BY <1>0 DEF LeftOK
\* The ids of the order that is noted stay, or go.
<1>ids. ASSUME tick'.id \in {0, tick.id}, st'.pending \in {0, st.pending}, st'.sl \in {0, st.sl},
               st'.tp1 \in {0, st.tp1}, st'.tp2 \in {0, st.tp2}
        PROVE  IdsOK'
  BY <1>0, <1>ids DEF IdsOK
<1>same. ASSUME tick'.id \in {0, tick.id}, UNCHANGED <<objects, current>>
         PROVE  IdsOK'
  BY <1>0, <1>same DEF IdsOK, st
\* A thread forgets its fill.
<1>nofill. ASSUME NEW t \in Threads, fill' = [fill EXCEPT ![t] = NoFill]
           PROVE  FillOK
  <2>1. fill' \in [Threads -> FillLocals]
    BY <1>0, <1>000, <1>nofill
  <2>2. ASSUME NEW u \in Threads
        PROVE  fill'[u].state <= current /\ fill'[u].caller <= current
    <3>1. CASE u = t
      <4>1. fill'[u] = NoFill
        BY <1>0, <1>nofill, <3>1
      <4> QED BY <1>0, <1>000, <4>1
    <3>2. CASE u # t
      <4>1. fill'[u] = fill[u]
        BY <1>0, <1>nofill, <3>2
      <4> QED BY <1>00, <4>1
    <3> QED BY <3>1, <3>2
  <2> QED BY <2>1, <2>2
\* The brackets a thread cancels, and their ids with them.
<1>cancels. ASSUME NEW i \in 0..MaxStarts[mode], i <= current, NEW priced \in BOOLEAN,
                   CancelBrackets(i, priced), UNCHANGED <<mode, tick, current>>
            PROVE  live' \subseteq live /\ ObjectsOK /\ IdsOK'
  <2>1. /\ live' \subseteq live
        /\ objects' \in [0..MaxStarts[mode] -> OrderStates]
        /\ objects'[i].pending = objects[i].pending
        /\ objects'[i].sl = 0 /\ objects'[i].tp1 = 0 /\ objects'[i].tp2 = 0
        /\ \A j \in 0..MaxStarts[mode] \ {i} : objects'[j] = objects[j]
    BY <1>0, <1>cancels, BracketsCancelled
  <2>2. ObjectsOK
    BY <1>00, <1>cancels, <2>1
  <2>3. IdsOK'
    <3>1. CASE i = current
      BY <1>cancels, <1>ids, <2>1, <3>1 DEF st
    <3>2. CASE i # current
      <4>1. st' = st
        BY <1>00, <1>cancels, <2>1, <3>2 DEF st
      <4> QED BY <1>cancels, <1>ids, <4>1
    <3> QED BY <3>1, <3>2
  <2> QED BY <2>1, <2>2, <2>3
<1>1. CASE Start
  <2>1. AtOK /\ at'.loop = "head"
    BY <1>0, <1>1, LoopGoes DEF Start, LoopPlaces
  <2>2. RunnerTypeOK'
    BY <1>0, <1>1, <2>1 DEF Start, RunnerTypeOK
  <2>3. StatesOK'
    BY <1>0, <1>00, <1>1 DEF Start, StatesOK
  <2>4. LeftOK' /\ IdsOK'
    BY <1>1, <1>id, <1>left, <1>same, <2>1 DEF Start
  <2> QED BY <2>2, <2>3, <2>4 DEF RunnerShape
<1>2. CASE Stop
  <2>1. /\ current' = starts /\ running' = FALSE /\ messages' = <<>>
        /\ UNCHANGED <<amt, live, at, mode, objects, tick, fill, starts>>
        /\ current < starts /\ starts <= MaxStarts[mode]
    BY <1>0, <1>2 DEF Stop, StatesOK
  <2>2. << >> \in Messages
    BY DEF Messages
  <2>3. RunnerTypeOK'
    BY <1>0, <2>1, <2>2 DEF RunnerTypeOK
  <2>4. StatesOK'
    BY <1>0, <1>00, <2>1 DEF StatesOK
  <2>5. LeftOK'
    BY <1>stays, <2>1
  <2>6. st' = FreshState
    BY <1>0, <1>00, <2>1 DEF StatesOK, st
  <2>7. IdsOK'
    <3>1. FreshState.pending = 0 /\ FreshState.sl = 0 /\ FreshState.tp1 = 0 /\ FreshState.tp2 = 0
      BY DEF FreshState
    <3> QED BY <2>1, <2>6, <3>1 DEF IdsOK
  <2> QED BY <2>3, <2>4, <2>5, <2>7 DEF RunnerShape
<1>3. CASE LoseMessage
  <2>1. MessagesOK
    BY <1>0, <1>3, MessageTaken DEF LoseMessage
  <2> QED BY <1>0, <1>3, <1>all, <1>amt, <1>tick, <1>fill, <1>objects, <1>stays, <1>same, <2>1
          DEF LoseMessage
<1>4. ASSUME NEW o \in live, BracketFires(o) PROVE RunnerShape'
  <2>1. o.id \in 1..MaxOrders
    BY <1>0 DEF Orders
  <2>2. MessagesOK
    BY <1>0, <1>4, <2>1, MessageSent DEF BracketFires
  <2>3. AmtOK
    BY <1>0, <1>4, FiredKeepsSide DEF BracketFires
  <2> QED BY <1>0, <1>4, <1>all, <1>tick, <1>fill, <1>objects, <1>stays, <1>same, <2>2, <2>3
          DEF BracketFires
<1>5. ASSUME NEW o \in live, NEW qty \in 1..Full, PendingFills(o, qty) PROVE RunnerShape'
  <2> DEFINE rest == [o EXCEPT !.qty = o.qty - qty]
  <2>1. o \in Orders /\ qty \in 1..o.qty /\ qty \in Nat
    BY <1>0, <1>5 DEF PendingFills
  <2>2. MessagesOK
    <3>1. o.id \in 1..MaxOrders
      BY <2>1 DEF Orders
    <3> QED BY <1>0, <1>5, <2>1, <3>1, MessageSent DEF PendingFills
  <2>3. AmtOK
    <3>1. rest \in Orders
      BY <2>1 DEF Orders
    <3>2. amt' = Bought(o.side, qty) /\ o.side \in {-1, 0, 1}
      BY <1>5, <2>1 DEF PendingFills, Orders
    <3>3. amt' \in Int
      BY <1>0, <2>1, <3>2, MarketOrders
    <3>4. live' \subseteq live \cup {rest}
      BY <1>5 DEF PendingFills
    <3> HIDE DEF rest
    <3> QED BY <1>0, <3>1, <3>3, <3>4
  <2> QED BY <1>0, <1>5, <1>all, <1>tick, <1>fill, <1>objects, <1>stays, <1>same, <2>2, <2>3
          DEF PendingFills
<1>6. CASE KillSwitch \/ LoopEnds
  <2>1. \E l \in {"head", "exec", "off"} : Goto("loop", l)
    BY <1>6 DEF KillSwitch, LoopEnds
  <2>2. AtOK /\ at'.loop \in {"head", "exec", "off"}
    BY <1>0, <2>1, LoopGoes DEF LoopPlaces
  <2>3. tick.id = 0 /\ Config /\ UNCHANGED <<amt, live, objects, tick, fill, messages>>
    BY <1>6, <1>id DEF KillSwitch, LoopEnds
  <2> QED BY <1>all, <1>amt, <1>tick, <1>fill, <1>objects, <1>messages, <1>left, <1>same, <2>2, <2>3
<1>7. CASE ExecTick
  <2>1. \E l \in {"head", "attach", "preflight"} : Goto("loop", l)
    BY <1>7 DEF ExecTick
  <2>2. AtOK /\ at'.loop \in {"head", "attach", "preflight"}
    BY <1>0, <2>1, LoopGoes DEF LoopPlaces
  <2>3. tick.id = 0 /\ Config /\ UNCHANGED <<amt, live, objects, fill, messages>>
    BY <1>7, <1>id DEF ExecTick
  <2>4. TickOK /\ tick'.id = 0
    <3>1. CASE UNCHANGED tick
      BY <1>tick, <2>3, <3>1
    <3>2. CASE \E target \in TargetSizes :
                 tick' = [NoTick EXCEPT !.target = target, !.held = amt, !.state = current]
      <4>1. PICK target \in Int :
              tick' = [NoTick EXCEPT !.target = target, !.held = amt, !.state = current]
        BY <3>2, RunnerAssumption
      <4>2. ASSUME NEW x \in TickLocals
            PROVE  LET y == [x EXCEPT !.target = target, !.held = amt, !.state = current] IN
                   y \in TickLocals /\ y.id = x.id /\ y.state = current
        BY <1>0 DEF TickLocals
      <4>3. tick' \in TickLocals /\ tick'.id = NoTick.id /\ tick'.state = current
        BY <1>000, <4>1, <4>2
      <4>4. current <= current
        BY <1>0
      <4> QED BY <1>000, <4>3, <4>4
    <3> QED BY <1>7, <3>1, <3>2 DEF ExecTick
  <2> QED BY <1>all, <1>amt, <1>fill, <1>objects, <1>messages, <1>left, <1>same, <2>2, <2>3, <2>4
<1>8. CASE Preflight
  <2>1. \E l \in {"attach", "delta", "stale"} : Goto("loop", l)
    BY <1>8 DEF Preflight
  <2>2. AtOK /\ at'.loop \in {"attach", "delta", "stale"}
    BY <1>0, <2>1, LoopGoes DEF LoopPlaces
  <2>3. tick.id = 0 /\ Config /\ UNCHANGED <<amt, live, objects, fill, messages>>
    BY <1>8, <1>id DEF Preflight
  <2>4. TickOK /\ tick'.id = 0
    <3>1. tick' = [tick EXCEPT !.state = current]
      BY <1>8 DEF Preflight
    <3>2. ASSUME NEW x \in TickLocals
          PROVE  LET y == [x EXCEPT !.state = current] IN
                 y \in TickLocals /\ y.id = x.id /\ y.state = current
      BY <1>0 DEF TickLocals
    <3>3. tick' \in TickLocals /\ tick'.id = tick.id /\ tick'.state = current
      BY <1>0, <3>1, <3>2
    <3>4. current <= current
      BY <1>0
    <3> QED BY <2>3, <3>3, <3>4
  <2> QED BY <1>all, <1>amt, <1>fill, <1>objects, <1>messages, <1>left, <1>same, <2>2, <2>3, <2>4
<1>9. CASE CancelStale
  <2> DEFINE mine == objects[tick.state]
             s == [mine EXCEPT !.pending = 0]
  <2>1. AtOK /\ at'.loop = "delta"
    BY <1>0, <1>9, LoopGoes DEF CancelStale, LoopPlaces
  <2>2. tick.id = 0 /\ Config /\ UNCHANGED <<amt, tick, fill, messages>> /\ live' \subseteq live
    BY <1>9, <1>id DEF CancelStale
  <2>3. mine \in OrderStates
    BY <1>0, <1>00
  <2>4. s \in OrderStates /\ s.pending = 0 /\ s.sl = mine.sl /\ s.tp1 = mine.tp1 /\ s.tp2 = mine.tp2
    BY <1>0, <2>3 DEF OrderStates
  <2>5. Update(tick.state, s)
    BY <1>9 DEF CancelStale
  <2> HIDE DEF s
  <2>6. /\ objects' \in [0..MaxStarts[mode] -> OrderStates] /\ objects'[tick.state] = s
        /\ \A j \in 0..MaxStarts[mode] \ {tick.state} : objects'[j] = objects[j]
    BY <1>0, <1>00, <2>2, <2>4, <2>5, StateUpdated
  <2>7. ObjectsOK
    BY <1>00, <2>6
  <2>8. IdsOK'
    BY <1>00, <1>ids, <2>2, <2>4, <2>6 DEF st
  <2> QED BY <1>0, <1>all, <1>tick, <1>fill, <1>messages, <1>left, <2>1, <2>2, <2>7, <2>8
<1>10. CASE Delta
  <2> DEFINE delta == tick.target - tick.held
             flips == tick.held # 0 /\ Sign(delta) = -Sign(tick.held) /\ Size(delta) > Size(tick.held)
             qty   == IF flips THEN Size(delta) - Size(tick.held) ELSE Size(delta)
             lessens == Sign(delta) = -Sign(tick.held) /\ qty <= Size(tick.held)
  <2>1. tick.id = 0 /\ Config /\ UNCHANGED <<amt, live, objects, fill, messages>>
    BY <1>10, <1>id DEF Delta
  <2>2. CASE Goto("loop", "attach") /\ UNCHANGED tick
    <3>1. AtOK /\ at'.loop = "attach"
      BY <1>0, <2>2, LoopGoes DEF LoopPlaces
    <3> QED BY <1>all, <1>amt, <1>tick, <1>fill, <1>objects, <1>messages, <1>left, <1>same,
               <2>1, <2>2, <3>1
  <2>3. CASE /\ delta # 0
             /\ \E s \in Slices(qty) : 
                  tick' = [tick EXCEPT !.side = Sign(delta), !.left = s, !.then = "order",
                                       !.reduce = lessens]
             /\ Goto("loop", IF flips THEN "cancel" ELSE "order")
    <3>1. delta \in Int /\ tick.held \in Int
      BY <1>0 DEF TickLocals
    <3>2. qty \in Nat /\ Sign(delta) \in {-1, 1}
      <4>1. Size(delta) \in Nat /\ Size(tick.held) \in Nat
        BY <3>1, SignedSizes
      <4>2. Sign(delta) \in {-1, 0, 1} /\ Sign(delta) # 0
        BY <2>3, <3>1, SignedSizes
      <4> HIDE DEF delta
      <4> QED BY <4>1, <4>2
    <3>3. PICK s \in Slices(qty) : 
            tick' = [tick EXCEPT !.side = Sign(delta), !.left = s, !.then = "order",
                                 !.reduce = lessens]
      BY <2>3
    <3>4. s \in Seq(Nat) /\ s # <<>>
      BY <3>2, SlicesTyped
    <3>5. lessens \in BOOLEAN
      OBVIOUS
    <3>6. AtOK /\ at'.loop \in {"cancel", "order"}
      BY <1>0, <2>3, LoopGoes DEF LoopPlaces
    <3> HIDE DEF delta, qty, lessens, flips
    <3>7. tick' \in TickLocals /\ tick'.state = tick.state /\ tick'.id = tick.id /\ tick'.left = s
      BY <1>0, <3>2, <3>3, <3>4, <3>5 DEF TickLocals
    <3>8. LeftOK'
      BY <2>1, <3>4, <3>6, <3>7 DEF LeftOK
    <3> QED BY <1>00, <1>all, <1>amt, <1>fill, <1>objects, <1>messages, <1>same, <2>1, <3>6, <3>7, <3>8
  <2> QED BY <1>10, <2>2, <2>3 DEF Delta
<1>11. CASE CloseCancels
  <2>1. AtOK /\ at'.loop = "close"
    BY <1>0, <1>11, LoopGoes DEF CloseCancels, LoopPlaces
  <2>2. /\ tick.id = 0 /\ Config /\ UNCHANGED <<amt, tick, fill, messages>>
        /\ at.loop = "cancel" /\ CancelBrackets(tick.state, FALSE)
    BY <1>11, <1>id DEF CloseCancels
  <2>3. /\ live' \subseteq live /\ ObjectsOK /\ IdsOK'
    BY <1>00, <1>cancels, <2>2
  <2>4. LeftOK'
    BY <1>0, <2>1, <2>2 DEF LeftOK
  <2> QED BY <1>0, <1>all, <1>tick, <1>fill, <1>messages, <2>1, <2>2, <2>3, <2>4
<1>12. CASE CloseOrder
  <2>1. tick.then \in {"head", "order"} /\ tick.held \in Int
    BY <1>0 DEF TickLocals
  <2>2. AtOK /\ at'.loop = tick.then
    BY <1>0, <1>12, <2>1, LoopGoes DEF CloseOrder, LoopPlaces
  <2>3. /\ at.loop = "close" /\ tick.id = 0 /\ Config /\ UNCHANGED <<live, objects, fill, messages>>
        /\ tick' = IF tick.then = "head" THEN NoTick ELSE tick
    BY <1>12, <1>id DEF CloseOrder
  <2>4. TickOK /\ tick'.id = 0
    BY <1>00, <1>000, <1>tick, <2>3
  <2>5. AmtOK
    <3>1. -Sign(tick.held) \in {-1, 0, 1} /\ Size(tick.held) \in Nat
      BY <2>1, SignedSizes
    <3>2. amt' = Reduced(-Sign(tick.held), Size(tick.held)) \/ amt' = amt
      BY <1>12 DEF CloseOrder
    <3> QED BY <1>0, <2>3, <3>1, <3>2, MarketOrders
  <2>6. LeftOK'
    BY <1>0, <2>1, <2>2, <2>3, <2>4 DEF LeftOK
  <2> QED BY <1>all, <1>fill, <1>objects, <1>messages, <1>same, <2>2, <2>3, <2>4, <2>5, <2>6
<1>slice. ASSUME at.loop \in {"order", "pend"}, SliceDone
          PROVE  AtOK /\ TickOK /\ tick'.id = 0 /\ LeftOK' /\ at'.loop \in {"attach", "order"}
  <2>1. tick.left # <<>>
    BY <1>0, <1>slice DEF LeftOK
  <2> QED BY <1>0, <1>00, <1>slice, <2>1, SliceTaken DEF LeftOK
<1>head. at.loop = "order" => Head(tick.left) \in Nat
  <2>1. at.loop = "order" => tick.left # <<>> /\ tick.left \in Seq(Nat)
    BY <1>0 DEF LeftOK, TickLocals
  <2> QED BY <2>1
<1>13. CASE OrderRefused
  <2>1. /\ at.loop = "order" /\ SliceDone /\ Config
        /\ UNCHANGED <<amt, live, objects, fill, messages>>
    BY <1>13 DEF OrderRefused
  <2> QED BY <1>all, <1>amt, <1>fill, <1>objects, <1>messages, <1>same, <1>slice, <2>1
<1>14. CASE MarketOrder
  <2>1. /\ at.loop = "order" /\ Config /\ UNCHANGED <<live, objects, fill, messages>>
        /\ Executed(Head(tick.left)) /\ tick.id = 0
    BY <1>14, <1>id DEF MarketOrder
  <2>2. AmtOK
    BY <1>0, <1>head, <2>1, TickOrder
  <2>3. CASE SliceDone
    BY <1>all, <1>fill, <1>objects, <1>messages, <1>same, <1>slice, <2>1, <2>2, <2>3
  <2>4. CASE Goto("loop", "filled") /\ UNCHANGED tick
    <3>1. AtOK /\ at'.loop = "filled"
      BY <1>0, <2>4, LoopGoes DEF LoopPlaces
    <3> QED BY <1>all, <1>tick, <1>fill, <1>objects, <1>messages, <1>left, <1>same, <2>1, <2>2, <2>4, <3>1
  <2> QED BY <1>14, <2>3, <2>4 DEF MarketOrder
\* The order is sent with an id that is nobody's.
<1>new. ASSUME Free(1), Goto("loop", "pend"), tick' = [tick EXCEPT !.id = NewId(1)],
               UNCHANGED <<objects, current>>, at.loop = "order"
        PROVE  AtOK /\ TickOK /\ LeftOK' /\ IdsOK'
  <2>1. NewId(1) \in 1..MaxOrders /\ NewId(1) \notin KnownIds
    BY <1>new, FreeIds
  <2>2. AtOK /\ at'.loop = "pend"
    BY <1>0, <1>new, LoopGoes DEF LoopPlaces
  <2>3. /\ tick' \in TickLocals /\ tick'.id = NewId(1) /\ tick'.state = tick.state
        /\ tick'.left = tick.left
    <3>1. ASSUME NEW x \in TickLocals, NEW i \in OrderIds
          PROVE  LET y == [x EXCEPT !.id = i] IN
                 y \in TickLocals /\ y.id = i /\ y.state = x.state /\ y.left = x.left
      BY DEF TickLocals
    <3>2. NewId(1) \in OrderIds
      BY <2>1, <1>0 DEF OrderIds
    <3> QED BY <1>0, <1>new, <3>1, <3>2
  <2>4. LeftOK'
    BY <1>0, <1>new, <2>1, <2>2, <2>3 DEF LeftOK
  <2>5. IdsOK'
    <3>1. st' = st
      BY <1>new DEF st
    <3> QED BY <1>0, <2>1, <2>3, <3>1, IdsKnown DEF IdsOK
  <2> QED BY <1>00, <2>2, <2>3, <2>4, <2>5
<1>15. CASE IocOrder
  <2>1. PICK qty \in 0..Head(tick.left) :
          /\ Executed(qty)
          /\ IF qty > 0 THEN Sent(NewId(1), qty) ELSE UNCHANGED messages
          /\ \/ Goto("loop", "filled") /\ UNCHANGED tick
             \/ Goto("loop", "pend") /\ tick' = [tick EXCEPT !.id = NewId(1)]
    BY <1>15 DEF IocOrder
  <2>2. /\ at.loop = "order" /\ Config /\ UNCHANGED <<live, objects, fill>> /\ Free(1) /\ tick.id = 0
    BY <1>15, <1>id DEF IocOrder
  <2>3. qty \in Nat /\ NewId(1) \in 1..MaxOrders
    BY <1>head, <2>2, FreeIds
  <2>4. AmtOK
    BY <1>0, <2>1, <2>2, <2>3, TickOrder
  <2>5. MessagesOK
    BY <1>0, <2>1, <2>3, MessageSent
  <2>6. CASE Goto("loop", "filled") /\ UNCHANGED tick
    <3>1. AtOK /\ at'.loop = "filled"
      BY <1>0, <2>6, LoopGoes DEF LoopPlaces
    <3> QED BY <1>all, <1>tick, <1>fill, <1>objects, <1>left, <1>same, <2>2, <2>4, <2>5, <2>6, <3>1
  <2>7. CASE Goto("loop", "pend") /\ tick' = [tick EXCEPT !.id = NewId(1)]
    BY <1>all, <1>fill, <1>objects, <1>new, <2>2, <2>4, <2>5, <2>7
  <2> QED BY <2>1, <2>6, <2>7
<1>16. CASE PostOnlyOrder
  <2> DEFINE o == [kind |-> "entry", id |-> NewId(1), side |-> tick.side, qty |-> Head(tick.left)]
  <2>1. /\ at.loop = "order" /\ Config /\ UNCHANGED <<amt, objects, fill, messages>> /\ Free(1)
        /\ live' = live \cup {o}
    BY <1>16 DEF PostOnlyOrder
  <2>2. o \in Orders
    <3>1. tick.side \in {-1, 1}
      BY <1>0 DEF TickLocals
    <3>2. NewId(1) \in 1..MaxOrders
      BY <2>1, FreeIds
    <3> QED BY <1>head, <2>1, <3>1, <3>2 DEF Orders, Kinds
  <2> HIDE DEF o
  <2>3. AmtOK
    BY <1>0, <2>1, <2>2
  <2>4. CASE SliceDone
    BY <1>all, <1>fill, <1>objects, <1>messages, <1>same, <1>slice, <2>1, <2>3, <2>4
  <2>5. CASE Goto("loop", "pend") /\ tick' = [tick EXCEPT !.id = NewId(1)]
    BY <1>all, <1>fill, <1>objects, <1>messages, <1>new, <2>1, <2>3, <2>5
  <2> QED BY <1>16, <2>4, <2>5 DEF PostOnlyOrder
<1>17. CASE SetPending
  <2> DEFINE mine == objects[tick.state]
             s == [mine EXCEPT !.pending = tick.id]
  <2>1. /\ at.loop = "pend" /\ SliceDone /\ Config /\ UNCHANGED <<amt, live, fill, messages>>
        /\ Update(tick.state, s)
    BY <1>17 DEF SetPending
  <2>2. mine \in OrderStates /\ tick.id \in OrderIds
    BY <1>0, <1>00 DEF TickLocals
  <2>3. s \in OrderStates /\ s.pending = tick.id /\ s.sl = mine.sl
    BY <2>2 DEF OrderStates
  <2> HIDE DEF s
  <2>4. /\ objects' \in [0..MaxStarts[mode] -> OrderStates] /\ objects'[tick.state] = s
        /\ \A j \in 0..MaxStarts[mode] \ {tick.state} : objects'[j] = objects[j]
    BY <1>0, <1>00, <2>1, <2>3, StateUpdated
  <2>5. ObjectsOK
    BY <1>00, <2>4
  <2>6. IdsOK'
    <3>1. tick'.id = 0 /\ current' = current
      BY <1>slice, <2>1
    <3>2. CASE tick.state = current
      BY <1>0, <2>3, <2>4, <3>1, <3>2 DEF IdsOK, st
    <3>3. CASE tick.state # current
      BY <1>0, <1>00, <2>4, <3>1, <3>3 DEF IdsOK, st
    <3> QED BY <3>2, <3>3
  <2> QED BY <1>all, <1>amt, <1>fill, <1>messages, <1>slice, <2>1, <2>5, <2>6
\* _on_fill, on either thread.
<1>thread. ASSUME NEW t \in Threads, NEW l \in {"filled", "old", "stop", "return"}, Goto(t, l),
                  at[t] \in {"filled", "old", "stop", "return"}, UNCHANGED tick
           PROVE  AtOK /\ LeftOK'
  <2>1. AtOK /\ at'[t] = l /\ \A u \in Threads \ {t} : at'[u] = at[u]
    BY <1>0, <1>thread, ThreadGoes
  <2>2. CASE t = "loop"
    BY <1>id, <1>left, <1>thread, <2>1, <2>2
  <2>3. CASE t = "ws"
    <3>1. at'.loop = at.loop
      BY <2>1, <2>3 DEF Threads
    <3> QED BY <1>stays, <1>thread, <2>1, <3>1
  <2> QED BY <2>1, <2>2, <2>3 DEF Threads
<1>18. ASSUME NEW t \in Threads, FillUnread(t) PROVE RunnerShape'
  BY <1>18, <1>all, <1>amt, <1>tick, <1>fill, <1>objects, <1>messages, <1>same, <1>thread
  DEF FillUnread
<1>19. ASSUME NEW t \in Threads, ReadFill(t) PROVE RunnerShape'
  <2> DEFINE f == [fill[t] EXCEPT !.side = Sign(amt), !.qty = Size(amt), !.state = current]
             s == [st EXCEPT !.tp1_done = FALSE, !.tp2_done = FALSE]
  <2>1. /\ at[t] = "filled" /\ amt # 0 /\ Goto(t, "old") /\ Config
        /\ UNCHANGED <<amt, live, tick, messages>>
        /\ fill' = [fill EXCEPT ![t] = f] /\ Update(current, s)
    BY <1>19 DEF ReadFill
  <2>2. f \in FillLocals /\ f.state = current /\ f.caller = fill[t].caller
    <3>1. Sign(amt) \in {-1, 1} /\ Size(amt) \in Nat
      BY <1>0, <2>1, SignedSizes
    <3> QED BY <1>0, <3>1 DEF FillLocals
  <2>3. /\ s \in OrderStates /\ s.pending = st.pending /\ s.sl = st.sl
        /\ s.tp1 = st.tp1 /\ s.tp2 = st.tp2
    BY <1>00 DEF OrderStates
  <2> HIDE DEF f, s
  <2>4. FillOK
    BY <1>0, <1>00, <2>1, <2>2
  <2>5. /\ ObjectsOK /\ objects'[current] = s
    BY <1>0, <1>00, <2>1, <2>3, StateUpdated
  <2>6. IdsOK'
    BY <1>ids, <2>1, <2>3, <2>5 DEF st
  <2> QED BY <1>all, <1>amt, <1>tick, <1>messages, <1>thread, <2>1, <2>4, <2>5, <2>6
<1>20. ASSUME NEW t \in Threads, CancelOld(t) PROVE RunnerShape'
  <2>1. /\ at[t] = "old" /\ Goto(t, "stop") /\ Config /\ UNCHANGED <<amt, tick, fill, messages>>
        /\ CancelBrackets(fill[t].state, TRUE)
    BY <1>20 DEF CancelOld
  <2>2. /\ live' \subseteq live /\ ObjectsOK /\ IdsOK'
    BY <1>00, <1>cancels, <2>1
  <2> QED BY <1>0, <1>all, <1>tick, <1>fill, <1>messages, <1>thread, <2>1, <2>2
\* A bracket that is noted has an id that is nobody's.
<1>noted. ASSUME UNCHANGED <<tick, current>>, st'.pending = st.pending,
                 st'.sl = st.sl \/ st'.sl \notin KnownIds,
                 st'.tp1 = st.tp1 \/ st'.tp1 \notin KnownIds,
                 st'.tp2 = st.tp2 \/ st'.tp2 \notin KnownIds
          PROVE  IdsOK'
  BY <1>0, <1>noted, IdsKnown DEF IdsOK
<1>21. ASSUME NEW t \in Threads, PlaceBrackets(t) PROVE RunnerShape'
  <2>0. PICK first \in Nat, rest \in Nat : BracketsPlaced(t, first, rest)
    <3>1. fill[t].qty \in Nat
      BY <1>0 DEF FillLocals
    <3>2. PICK first \in 0..fill[t].qty : \E rest \in 0..(fill[t].qty - first) : BracketsPlaced(t, first, rest)
      BY <1>21 DEF PlaceBrackets
    <3> QED BY <3>1, <3>2
  <2> DEFINE mine == objects[fill[t].state]
             tp1  == [kind |-> "tp1", id |-> NewId(2), side |-> fill[t].side, qty |-> first]
             tp2  == [kind |-> "tp2", id |-> NewId(3), side |-> fill[t].side, qty |-> rest]
             both == {o \in {tp1, tp2} : o.qty > 0}
             protects == {NewStop(fill[t].side, 0), NewStop(fill[t].side, fill[t].qty)}
  <2>1. PICK stop \in SUBSET protects, targetsPlaced \in SUBSET both :
          /\ live' = live \cup stop \cup targetsPlaced
          /\ Update(fill[t].state,
                    [mine EXCEPT !.sl  = IF stop = {} THEN mine.sl ELSE NewId(1),
                                 !.tp1 = IF tp1 \in targetsPlaced THEN tp1.id ELSE mine.tp1,
                                 !.tp2 = IF tp2 \in targetsPlaced THEN tp2.id ELSE mine.tp2])
    BY <1>0, <1>00, <2>0 DEF BracketsPlaced, OrderStates, Stops
  <2>2. /\ at[t] = "stop" /\ Free(3) /\ Goto(t, "return") /\ Config
        /\ UNCHANGED <<amt, tick, fill, messages>>
    BY <1>21 DEF PlaceBrackets
  <2>3. /\ NewId(1) \in 1..MaxOrders \ KnownIds /\ NewId(2) \in 1..MaxOrders \ KnownIds
        /\ NewId(3) \in 1..MaxOrders \ KnownIds
    BY <2>2, FreeIds
  <2>4. fill[t].side \in {-1, 1} /\ fill[t].qty \in Nat /\ first \in Nat /\ rest \in Nat
    BY <1>0 DEF FillLocals
  <2>5. protects \subseteq Orders /\ tp1 \in Orders /\ tp2 \in Orders /\ tp1.id = NewId(2) /\ tp2.id = NewId(3)
    <3> QED BY <2>3, <2>4 DEF Orders, Kinds, NewStop
  <2> DEFINE a == IF stop = {} THEN mine.sl ELSE NewId(1)
             b == IF tp1 \in targetsPlaced THEN tp1.id ELSE mine.tp1
             c == IF tp2 \in targetsPlaced THEN tp2.id ELSE mine.tp2
             s == [mine EXCEPT !.sl = a, !.tp1 = b, !.tp2 = c]
  <2>6. mine \in OrderStates
    BY <1>0, <1>00
  <2>7. /\ a \in OrderIds /\ b \in OrderIds /\ c \in OrderIds
        /\ a = mine.sl \/ a \notin KnownIds
        /\ b = mine.tp1 \/ b \notin KnownIds
        /\ c = mine.tp2 \/ c \notin KnownIds
    <3> HIDE DEF tp1, tp2, mine
    <3> QED BY <1>0, <2>3, <2>5, <2>6 DEF OrderIds, OrderStates
  <2>8. AmtOK
    <3> HIDE DEF protects, tp1, tp2
    <3> QED BY <1>0, <2>1, <2>2, <2>5
  <2>9. Update(fill[t].state, s)
    BY <2>1
  <2> HIDE DEF a, b, c
  <2>10. /\ s \in OrderStates /\ s.pending = mine.pending /\ s.sl = a /\ s.tp1 = b /\ s.tp2 = c
    BY <2>6, <2>7 DEF OrderStates
  <2> HIDE DEF s
  <2>11. /\ objects' \in [0..MaxStarts[mode] -> OrderStates] /\ objects'[fill[t].state] = s
         /\ \A j \in 0..MaxStarts[mode] \ {fill[t].state} : objects'[j] = objects[j]
    BY <1>0, <1>00, <2>2, <2>9, <2>10, StateUpdated
  <2>12. ObjectsOK
    BY <1>00, <2>11
  <2>13. IdsOK'
    <3>1. CASE fill[t].state = current
      BY <1>noted, <2>2, <2>7, <2>10, <2>11, <3>1 DEF st
    <3>2. CASE fill[t].state # current
      BY <1>00, <1>noted, <2>2, <2>11, <3>2 DEF st
    <3> QED BY <3>1, <3>2
  <2> QED BY <1>all, <1>tick, <1>fill, <1>messages, <1>thread, <2>2, <2>8, <2>12, <2>13
<1>22. CASE FillReturns
  <2>1. /\ at.loop = "return" /\ tick.id = 0 /\ Config /\ UNCHANGED <<amt, live, objects, messages>>
        /\ fill' = [fill EXCEPT !["loop"] = NoFill]
        /\ IF tick.left = <<>> THEN Goto("loop", "out") /\ UNCHANGED tick ELSE SliceDone
    BY <1>22, <1>id DEF FillReturns
  <2>2. FillOK
    BY <1>nofill, <2>1 DEF Threads
  <2>3. CASE tick.left = <<>>
    <3>1. AtOK /\ at'.loop = "out"
      BY <1>0, <2>1, <2>3, LoopGoes DEF LoopPlaces
    <3> QED BY <1>all, <1>amt, <1>tick, <1>objects, <1>messages, <1>left, <1>same, <2>1, <2>2, <2>3, <3>1
  <2>4. CASE tick.left # <<>>
    <3>1. AtOK /\ TickOK /\ tick'.id = 0 /\ LeftOK'
      BY <1>0, <1>00, <2>1, <2>4, SliceTaken DEF LeftOK
    <3> QED BY <1>all, <1>amt, <1>objects, <1>messages, <1>same, <2>1, <2>2, <3>1
  <2> QED BY <2>3, <2>4
\* The stream thread is done with a message.
<1>idle. ASSUME NEW l \in WsPlaces, Goto("ws", l), UNCHANGED tick
         PROVE  AtOK /\ LeftOK'
  BY <1>0, <1>idle, <1>stays, WsGoes
<1>23. CASE PendingDone
  <2> DEFINE mine == objects[fill["ws"].caller]
             s == [mine EXCEPT !.pending = 0]
  <2>1. /\ Goto("ws", "idle") /\ Config /\ UNCHANGED <<amt, live, tick, messages>>
        /\ fill' = [fill EXCEPT !["ws"] = NoFill]
        /\ Update(fill["ws"].caller, s)
    BY <1>23 DEF PendingDone
  <2>2. "ws" \in Threads /\ mine \in OrderStates
    BY <1>0, <1>00 DEF Threads
  <2>3. s \in OrderStates /\ s.pending = 0 /\ s.sl = mine.sl /\ s.tp1 = mine.tp1 /\ s.tp2 = mine.tp2
    BY <1>0, <2>2 DEF OrderStates
  <2> HIDE DEF s
  <2>4. /\ objects' \in [0..MaxStarts[mode] -> OrderStates] /\ objects'[fill["ws"].caller] = s
        /\ \A j \in 0..MaxStarts[mode] \ {fill["ws"].caller} : objects'[j] = objects[j]
    BY <1>0, <1>00, <2>1, <2>2, <2>3, StateUpdated
  <2>5. ObjectsOK
    BY <1>00, <2>2, <2>4
  <2>6. IdsOK'
    BY <1>00, <1>ids, <2>1, <2>2, <2>3, <2>4 DEF st
  <2>7. FillOK
    BY <1>nofill, <2>1, <2>2
  <2>8. AtOK /\ LeftOK'
    BY <1>idle, <2>1 DEF WsPlaces
  <2> QED BY <1>all, <1>amt, <1>tick, <1>messages, <2>1, <2>5, <2>6, <2>7, <2>8
<1>24. CASE AttachBrackets
  <2>1. /\ at.loop = "attach" /\ tick.id = 0 /\ Goto("loop", "filled") /\ Config
        /\ UNCHANGED <<amt, live, objects, tick, fill, messages>>
    BY <1>24, <1>id DEF AttachBrackets
  <2>2. AtOK /\ at'.loop = "filled"
    BY <1>0, <2>1, LoopGoes DEF LoopPlaces
  <2> QED BY <1>all, <1>amt, <1>tick, <1>fill, <1>objects, <1>messages, <1>left, <1>same, <2>1, <2>2
<1>25. CASE CloseOutsider
  <2>1. /\ at.loop \in {"out", "attach"} /\ tick.id = 0 /\ Config
        /\ UNCHANGED <<amt, live, objects, fill, messages>>
        /\ \/ Goto("loop", "cancel") /\ tick' = [tick EXCEPT !.state = current, !.then = "head"]
           \/ Goto("loop", "head") /\ tick' = NoTick
    BY <1>25, <1>id DEF CloseOutsider
  <2>2. CASE Goto("loop", "cancel") /\ tick' = [tick EXCEPT !.state = current, !.then = "head"]
    <3>1. AtOK /\ at'.loop = "cancel"
      BY <1>0, <2>2, LoopGoes DEF LoopPlaces
    <3>2. TickOK /\ tick'.id = 0 /\ tick'.then = "head"
      <4>1. ASSUME NEW x \in TickLocals
            PROVE  LET y == [x EXCEPT !.state = current, !.then = "head"] IN
                   y \in TickLocals /\ y.id = x.id /\ y.state = current /\ y.then = "head"
        BY <1>0 DEF TickLocals
      <4>2. tick' \in TickLocals /\ tick'.id = tick.id /\ tick'.state = current /\ tick'.then = "head"
        BY <1>0, <2>2, <4>1
      <4> QED BY <1>0, <2>1, <4>2
    <3>3. LeftOK'
      BY <3>1, <3>2 DEF LeftOK
    <3> QED BY <1>all, <1>amt, <1>fill, <1>objects, <1>messages, <1>same, <2>1, <3>1, <3>2, <3>3
  <2>3. CASE Goto("loop", "head") /\ tick' = NoTick
    <3>1. AtOK /\ at'.loop = "head"
      BY <1>0, <2>3, LoopGoes DEF LoopPlaces
    <3> QED BY <1>00, <1>000, <1>all, <1>amt, <1>fill, <1>objects, <1>messages, <1>left, <1>same,
               <2>1, <2>3, <3>1
  <2> QED BY <2>1, <2>2, <2>3
<1>taken. ASSUME NEW l \in {"filled", "breakeven", "sweep", "idle"}, TakesMessage(l), messages # <<>>
          PROVE  /\ AtOK /\ LeftOK' /\ FillOK /\ MessagesOK /\ AmtOK /\ Config /\ TickOK
                 /\ UNCHANGED <<current, tick>>
  <2> DEFINE f == IF l = "idle" THEN NoFill ELSE [NoFill EXCEPT !.caller = current, !.id = Heard]
  <2>1. /\ Goto("ws", l) /\ Config /\ UNCHANGED <<amt, live, tick>> /\ messages' = Tail(messages)
        /\ fill' = [fill EXCEPT !["ws"] = f]
    BY <1>taken DEF TakesMessage
  <2>2. MessagesOK /\ Heard \in 1..MaxOrders
    BY <1>0, <1>taken, <2>1, MessageTaken
  <2>3. ASSUME NEW x \in FillLocals
        PROVE  LET y == [x EXCEPT !.caller = current, !.id = Heard] IN
               y \in FillLocals /\ y.state = x.state /\ y.caller = current
    <3>1. current \in Nat /\ Heard \in OrderIds
      BY <1>0, <2>2 DEF OrderIds
    <3> HIDE DEF Heard
    <3> QED BY <3>1 DEF FillLocals
  <2>4. f \in FillLocals /\ f.state <= current /\ f.caller <= current
    <3>1. [NoFill EXCEPT !.caller = current, !.id = Heard] \in FillLocals
      BY <1>000, <2>3
    <3>2. [NoFill EXCEPT !.caller = current, !.id = Heard].state = 0
      BY <1>000, <2>3
    <3>3. [NoFill EXCEPT !.caller = current, !.id = Heard].caller = current
      BY <1>000, <2>3
    <3> QED BY <1>0, <1>000, <3>1, <3>2, <3>3
  <2> HIDE DEF f
  <2>5. FillOK
    BY <1>0, <1>00, <2>1, <2>4
  <2> QED BY <1>amt, <1>tick, <1>idle, <2>1, <2>2, <2>5 DEF WsPlaces
<1>26. CASE PendingFilled \/ SlTriggered \/ NotOurs
  <2>1. UNCHANGED objects /\ messages # <<>> /\ \E l \in {"filled", "sweep", "idle"} : TakesMessage(l)
    BY <1>26 DEF PendingFilled, SlTriggered, NotOurs
  <2> QED BY <1>all, <1>objects, <1>same, <1>taken, <2>1
<1>27. CASE Tp1Filled \/ Tp2Filled
  <2> DEFINE s == [st EXCEPT !.tp1_done = TRUE]
             r == [st EXCEPT !.tp2_done = TRUE]
  <2>1. /\ messages # <<>> /\ \E l \in {"breakeven", "sweep", "idle"} : TakesMessage(l)
        /\ Update(current, s) \/ Update(current, r)
    BY <1>27 DEF Tp1Filled, Tp2Filled
  <2>2. /\ s \in OrderStates /\ s.pending = st.pending /\ s.sl = st.sl
        /\ s.tp1 = st.tp1 /\ s.tp2 = st.tp2
    BY <1>00 DEF OrderStates
  <2>3. /\ r \in OrderStates /\ r.pending = st.pending /\ r.sl = st.sl
        /\ r.tp1 = st.tp1 /\ r.tp2 = st.tp2
    BY <1>00 DEF OrderStates
  <2> HIDE DEF s, r
  <2>4. Config /\ UNCHANGED <<current, tick>>
    BY <1>taken, <2>1
  <2>5. ObjectsOK /\ (objects'[current] = s \/ objects'[current] = r)
    BY <1>0, <1>00, <2>1, <2>2, <2>3, <2>4, StateUpdated
  <2>6. IdsOK'
    BY <1>ids, <2>2, <2>3, <2>4, <2>5 DEF st
  <2> QED BY <1>all, <1>taken, <2>1, <2>5, <2>6
<1>28. CASE SweepBrackets
  <2>1. /\ Goto("ws", "idle") /\ Config /\ UNCHANGED <<amt, tick, messages>>
        /\ fill' = [fill EXCEPT !["ws"] = NoFill] /\ CancelBrackets(fill["ws"].caller, FALSE)
        /\ fill["ws"].caller \in 0..MaxStarts[mode] /\ fill["ws"].caller <= current
    BY <1>00, <1>28 DEF SweepBrackets, Threads
  <2>2. /\ live' \subseteq live /\ ObjectsOK /\ IdsOK'
    BY <1>00, <1>cancels, <2>1
  <2>3. FillOK
    BY <1>nofill, <2>1 DEF Threads
  <2> QED BY <1>0, <1>all, <1>tick, <1>messages, <1>idle, <2>1, <2>2, <2>3 DEF WsPlaces
<1>29. CASE BreakevenCancels
  <2>1. /\ Goto("ws", "raise") /\ Config /\ UNCHANGED <<amt, objects, tick, messages>>
        /\ live' \subseteq live
    BY <1>29 DEF BreakevenCancels
  <2>2. PICK side \in {fill["ws"].side, Sign(amt)} :
          /\ fill' = [fill EXCEPT !["ws"] = [fill["ws"] EXCEPT !.side = side]]
          /\ side = Sign(amt) => amt # 0 \/ side = fill["ws"].side
    BY <1>0, <1>29 DEF BreakevenCancels
  <2>3. side \in {-1, 1} /\ fill["ws"] \in FillLocals
    <3>1. fill["ws"] \in FillLocals /\ fill["ws"].side \in {-1, 1}
      BY <1>0 DEF FillLocals, Threads
    <3>2. amt # 0 => Sign(amt) \in {-1, 1}
      BY <1>0, SignedSizes
    <3> QED BY <2>2, <3>1, <3>2
  <2> DEFINE f == [fill["ws"] EXCEPT !.side = side]
  <2>4. f \in FillLocals /\ f.state = fill["ws"].state /\ f.caller = fill["ws"].caller
    BY <2>3 DEF FillLocals
  <2> HIDE DEF f
  <2>5. FillOK
    <3>1. fill' = [fill EXCEPT !["ws"] = f]
      BY <2>2 DEF f
    <3> QED BY <1>0, <1>00, <2>4, <3>1
  <2> QED BY <1>0, <1>all, <1>tick, <1>objects, <1>messages, <1>same, <1>idle, <2>1, <2>5 DEF WsPlaces
<1>30. CASE BreakevenStop
  <2> DEFINE mine  == objects[fill["ws"].caller]
             again == [kind |-> "tp2", id |-> NewId(2), side |-> fill["ws"].side, qty |-> Size(amt)]
             protects == {NewStop(fill["ws"].side, 0), NewStop(fill["ws"].side, Size(amt))}
  <2>1. PICK stop \in SUBSET protects, tp2 \in SUBSET {again} :
          /\ live' = live \cup stop \cup tp2
          /\ Update(fill["ws"].caller,
                    [mine EXCEPT !.sl = IF stop = {} THEN mine.sl ELSE NewId(1),
                                 !.tp2 = IF tp2 = {} THEN mine.tp2 ELSE NewId(2), !.priced = TRUE])
    BY <1>0, <1>00, <1>30 DEF BreakevenStop, OrderStates, Stops
  <2>2. /\ Free(2) /\ Goto("ws", "idle") /\ Config /\ UNCHANGED <<amt, tick, messages>>
        /\ fill' = [fill EXCEPT !["ws"] = NoFill]
        /\ fill["ws"].caller \in 0..MaxStarts[mode] /\ fill["ws"].caller <= current
    BY <1>00, <1>30 DEF BreakevenStop, Threads
  <2>3. NewId(1) \in 1..MaxOrders \ KnownIds /\ NewId(2) \in 1..MaxOrders \ KnownIds
    BY <2>2, FreeIds
  <2>4. fill["ws"].side \in {-1, 1} /\ Size(amt) \in Nat
    BY <1>0, SignedSizes DEF FillLocals, Threads
  <2>5. protects \subseteq Orders /\ again \in Orders
    BY <2>3, <2>4 DEF Orders, Kinds, NewStop
  <2> DEFINE a == IF stop = {} THEN mine.sl ELSE NewId(1)
             c == IF tp2 = {} THEN mine.tp2 ELSE NewId(2)
             s == [mine EXCEPT !.sl = a, !.tp2 = c, !.priced = TRUE]
  <2>6. mine \in OrderStates
    BY <1>0, <2>2
  <2>7. /\ a \in OrderIds /\ c \in OrderIds
        /\ a = mine.sl \/ a \notin KnownIds
        /\ c = mine.tp2 \/ c \notin KnownIds
    <3> HIDE DEF mine
    <3> QED BY <1>0, <2>3, <2>6 DEF OrderIds, OrderStates
  <2>8. AmtOK
    <3> HIDE DEF protects, again
    <3> QED BY <1>0, <2>1, <2>2, <2>5
  <2>9. Update(fill["ws"].caller, s)
    BY <2>1
  <2> HIDE DEF a, c
  <2>10. s \in OrderStates /\ s.pending = mine.pending /\ s.sl = a /\ s.tp1 = mine.tp1 /\ s.tp2 = c
    BY <2>6, <2>7 DEF OrderStates
  <2> HIDE DEF s
  <2>11. /\ objects' \in [0..MaxStarts[mode] -> OrderStates] /\ objects'[fill["ws"].caller] = s
         /\ \A j \in 0..MaxStarts[mode] \ {fill["ws"].caller} : objects'[j] = objects[j]
    BY <1>0, <2>2, <2>9, <2>10, StateUpdated
  <2>12. ObjectsOK
    BY <1>00, <2>2, <2>11
  <2>13. IdsOK'
    <3>1. CASE fill["ws"].caller = current
      BY <1>noted, <2>2, <2>7, <2>10, <2>11, <3>1 DEF st
    <3>2. CASE fill["ws"].caller # current
      BY <1>00, <1>noted, <2>2, <2>11, <3>2 DEF st
    <3> QED BY <3>1, <3>2
  <2>14. FillOK
    BY <1>nofill, <2>2 DEF Threads
  <2> QED BY <1>all, <1>tick, <1>messages, <1>idle, <2>2, <2>8, <2>12, <2>13, <2>14 DEF WsPlaces
<1>31. CASE UNCHANGED runnerVars
  <2>1. Config /\ UNCHANGED <<amt, live, at, objects, tick, fill, messages>>
    BY <1>31 DEF runnerVars
  <2> QED BY <1>0, <1>all, <1>amt, <1>tick, <1>fill, <1>objects, <1>messages, <1>stays, <1>same, <2>1
<1> QED
  BY <1>1, <1>2, <1>3, <1>4, <1>5, <1>6, <1>7, <1>8, <1>9, <1>10, <1>11, <1>12, <1>13, <1>14, <1>15,
     <1>16, <1>17, <1>18, <1>19, <1>20, <1>21, <1>22, <1>23, <1>24, <1>25, <1>26, <1>27, <1>28,
     <1>29, <1>30, <1>31 DEF RunnerNext

\* A step that leaves the position without a stop leaves a thread that covers it, a
\* fill that will be heard, or a cause.
LEMMA NakedIsHeardStep ==
  ASSUME RunnerShape, RunnerShape', NakedIsHeard, [RunnerNext]_runnerVars
  PROVE  NakedIsHeard'
<1> USE DEF unchangedConfig, unchangedThread, exchangeVars
<1>0. /\ RunnerTypeOK /\ StatesOK /\ LeftOK /\ IdsOK /\ RunnerTypeOK'
      /\ amt \in Int /\ live \subseteq Orders /\ amt' \in Int
      /\ objects \in [0..MaxStarts[mode] -> OrderStates]
      /\ tick \in TickLocals /\ fill \in [Threads -> FillLocals] /\ messages \in Messages
      /\ 0 \in OrderIds /\ MaxOrders \in Nat
  BY LegacyAssumption DEF RunnerShape, RunnerTypeOK, OrderIds
<1>00. /\ MaxStarts[mode] \in Nat /\ current \in 0..MaxStarts[mode] /\ st \in OrderStates
       /\ tick.state \in 0..MaxStarts[mode]
       /\ \A t \in Threads : /\ fill[t].state \in 0..MaxStarts[mode]
                             /\ fill[t].caller \in 0..MaxStarts[mode]
  BY <1>0, StatesHeld
<1>id. at.loop # "pend" <=> tick.id = 0
  BY <1>0 DEF LeftOK
\* What a step has to keep while the position is without a stop.
<1>keep. ASSUME Naked' => /\ Naked
                          /\ Covering => Covering'
                          /\ PendingHeard => PendingHeard'
                          /\ TickHeard => TickHeard' \/ PendingHeard'
         PROVE  NakedIsHeard'
  BY <1>keep DEF NakedIsHeard
<1>noted. ASSUME gaps' # {} PROVE NakedIsHeard'
  BY <1>noted DEF NakedIsHeard, Naked
<1>closed. ASSUME amt' = 0 PROVE NakedIsHeard'
  BY <1>closed DEF NakedIsHeard, Naked
<1>covers. ASSUME Covering' PROVE NakedIsHeard'
  BY <1>covers DEF NakedIsHeard
<1>calm. ASSUME UNCHANGED amt, \A o \in live : o.kind = "sl" => o \in live', gaps' = {} => gaps = {}
         PROVE  Naked' => Naked
  BY <1>calm, StopsKept DEF Naked
<1>heard. ASSUME UNCHANGED messages, tick.id # 0 => tick'.id = tick.id
          PROVE  TickHeard => TickHeard'
  BY <1>heard DEF TickHeard, Hears
<1>pending. ASSUME UNCHANGED messages, st'.pending = st.pending
            PROVE  PendingHeard => PendingHeard'
  BY <1>pending DEF PendingHeard, Hears
<1>st. UNCHANGED <<objects, current>> => st' = st
  BY DEF st
\* A thread that was not covering goes on.
<1>loop. ASSUME NEW l \in LoopPlaces, Goto("loop", l), at.loop \notin {"filled", "old", "stop", "close"}
         PROVE  Covering => Covering'
  BY <1>0, <1>loop, LoopGoes DEF Covering
<1>ws. ASSUME NEW l \in WsPlaces, Goto("ws", l), at.ws \notin {"filled", "old", "stop", "raise"}
       PROVE  Covering => Covering'
  BY <1>0, <1>ws, WsGoes DEF Covering
\* The tick goes on, and nothing else changes that matters here.
<1>ticks. ASSUME UNCHANGED <<amt, live, gaps, objects, current, messages>>,
                 \E l \in LoopPlaces : Goto("loop", l),
                 at.loop \notin {"filled", "old", "stop", "close", "pend"}
          PROVE  NakedIsHeard'
  <2>1. Covering => Covering'
    BY <1>loop, <1>ticks
  <2>2. tick.id = 0
    BY <1>id, <1>ticks
  <2>3. Naked' => Naked
    BY <1>calm, <1>ticks
  <2>4. (PendingHeard => PendingHeard') /\ (TickHeard => TickHeard')
    BY <1>heard, <1>pending, <1>st, <1>ticks, <2>2
  <2> QED BY <1>keep, <2>1, <2>3, <2>4
<1>1. CASE Start
  BY <1>1, <1>ticks DEF Start, LoopPlaces
<1>2. CASE Stop
  <2>1. CASE messages # <<>>
    BY <1>2, <1>noted, <2>1 DEF Stop
  <2>2. CASE messages = <<>>
    <3>1. ~PendingHeard /\ ~TickHeard
      BY <2>2 DEF PendingHeard, TickHeard, Hears
    <3>2. Covering => Covering'
      BY <1>2 DEF Stop, Covering
    <3>3. Naked' => Naked
      BY <1>2, <1>calm, <2>2 DEF Stop
    <3> QED BY <1>keep, <3>1, <3>2, <3>3
  <2> QED BY <2>1, <2>2
<1>3. CASE LoseMessage
  BY <1>3, <1>noted DEF LoseMessage
<1>4. ASSUME NEW o \in live, BracketFires(o) PROVE NakedIsHeard'
  <2>1. o.id \in 1..MaxOrders /\ UNCHANGED <<at, objects, current, tick>> /\ Fires(o) /\ Sent(o.id, 0)
    BY <1>0, <1>4 DEF BracketFires, Orders
  <2>2. \A i : Hears(i) => Hears(i)'
    BY <1>0, <2>1, MessageSent
  <2>3. CASE amt' # 0
    <3>1. /\ amt # 0 /\ Sign(amt') = Sign(amt)
          /\ gaps' = {} => gaps = {} /\ \A p \in live : p.kind = "sl" => p \in live'
      BY <1>0, <2>1, <2>3, FiredKeepsSide
    <3>2. Naked' => Naked
      BY <3>1, StopsKept DEF Naked
    <3>3. PendingHeard => PendingHeard'
      BY <1>st, <2>1, <2>2 DEF PendingHeard, Hears
    <3>4. TickHeard => TickHeard'
      BY <2>1, <2>2 DEF TickHeard, Hears
    <3>5. Covering => Covering'
      BY <2>1 DEF Covering
    <3> QED BY <1>keep, <3>2, <3>3, <3>4, <3>5
  <2> QED BY <1>closed, <2>3
<1>5. ASSUME NEW o \in live, NEW qty \in 1..Full, PendingFills(o, qty) PROVE NakedIsHeard'
  <2>1. o.id \in 1..MaxOrders /\ o.id # 0 /\ qty \in Nat
    BY <1>0 DEF Orders
  <2>2. /\ Sent(o.id, qty) /\ UNCHANGED <<objects, current, tick, stream>>
        /\ gaps' = gaps \cup Unheard("lostFill")
                     \cup IF o.id \in {st.pending, tick.id} THEN {} ELSE {"forgotten"}
    BY <1>5 DEF PendingFills
  <2>3. CASE ~stream \/ o.id \notin {st.pending, tick.id}
    BY <1>noted, <2>2, <2>3 DEF Unheard
  <2>4. CASE stream /\ o.id \in {st.pending, tick.id}
    <3>1. \E n \in DOMAIN messages' : messages'[n].id = o.id
      BY <1>0, <2>1, <2>2, <2>4, MessageSent DEF Hears
    <3>2. st' = st /\ tick' = tick
      BY <1>st, <2>2
    <3>3. PendingHeard' \/ TickHeard'
      BY <2>1, <2>4, <3>1, <3>2 DEF PendingHeard, TickHeard, Hears
    <3> QED BY <3>3 DEF NakedIsHeard
  <2> QED BY <2>3, <2>4
<1>6. CASE KillSwitch \/ LoopEnds
  BY <1>6, <1>ticks DEF KillSwitch, LoopEnds, LoopPlaces
<1>7. CASE ExecTick
  <2>1. \E l \in {"head", "attach", "preflight"} : Goto("loop", l)
    BY <1>7 DEF ExecTick
  <2> QED BY <1>7, <1>ticks, <2>1 DEF ExecTick, LoopPlaces
<1>8. CASE Preflight
  <2>1. \E l \in {"attach", "delta", "stale"} : Goto("loop", l)
    BY <1>8 DEF Preflight
  <2> QED BY <1>8, <1>ticks, <2>1 DEF Preflight, LoopPlaces
<1>9. CASE CancelStale
  <2> DEFINE mine == objects[tick.state]
             s == [mine EXCEPT !.pending = 0]
  <2>1. /\ at.loop = "stale" /\ Goto("loop", "delta") /\ UNCHANGED <<amt, mode, current, tick, messages>>
        /\ gaps' = {} => gaps = {} /\ ~Hears(mine.pending)
        /\ Update(tick.state, s)
    BY <1>9 DEF CancelStale, Hears
  <2>2. \A o \in live : o.kind = "sl" => o \in live'
    BY <1>9 DEF CancelStale
  <2>3. Covering => Covering'
    BY <1>loop, <2>1 DEF LoopPlaces
  <2>4. Naked' => Naked
    BY <1>calm, <2>1, <2>2
  <2>5. TickHeard => TickHeard'
    BY <1>heard, <2>1
  <2>6. ASSUME Naked' PROVE PendingHeard => PendingHeard'
    <3>1. ~Hears(mine.pending)
      BY <2>1, <2>6 DEF Naked
    <3>2. CASE tick.state = current
      BY <3>1, <3>2 DEF PendingHeard, st
    <3>3. CASE tick.state # current
      <4>1. s \in OrderStates
        BY <1>0, <1>00 DEF OrderStates
      <4> HIDE DEF s
      <4>2. st' = st
        BY <1>0, <1>00, <2>1, <3>3, <4>1, StateUpdated DEF st
      <4> QED BY <1>pending, <2>1, <4>2
    <3> QED BY <3>2, <3>3
  <2> QED BY <1>keep, <2>3, <2>4, <2>5, <2>6
<1>10. CASE Delta
  <2>1. \E l \in {"attach", "cancel", "order"} : Goto("loop", l)
    BY <1>10 DEF Delta
  <2>2. at.loop = "delta" /\ UNCHANGED <<amt, live, gaps, objects, current, messages>>
    BY <1>10 DEF Delta
  <2> QED BY <1>ticks, <2>1, <2>2 DEF LoopPlaces
<1>11. CASE CloseCancels
  <2>1. at'.loop = "close"
    BY <1>0, <1>11, LoopGoes DEF CloseCancels, LoopPlaces
  <2> QED BY <1>covers, <2>1 DEF Covering
<1>12. CASE CloseOrder
  BY <1>12, <1>closed, <1>noted DEF CloseOrder
<1>slice. ASSUME SliceDone PROVE \E l \in LoopPlaces : Goto("loop", l)
  BY <1>slice DEF SliceDone, LoopPlaces
<1>13. CASE OrderRefused
  BY <1>13, <1>slice, <1>ticks DEF OrderRefused
<1>filled. ASSUME Goto("loop", "filled") PROVE NakedIsHeard'
  <2>1. at'.loop = "filled"
    BY <1>0, <1>filled, LoopGoes DEF LoopPlaces
  <2> QED BY <1>covers, <2>1 DEF Covering
<1>14. CASE MarketOrder
  <2>1. Goto("loop", "filled") \/ gaps' = gaps \cup {"lost"}
    BY <1>14 DEF MarketOrder
  <2> QED BY <1>filled, <1>noted, <2>1
<1>15. CASE IocOrder
  <2>1. PICK qty \in 0..Head(tick.left) :
          /\ Executed(qty)
          /\ IF qty > 0 THEN Sent(NewId(1), qty) ELSE UNCHANGED messages
          /\ \/ Goto("loop", "filled")
             \/ /\ Goto("loop", "pend") /\ tick' = [tick EXCEPT !.id = NewId(1)]
                /\ gaps' = IF qty > 0 THEN gaps \cup Unheard("lostFill") ELSE gaps
    BY <1>15 DEF IocOrder
  <2>2. at.loop = "order" /\ UNCHANGED <<live, objects, current, stream>> /\ Free(1) /\ tick.id = 0
    BY <1>15, <1>id DEF IocOrder
  <2>3. qty \in Nat
    <3>1. tick.left # <<>> /\ tick.left \in Seq(Nat)
      BY <1>0, <2>2 DEF LeftOK, TickLocals
    <3>2. Head(tick.left) \in Nat
      BY <3>1
    <3> QED BY <3>2
  <2>4. CASE Goto("loop", "filled")
    BY <1>filled, <2>4
  <2>5. CASE /\ Goto("loop", "pend") /\ tick' = [tick EXCEPT !.id = NewId(1)]
             /\ gaps' = IF qty > 0 THEN gaps \cup Unheard("lostFill") ELSE gaps
    <3>1. CASE qty = 0
      <4>1. amt' = amt /\ UNCHANGED <<messages, gaps>>
        <5>1. tick.side \in {-1, 1} /\ Size(amt) \in Nat
          BY <1>0, SignedSizes DEF TickLocals
        <5>2. AtMost(0, Size(amt)) = 0 /\ tick.side * 0 = 0
          BY <5>1 DEF AtMost
        <5>3. Bought(tick.side, 0) = amt /\ Reduced(tick.side, 0) = amt
          BY <1>0, <5>2 DEF Bought, Reduced
        <5> QED BY <2>1, <2>5, <3>1, <5>3 DEF Executed
      <4> QED BY <1>ticks, <2>2, <2>5, <4>1 DEF LoopPlaces
    <3>2. CASE qty > 0 /\ ~stream
      BY <1>noted, <2>5, <3>2 DEF Unheard
    <3>3. CASE qty > 0 /\ stream
      <4>1. NewId(1) \in 1..MaxOrders
        BY <2>2, FreeIds
      <4>2. tick'.id = NewId(1)
        BY <1>0, <2>5 DEF TickLocals
      <4>3. \E n \in DOMAIN messages' : messages'[n].id = NewId(1)
        <5> DEFINE i == NewId(1)
        <5>1. Sent(i, qty) /\ i \in 1..MaxOrders
          BY <2>1, <3>3, <4>1
        <5> HIDE DEF i
        <5>2. \E n \in DOMAIN messages' : messages'[n].id = i
          <6> DEFINE m == [id |-> i, qty |-> qty]
          <6>1. messages' = Append(messages, m) /\ m.id = i
            BY <3>3, <5>1 DEF Sent
          <6>2. m \in [id : 1..MaxOrders, qty : Nat]
            BY <2>3, <5>1
          <6> HIDE DEF m
          <6>3. Len(messages) + 1 \in DOMAIN messages' /\ messages'[Len(messages) + 1] = m
            BY <1>0, <6>1, <6>2 DEF Messages
          <6> QED BY <6>1, <6>3
        <5> QED BY <5>2 DEF i
      <4>4. TickHeard'
        BY <1>0, <4>1, <4>2, <4>3 DEF TickHeard, Hears
      <4> QED BY <4>4 DEF NakedIsHeard
    <3> QED BY <2>3, <3>1, <3>2, <3>3
  <2> QED BY <2>1, <2>4, <2>5
<1>16. CASE PostOnlyOrder
  <2>1. /\ at.loop = "order" /\ tick.id = 0 /\ UNCHANGED <<amt, objects, current, messages>>
        /\ gaps' = {} => gaps = {}
        /\ \A o \in live : o \in live'
    BY <1>16, <1>id DEF PostOnlyOrder
  <2>2. \E l \in LoopPlaces : Goto("loop", l)
    BY <1>16, <1>slice DEF PostOnlyOrder, LoopPlaces
  <2>3. Covering => Covering'
    BY <1>loop, <2>1, <2>2
  <2>4. (PendingHeard => PendingHeard') /\ (TickHeard => TickHeard')
    BY <1>heard, <1>pending, <1>st, <2>1
  <2>5. Naked' => Naked
    BY <1>calm, <2>1
  <2> QED BY <1>keep, <2>3, <2>4, <2>5
<1>17. CASE SetPending
  <2> DEFINE mine == objects[tick.state]
             s == [mine EXCEPT !.pending = tick.id]
  <2>1. /\ at.loop = "pend" /\ SliceDone /\ UNCHANGED <<amt, live, mode, current, messages>>
        /\ Update(tick.state, s)
        /\ gaps' = {} => gaps = {} /\ mine.pending = 0 /\ tick.state = current
    BY <1>17 DEF SetPending
  <2>2. Covering => Covering'
    BY <1>loop, <1>slice, <2>1
  <2>3. Naked' => Naked
    BY <1>calm, <2>1
  <2>4. ASSUME Naked' PROVE ~PendingHeard /\ (TickHeard => PendingHeard')
    <3>1. mine.pending = 0 /\ tick.state = current
      BY <2>1, <2>4 DEF Naked
    <3>2. s \in OrderStates /\ s.pending = tick.id
      BY <1>0, <1>00 DEF OrderStates, TickLocals
    <3> HIDE DEF s
    <3>3. st' = s
      BY <1>0, <1>00, <2>1, <3>1, <3>2, StateUpdated DEF st
    <3> QED BY <2>1, <3>1, <3>2, <3>3 DEF PendingHeard, TickHeard, Hears, st
  <2> QED BY <1>keep, <2>2, <2>3, <2>4
\* _on_fill, on either thread.
<1>thread. ASSUME NEW t \in Threads, NEW l \in {"old", "stop"}, Goto(t, l)
           PROVE  NakedIsHeard'
  <2>1. at'[t] = l
    BY <1>0, <1>thread, ThreadGoes
  <2>2. Covering'
    BY <2>1 DEF Covering, Threads
  <2> QED BY <1>covers, <2>2
<1>18. ASSUME NEW t \in Threads, FillUnread(t) PROVE NakedIsHeard'
  BY <1>18, <1>closed, <1>noted DEF FillUnread
<1>19. ASSUME NEW t \in Threads, ReadFill(t) PROVE NakedIsHeard'
  BY <1>19, <1>thread DEF ReadFill
<1>20. ASSUME NEW t \in Threads, CancelOld(t) PROVE NakedIsHeard'
  BY <1>20, <1>thread DEF CancelOld
\* What the exchange answered leaves a stop, or a cause.
<1>answered. ASSUME NEW side \in {-1, 1}, NEW qty \in Nat,
                    NEW stop \in SUBSET {NewStop(side, 0), NewStop(side, qty)}, StopAnswered(side, stop),
                    stop \subseteq live', UNCHANGED amt
             PROVE  NakedIsHeard'
  <2>1. CASE stop = {}
    BY <1>answered, <1>noted, <2>1 DEF StopAnswered
  <2>2. CASE stop # {} /\ Sign(amt) = side
    <3>1. PICK o \in stop : o \in live'
      BY <1>answered, <2>2
    <3>2. o.kind = "sl" /\ o.side = side
      BY DEF NewStop
    <3>3. Protected'
      BY <1>answered, <2>2, <3>1, <3>2 DEF Protected
    <3> QED BY <3>3 DEF NakedIsHeard, Naked
  <2>3. CASE stop # {} /\ Sign(amt) # side
    BY <1>answered, <1>closed, <1>noted, <2>3 DEF StopAnswered
  <2> QED BY <2>1, <2>2, <2>3
<1>21. ASSUME NEW t \in Threads, PlaceBrackets(t) PROVE NakedIsHeard'
  <2>1. UNCHANGED amt
    BY <1>21 DEF PlaceBrackets
  <2>2. \E stop \in SUBSET {NewStop(fill[t].side, 0), NewStop(fill[t].side, fill[t].qty)} :
          StopAnswered(fill[t].side, stop) /\ stop \subseteq live'
    BY <1>21 DEF PlaceBrackets, BracketsPlaced, Stops
  <2>3. fill[t].side \in {-1, 1} /\ fill[t].qty \in Nat
    BY <1>0 DEF FillLocals
  <2> QED BY <1>answered, <2>1, <2>2, <2>3
<1>22. CASE FillReturns
  <2>1. \E l \in LoopPlaces : Goto("loop", l)
    BY <1>22, <1>slice DEF FillReturns, LoopPlaces
  <2>2. at.loop = "return" /\ UNCHANGED <<amt, live, gaps, objects, current, messages>>
    BY <1>22 DEF FillReturns
  <2> QED BY <1>ticks, <2>1, <2>2
<1>23. CASE PendingDone
  <2> DEFINE mine == objects[fill["ws"].caller]
             s == [mine EXCEPT !.pending = 0]
  <2>1. /\ at.ws = "return" /\ Goto("ws", "idle") /\ Update(fill["ws"].caller, s)
        /\ UNCHANGED <<amt, live, mode, current, tick, messages>>
    BY <1>23 DEF PendingDone
  <2>2. gaps' = {} => gaps = {} /\ ~Hears(mine.pending)
    BY <1>23 DEF PendingDone, Hears
  <2>3. Covering => Covering'
    BY <1>ws, <2>1 DEF WsPlaces
  <2>4. Naked' => Naked
    BY <1>calm, <2>1, <2>2
  <2>5. TickHeard => TickHeard'
    BY <1>heard, <2>1
  <2>6. ASSUME Naked' PROVE PendingHeard => PendingHeard'
    <3>1. ~Hears(mine.pending)
      BY <2>2, <2>6 DEF Naked
    <3>2. CASE fill["ws"].caller = current
      BY <3>1, <3>2 DEF PendingHeard, st
    <3>3. CASE fill["ws"].caller # current
      <4>1. "ws" \in Threads /\ mine \in OrderStates
        BY <1>0, <1>00 DEF Threads
      <4>2. s \in OrderStates
        BY <1>0, <4>1 DEF OrderStates
      <4> HIDE DEF s
      <4>3. st' = st
        BY <1>0, <1>00, <2>1, <3>3, <4>1, <4>2, StateUpdated DEF st
      <4> QED BY <1>pending, <2>1, <4>3
    <3> QED BY <3>2, <3>3
  <2> QED BY <1>keep, <2>3, <2>4, <2>5, <2>6
<1>24. CASE AttachBrackets
  BY <1>24, <1>filled DEF AttachBrackets
<1>25. CASE CloseOutsider
  BY <1>25, <1>ticks DEF CloseOutsider, LoopPlaces
\* A message is taken that is not the one waited for.
<1>taken. ASSUME NEW l \in {"breakeven", "sweep", "idle"}, TakesMessage(l), messages # <<>>,
                 st'.pending = st.pending, gaps' = {} => gaps = {},
                 gaps' = {} /\ st.pending # 0 => Heard # st.pending,
                 gaps' = {} /\ tick.id # 0 => Heard # tick.id
          PROVE  NakedIsHeard'
  <2>1. /\ Goto("ws", l) /\ at.ws = "idle" /\ UNCHANGED <<amt, live, tick>> /\ messages' = Tail(messages)
    BY <1>taken DEF TakesMessage
  <2>2. \A i : Hears(i) /\ i # Heard => \E n \in DOMAIN messages' : messages'[n].id = i
    <3>1. \A i : Hears(i) /\ i # Heard => Hears(i)'
      BY <1>0, <1>taken, <2>1, MessageTaken
    <3> QED BY <3>1 DEF Hears
  <2>3. Covering => Covering'
    BY <1>ws, <2>1 DEF WsPlaces
  <2>4. Naked' => Naked /\ gaps' = {}
    BY <1>calm, <1>taken, <2>1 DEF Naked
  <2>5. ASSUME gaps' = {} PROVE (PendingHeard => PendingHeard') /\ (TickHeard => TickHeard')
    <3>1. PendingHeard => PendingHeard'
      BY <1>taken, <2>2, <2>5 DEF PendingHeard, Hears
    <3>2. TickHeard => TickHeard'
      BY <1>taken, <2>1, <2>2, <2>5 DEF TickHeard, Hears
    <3> QED BY <3>1, <3>2
  <2> QED BY <1>keep, <2>3, <2>4, <2>5
<1>26. CASE PendingFilled
  <2>1. at'.ws = "filled"
    BY <1>0, <1>26, WsGoes DEF PendingFilled, TakesMessage, WsPlaces
  <2> QED BY <1>covers, <2>1 DEF Covering
<1>27. CASE SlTriggered
  <2>1. messages # <<>> /\ TakesMessage("sweep") /\ UNCHANGED <<objects, gaps, current>> /\ Heard = st.sl
    BY <1>27 DEF SlTriggered, TakesMessage
  <2>2. (st.pending # 0 => Heard # st.pending) /\ (tick.id # 0 => Heard # tick.id)
    BY <1>0, <2>1 DEF IdsOK
  <2> QED BY <1>st, <1>taken, <2>1, <2>2
<1>28. CASE NotOurs
  <2>1. /\ messages # <<>> /\ TakesMessage("idle") /\ UNCHANGED <<objects, current>>
        /\ Heard # st.pending
        /\ gaps' = IF at.loop = "pend" /\ tick.id = Heard THEN gaps \cup {"early"} ELSE gaps
    BY <1>28 DEF NotOurs, TakesMessage
  <2>2. gaps' = {} /\ tick.id # 0 => Heard # tick.id
    BY <1>id, <2>1
  <2> QED BY <1>st, <1>taken, <2>1, <2>2
<1>29. CASE Tp1Filled \/ Tp2Filled
  <2> DEFINE s == [st EXCEPT !.tp1_done = TRUE]
             r == [st EXCEPT !.tp2_done = TRUE]
  <2>1. /\ messages # <<>> /\ \E l \in {"breakeven", "sweep", "idle"} : TakesMessage(l)
        /\ Update(current, s) \/ Update(current, r)
        /\ Heard # st.pending /\ Heard \in {st.tp1, st.tp2} /\ UNCHANGED <<mode, current, gaps>>
    BY <1>29 DEF Tp1Filled, Tp2Filled, TakesMessage
  <2>2. s \in OrderStates /\ s.pending = st.pending /\ r \in OrderStates /\ r.pending = st.pending
    BY <1>00 DEF OrderStates
  <2> HIDE DEF s, r
  <2>3. objects'[current] = s \/ objects'[current] = r
    BY <1>0, <1>00, <2>1, <2>2, StateUpdated
  <2>4. st'.pending = st.pending
    BY <2>1, <2>2, <2>3 DEF st
  <2>5. tick.id # 0 => Heard # tick.id
    BY <1>0, <2>1 DEF IdsOK
  <2> QED BY <1>taken, <2>1, <2>4, <2>5
<1>30. CASE SweepBrackets
  BY <1>30, <1>closed, <1>noted DEF SweepBrackets
<1>31. CASE BreakevenCancels
  <2>1. at'.ws = "raise"
    BY <1>0, <1>31, WsGoes DEF BreakevenCancels, WsPlaces
  <2> QED BY <1>covers, <2>1 DEF Covering
<1>32. CASE BreakevenStop
  <2>1. UNCHANGED amt
    BY <1>32 DEF BreakevenStop
  <2>2. \E stop \in SUBSET {NewStop(fill.ws.side, 0), NewStop(fill.ws.side, Size(amt))} :
          StopAnswered(fill.ws.side, stop) /\ stop \subseteq live'
    BY <1>32 DEF BreakevenStop, Stops
  <2>3. fill.ws.side \in {-1, 1} /\ Size(amt) \in Nat
    BY <1>0, SignedSizes DEF FillLocals, Threads
  <2> QED BY <1>answered, <2>1, <2>2, <2>3
<1>33. CASE UNCHANGED runnerVars
  <2>1. UNCHANGED <<amt, live, gaps, at, objects, current, tick, messages>>
    BY <1>33 DEF runnerVars
  <2>2. (PendingHeard => PendingHeard') /\ (TickHeard => TickHeard')
    BY <1>heard, <1>pending, <1>st, <2>1
  <2>3. (Covering => Covering') /\ (Naked' => Naked)
    BY <1>calm, <2>1 DEF Covering
  <2> QED BY <1>keep, <2>2, <2>3
<1> QED
  BY <1>1, <1>2, <1>3, <1>4, <1>5, <1>6, <1>7, <1>8, <1>9, <1>10, <1>11, <1>12, <1>13, <1>14, <1>15,
     <1>16, <1>17, <1>18, <1>19, <1>20, <1>21, <1>22, <1>23, <1>24, <1>25, <1>26, <1>27, <1>28,
     <1>29, <1>30, <1>31, <1>32, <1>33 DEF RunnerNext

\* A step of another engine is none of the runner.
LEMMA RunnerSteps ==
  [LegacyNext]_legacyVars =>
    /\ engine' = engine
    /\ engine = "runner" => [RunnerNext]_runnerVars
<1> SUFFICES ASSUME [LegacyNext]_legacyVars
             PROVE  /\ engine' = engine
                    /\ engine = "runner" => [RunnerNext]_runnerVars
  OBVIOUS
<1>1. CASE RunnerStep
  BY <1>1 DEF RunnerStep
<1>2. CASE AutopilotStep
  BY <1>2 DEF AutopilotStep
<1>3. CASE ModularStep
  BY <1>3 DEF ModularStep
<1>4. CASE PlannerStep
  BY <1>4 DEF PlannerStep
<1>5. CASE UNCHANGED legacyVars
  BY <1>5 DEF legacyVars, runnerVars
<1> QED BY <1>1, <1>2, <1>3, <1>4, <1>5 DEF LegacyNext

\* Nothing is held, and no fill on its way, at the start.
LEMMA RunnerBegins == RunnerInit => RunnerInv
<1> SUFFICES ASSUME RunnerInit PROVE RunnerInv
  OBVIOUS
<1>1. /\ amt = 0 /\ live = {} /\ at = [loop |-> "off", ws |-> "idle"] /\ running = FALSE
      /\ mode \in OrderModes /\ objects = [i \in 0..MaxStarts[mode] |-> FreshState] /\ current = 0
      /\ tick = NoTick /\ fill = [t \in Threads |-> NoFill] /\ messages = <<>> /\ starts = 0
  BY DEF RunnerInit, ExchangeInit
<1>2. MaxStarts[mode] \in Nat /\ 0 \in OrderIds
  BY <1>1, RunnerAssumption, LegacyAssumption DEF OrderIds
<1>3. /\ NoTick \in TickLocals /\ NoTick.id = 0 /\ NoTick.state = 0
      /\ NoFill \in FillLocals /\ NoFill.state = 0 /\ NoFill.caller = 0
      /\ FreshState \in OrderStates /\ FreshState.pending = 0
  <2>1. << >> \in Seq(Nat)
    OBVIOUS
  <2> QED BY <1>2, <2>1 DEF NoTick, NoFill, FreshState, TickLocals, FillLocals, OrderStates
<1>4. at.loop = "off" /\ at.ws = "idle" /\ at \in [Threads -> LoopPlaces \cup WsPlaces]
  BY <1>1 DEF Threads, LoopPlaces, WsPlaces
<1>5. << >> \in Messages
  BY DEF Messages
<1>6. st = FreshState
  BY <1>1, <1>2 DEF st
<1>7. RunnerTypeOK
  BY <1>1, <1>3, <1>4, <1>5 DEF RunnerTypeOK
<1>8. StatesOK
  BY <1>1, <1>2, <1>3 DEF StatesOK
<1>9. LeftOK /\ IdsOK
  BY <1>1, <1>3, <1>4, <1>6 DEF LeftOK, IdsOK
<1>10. NakedIsHeard
  BY <1>1 DEF NakedIsHeard, Naked
<1> QED BY <1>7, <1>8, <1>9, <1>10 DEF RunnerInv, RunnerShape

(***************************************************************************)
(* A settled position of the runner has a stop, or a cause is noted: a     *)
(* fill not heard, or heard for an order not noted any more, the two       *)
(* threads in _on_fill at once, a call that failed (ExecutionEngine.tick,  *)
(* on_ws_fill, _on_fill); for any faults, modes, sizes, number of orders   *)
(* and of starts. While the position is without a stop a thread is on its  *)
(* way to place one or to close, or the fill of the noted order is still   *)
(* to be heard.                                                            *)
(***************************************************************************)
THEOREM RunnerProtectsAlways == LegacySpec => []RunnerProtects
<1> DEFINE Inv == engine = "runner" => RunnerInv
<1>1. LegacyInit => Inv
  BY RunnerBegins DEF LegacyInit
<1>2. Inv /\ [LegacyNext]_legacyVars => Inv'
  <2> SUFFICES ASSUME Inv, [LegacyNext]_legacyVars, engine' = "runner" PROVE RunnerInv'
    OBVIOUS
  <2>1. RunnerInv /\ [RunnerNext]_runnerVars
    BY RunnerSteps
  <2>2. RunnerShape'
    BY <2>1, RunnerShapeStep DEF RunnerInv
  <2>3. NakedIsHeard'
    BY <2>1, <2>2, NakedIsHeardStep DEF RunnerInv
  <2> QED BY <2>2, <2>3 DEF RunnerInv
<1>3. Inv => RunnerProtects
  <2> SUFFICES ASSUME Inv, RunnerSettled, amt # 0, ~Protected, gaps = {} PROVE FALSE
    BY DEF RunnerProtects
  <2>1. Covering \/ PendingHeard \/ TickHeard
    BY DEF RunnerSettled, RunnerInv, NakedIsHeard, Naked
  <2>2. ~Covering /\ messages = <<>>
    BY DEF RunnerSettled, Covering
  <2> QED BY <2>1, <2>2 DEF PendingHeard, TickHeard, Hears
<1> QED BY <1>1, <1>2, <1>3, PTL DEF LegacySpec

=============================================================================
