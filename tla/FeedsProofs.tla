------------------------------ MODULE FeedsProofs ------------------------------
(***************************************************************************)
(* What the two streams of a run promise the engine, for any size of the   *)
(* buffer and of a refresh, any confirmation and cooldown, and with every  *)
(* failure of the streams.                                                 *)
(*                                                                         *)
(* The argument: before the start there is no candle, no connection and no *)
(* refresh, and from then on the active regime is the mode                 *)
(* (StageFollows).  A refresh carries finished bars and, unless a bar has  *)
(* closed behind it, ends with the last of them (RowsClosed).  That keeps  *)
(* the unfinished bar of the start alone (OneUnfinished) and, as long as   *)
(* every close finds the bar before it refreshed, the newest candle at     *)
(* most one close behind (Contiguous).  A key and the keepalive loop age   *)
(* at the same pace (KeysKept).                                            *)
(***************************************************************************)
EXTENDS FeedsProperties, SequenceTheorems, FiniteSetTheorems, TLAPS

\* Nothing happens before the start; after it the regime is the mode.
StageFollows ==
  /\ stage # "on" => /\ link = "off" /\ ~inbox /\ ~copying /\ refresh = NoRefresh
                     /\ fresh /\ ~gap
  /\ stage = "on" => strategy.active = Mode

\* What a refresh carries at each point of it.
RowsClosed ==
  /\ \A i \in 1..Len(refresh.rows) : refresh.rows[i].final /\ refresh.rows[i].age >= 1
  /\ refresh.rows # <<>> /\ ~refresh.behind => refresh.rows[Len(refresh.rows)].age = 1
  /\ refresh.pc = "write" => refresh.rows # <<>>

OneUnfinished ==
  /\ \A i, j \in 1..Len(candles) : ~candles[i].final /\ ~candles[j].final => i = j
  /\ copying => Newest.final

\* How old the newest candle may be when every bar was refreshed in time.
Reach == IF fresh THEN 1 ELSE 2

Contiguous ==
  ~gap /\ stage = "on" =>
    /\ \A i \in 2..Buffer : candles[i - 1].age - candles[i].age <= 1
    /\ Newest.age <= Reach
    /\ refresh.pc = "write" => /\ Head(refresh.rows).age <= Reach
                               /\ refresh.act = "replace" =>
                                    Newest.age <= Head(refresh.rows).age
    /\ refresh.pc = "look" /\ refresh.rows = <<>> /\ ~refresh.behind => Newest.age <= 1

MarketInv ==
  /\ MarketTypeOK
  /\ StageFollows
  /\ RowsClosed
  /\ OneUnfinished
  /\ Contiguous

\* The keepalive loop is due before the current key can have aged.
KeysKept ==
  \A r \in Runs : /\ user[r].phase \in {"connect", "open"} => user[r].key
                  /\ user[r].key => user[r].age + user[r].due <= KeepaliveEvery

UserInv == user \in [Runs -> Stream] /\ KeysKept

-----------------------------------------------------------------------------
(***************************************************************************)
(* The operators of the model.                                             *)
(***************************************************************************)

\* A push onto the full buffer drops the oldest candle.
LEMMA PushEffect ==
  ASSUME NEW s \in Seq(Bar), Len(s) = Buffer, NEW b \in Bar
  PROVE  /\ Push(s, b) \in Seq(Bar) /\ Len(Push(s, b)) = Buffer
         /\ Push(s, b)[Buffer] = b
         /\ \A i \in 1..(Buffer - 1) : Push(s, b)[i] = s[i + 1]
<1>1. Buffer \in Nat /\ Buffer >= 2
  BY MarketAssumption DEF MarketAssumption
<1>2. Push(s, b) = Append(Tail(s), b)
  BY <1>1 DEF Push
<1>3. Tail(s) \in Seq(Bar) /\ Len(Tail(s)) = Buffer - 1
      /\ \A i \in 1..(Buffer - 1) : Tail(s)[i] = s[i + 1]
  BY <1>1, HeadTailProperties
<1> QED
  BY <1>1, <1>2, <1>3

\* Ageing keeps the bars and their order.
LEMMA AgedEffect ==
  ASSUME NEW s \in Seq(Bar)
  PROVE  /\ Aged(s) \in Seq(Bar) /\ Len(Aged(s)) = Len(s)
         /\ \A i \in 1..Len(s) : /\ Aged(s)[i].age = Older(s[i].age)
                                 /\ Aged(s)[i].final = s[i].final
<1>1. Horizon \in Nat
  BY MarketAssumption DEF MarketAssumption
<1>2. \A i \in 1..Len(s) : s[i] \in Bar
  OBVIOUS
<1>3. \A bar \in Bar : [bar EXCEPT !.age = Older(@)] \in Bar
  BY <1>1 DEF Bar, Older
<1>4. DOMAIN s = 1..Len(s) /\ Len(s) \in Nat
  OBVIOUS
<1>5. Aged(s) = [i \in 1..Len(s) |-> [s[i] EXCEPT !.age = Older(@)]]
  BY <1>4 DEF Aged
<1>6. Aged(s) \in Seq(Bar) /\ Len(Aged(s)) = Len(s)
  BY <1>2, <1>3, <1>4, <1>5
<1>7. ASSUME NEW i \in 1..Len(s)
      PROVE  Aged(s)[i].age = Older(s[i].age) /\ Aged(s)[i].final = s[i].final
  BY <1>2, <1>5 DEF Bar
<1> QED
  BY <1>6, <1>7

\* Older keeps the order and the distance of one.
LEMMA OlderEffect ==
  ASSUME NEW a \in 0..Horizon, NEW b \in 0..Horizon
  PROVE  /\ Older(a) \in 1..Horizon /\ Older(a) <= a + 1
         /\ a - b <= 1 => Older(a) - Older(b) <= 1
         /\ a <= b => Older(a) <= Older(b)
BY MarketAssumption DEF MarketAssumption, Older

\* A vote keeps the regime's counter below what would switch it.
LEMMA ClassifyTyped ==
  ASSUME NEW c \in [regime : Regime, counter : Nat], NEW vote \in Regime,
         \A v \in Regime \ {c.regime} : c.counter < Confirm(v)
  PROVE  /\ Classify(c, vote) \in [regime : Regime, counter : Nat]
         /\ \A v \in Regime \ {Classify(c, vote).regime} :
              Classify(c, vote).counter < Confirm(v)
BY MarketAssumption DEF MarketAssumption, Classify, Confirm, Regime

LEMMA InsightTyped ==
  ASSUME NEW s \in [active : Regime \cup {"none"}, cooldown : 0..CooldownTrend]
  PROVE  /\ Insight(s) \in [active : Regime \cup {"none"}, cooldown : 0..CooldownTrend]
         /\ Insight(s).active = Mode
BY MarketAssumption DEF MarketAssumption, Insight, Regime

LEMMA EvaluateTyped ==
  ASSUME NEW s \in [active : Regime \cup {"none"}, cooldown : 0..CooldownTrend],
         NEW held \in BOOLEAN, NEW momentum \in BOOLEAN
  PROVE  AfterEvaluate(s, held, momentum)
           \in [active : Regime \cup {"none"}, cooldown : 0..CooldownTrend]
<1>1. CooldownTrend \in Nat /\ Mode \in Regime
  BY MarketAssumption DEF MarketAssumption, Regime
<1>2. s.cooldown \in 0..CooldownTrend
  OBVIOUS
<1> QED
  BY <1>1, <1>2 DEF AfterEvaluate

-----------------------------------------------------------------------------
(***************************************************************************)
(* Steps that leave the buffer and the refresh alone.                      *)
(***************************************************************************)

bufferVars == <<candles, stage, refresh, fresh, gap>>

LEMMA BufferUntouched ==
  ASSUME MarketInv, MarketTypeOK', UNCHANGED bufferVars, copying' => copying,
         stage # "on" => link' = "off" /\ ~inbox',
         strategy'.active = Mode \/ UNCHANGED strategy
  PROVE  MarketInv'
<1> USE DEF MarketInv, bufferVars
<1>1. StageFollows'
  BY DEF StageFollows
<1>2. RowsClosed'
  BY DEF RowsClosed
<1>3. OneUnfinished'
  BY DEF OneUnfinished, Newest, Last
<1>4. Contiguous'
  BY DEF Contiguous, Reach, Newest, Last
<1> QED
  BY <1>1, <1>2, <1>3, <1>4

LEMMA PreEvaluateKeeps ==
  ASSUME MarketInv, PreEvaluate
  PROVE  MarketInv'
<1> USE DEF MarketInv
<1>1. UNCHANGED <<candles, link, inbox, copying, refresh, fresh, gap, holding, verdict>>
      /\ stage = "sync" /\ stage' = "start"
  BY DEF PreEvaluate, freshVars
<1>2. /\ classifier' \in [regime : Regime, counter : Nat]
      /\ \A v \in Regime \ {classifier'.regime} : classifier'.counter < Confirm(v)
      /\ strategy' \in [active : Regime \cup {"none"}, cooldown : 0..CooldownTrend]
  <2>1. CASE UNCHANGED <<classifier, strategy>>
    BY <2>1 DEF MarketTypeOK
  <2>2. ASSUME NEW vote \in Regime, classifier' = Classify(classifier, vote),
               strategy' = [strategy EXCEPT !.active = classifier'.regime]
        PROVE  <1>2
    <3>1. /\ classifier' \in [regime : Regime, counter : Nat]
          /\ \A v \in Regime \ {classifier'.regime} : classifier'.counter < Confirm(v)
      BY <2>2, ClassifyTyped DEF MarketTypeOK
    <3> QED
      BY <2>2, <3>1 DEF MarketTypeOK
  <2> QED
    BY <2>1, <2>2 DEF PreEvaluate
<1>3. MarketTypeOK'
  BY <1>1, <1>2 DEF MarketTypeOK
<1>4. StageFollows'
  BY <1>1 DEF StageFollows
<1>5. RowsClosed' /\ OneUnfinished'
  BY <1>1 DEF RowsClosed, OneUnfinished, Newest, Last
<1>6. Contiguous'
  BY <1>1 DEF Contiguous
<1> QED
  BY <1>3, <1>4, <1>5, <1>6

\* The connection of the market stream.
LEMMA LinkKeeps ==
  ASSUME MarketInv, MarketConnected \/ MarketDisconnected \/ MarketReconnects
  PROVE  MarketInv'
<1>1. MarketTypeOK'
  BY DEF MarketInv, MarketTypeOK, MarketConnected, MarketDisconnected, MarketReconnects,
         marketVars, strategyVars, freshVars
<1>2. UNCHANGED bufferVars /\ UNCHANGED <<copying, strategy>>
  BY DEF bufferVars, MarketConnected, MarketDisconnected, MarketReconnects,
         strategyVars, freshVars
<1>3. stage = "on"
  BY DEF MarketInv, StageFollows, MarketConnected, MarketDisconnected, MarketReconnects
<1> QED
  BY <1>1, <1>2, <1>3, BufferUntouched

LEMMA PositionClosesKeeps ==
  ASSUME MarketInv, PositionCloses
  PROVE  MarketInv'
<1>1. /\ UNCHANGED <<candles, stage, refresh, fresh, gap, copying, link, inbox>>
      /\ UNCHANGED <<strategy, classifier, verdict>> /\ holding' = FALSE
  BY DEF PositionCloses, marketVars, freshVars
<1>2. holding' \in BOOLEAN
  BY <1>1
<1>3. MarketTypeOK'
  BY <1>1, <1>2 DEF MarketInv, MarketTypeOK
<1> QED
  BY <1>1, <1>3, BufferUntouched DEF MarketInv, StageFollows, bufferVars

LEMMA FormingCandleKeeps ==
  ASSUME MarketInv, FormingCandle
  PROVE  MarketInv'
<1> USE DEF MarketInv
<1>1. UNCHANGED <<marketVars, fresh, gap>>
  BY DEF FormingCandle, freshVars
<1>2. holding' \in BOOLEAN /\ verdict' \in {"nothing", "enter", "exit", "switch"}
  BY DEF FormingCandle, MarketTypeOK
<1>3. /\ classifier' \in [regime : Regime, counter : Nat]
      /\ \A v \in Regime \ {classifier'.regime} : classifier'.counter < Confirm(v)
      /\ strategy' \in [active : Regime \cup {"none"}, cooldown : 0..CooldownTrend]
      /\ strategy'.active = Mode \/ UNCHANGED strategy
  <2>1. CASE UNCHANGED <<classifier, strategy>>
    BY <2>1 DEF MarketTypeOK
  <2>2. ASSUME NEW vote \in Regime, classifier' = Classify(classifier, vote),
               strategy' = Insight(strategy)
        PROVE  <1>3
    BY <2>2, ClassifyTyped, InsightTyped DEF MarketTypeOK
  <2> QED
    BY <2>1, <2>2 DEF FormingCandle
<1>4. MarketTypeOK'
  BY <1>1, <1>2, <1>3 DEF MarketTypeOK, marketVars
<1> QED
  BY <1>1, <1>3, <1>4, BufferUntouched DEF marketVars, bufferVars, StageFollows

\* The insight was seeded, so nothing that is active differs from the mode.
LEMMA HandOverKeeps ==
  ASSUME MarketInv, HandOver
  PROVE  MarketInv' /\ (UNCHANGED verdict \/ verdict' # "switch")
<1> USE DEF MarketInv
<1>1. /\ UNCHANGED <<candles, stage, link, inbox, refresh, fresh, gap>>
      /\ copying /\ copying' = FALSE /\ stage = "on" /\ strategy.active = Mode
  BY DEF HandOver, freshVars, StageFollows
<1>2. PICK vote \in Regime :
       \/ /\ classifier' = Classify(classifier, vote)
          /\ strategy' = Insight(strategy)
          /\ UNCHANGED <<holding, verdict>>
       \/ /\ classifier' = Classify(Classify(classifier, vote), vote)
          /\ \E momentum, exit, signal \in BOOLEAN :
               /\ verdict' = Decision(strategy, holding, momentum, exit, signal)
               /\ strategy' = Insight(AfterEvaluate(strategy, holding, momentum))
          /\ holding' = CASE verdict' = "enter" -> TRUE
                          [] verdict' \in {"switch", "exit"} -> FALSE
                          [] OTHER -> holding
  BY DEF HandOver
<1>3. /\ classifier' \in [regime : Regime, counter : Nat]
      /\ \A v \in Regime \ {classifier'.regime} : classifier'.counter < Confirm(v)
  <2>1. /\ Classify(classifier, vote) \in [regime : Regime, counter : Nat]
        /\ \A v \in Regime \ {Classify(classifier, vote).regime} :
             Classify(classifier, vote).counter < Confirm(v)
    BY ClassifyTyped DEF MarketTypeOK
  <2>2. LET c == Classify(classifier, vote) IN
          /\ Classify(c, vote) \in [regime : Regime, counter : Nat]
          /\ \A v \in Regime \ {Classify(c, vote).regime} : Classify(c, vote).counter < Confirm(v)
    BY <2>1, ClassifyTyped
  <2> QED
    BY <1>2, <2>1, <2>2
<1>4. /\ strategy' \in [active : Regime \cup {"none"}, cooldown : 0..CooldownTrend]
      /\ strategy'.active = Mode
  <2>1. CASE strategy' = Insight(strategy)
    BY <2>1, InsightTyped DEF MarketTypeOK
  <2>2. ASSUME NEW momentum \in BOOLEAN,
               strategy' = Insight(AfterEvaluate(strategy, holding, momentum))
        PROVE  <1>4
    BY <2>2, InsightTyped, EvaluateTyped DEF MarketTypeOK
  <2> QED
    BY <1>2, <2>1, <2>2
<1>5. ~Switched(strategy)
  BY <1>1 DEF Switched
<1>6. UNCHANGED verdict \/ verdict' \in {"nothing", "enter", "exit"}
  BY <1>2, <1>5 DEF Decision
<1>7. holding' \in BOOLEAN
  <2>1. CASE UNCHANGED holding
    BY <2>1 DEF MarketTypeOK
  <2>2. CASE holding' \in {TRUE, FALSE}
    BY <2>2
  <2> QED
    BY <1>2, <2>1, <2>2
<1>8. verdict' \in {"nothing", "enter", "exit", "switch"}
  BY <1>6 DEF MarketTypeOK
<1>9. copying' \in BOOLEAN
  BY <1>1
<1>10. MarketTypeOK'
  BY <1>1, <1>3, <1>4, <1>7, <1>8, <1>9 DEF MarketTypeOK
<1>11. MarketInv'
  BY <1>1, <1>4, <1>10, BufferUntouched DEF bufferVars
<1> QED
  BY <1>6, <1>11

-----------------------------------------------------------------------------
(***************************************************************************)
(* Steps that change the buffer or the refresh.                            *)
(***************************************************************************)

LEMMA StartKeeps ==
  ASSUME MarketInv, Start
  PROVE  MarketInv'
<1> USE DEF MarketInv
<1>1. Buffer \in Nat /\ Buffer >= 2 /\ Horizon \in Nat /\ Horizon >= 1
  BY MarketAssumption DEF MarketAssumption
<1>2. /\ UNCHANGED <<inbox, copying, refresh, holding, verdict, fresh, gap>>
      /\ stage = "start" /\ stage' = "on" /\ link' = "connect" /\ candles' = InitialKlines
  BY DEF Start, freshVars
<1>3. /\ classifier' \in [regime : Regime, counter : Nat]
      /\ \A v \in Regime \ {classifier'.regime} : classifier'.counter < Confirm(v)
      /\ strategy' \in [active : Regime \cup {"none"}, cooldown : 0..CooldownTrend]
      /\ strategy'.active = Mode
  BY ClassifyTyped, InsightTyped DEF Start, MarketTypeOK
<1> DEFINE Kline(i) == [age |-> IF Buffer - i < Horizon THEN Buffer - i ELSE Horizon,
                        final |-> Buffer - i > 0]
<1>4. \A i \in 1..Buffer : Kline(i) \in Bar
  BY <1>1 DEF Bar
<1>5. /\ InitialKlines \in Seq(Bar) /\ Len(InitialKlines) = Buffer
      /\ \A i \in 1..Buffer :
           /\ InitialKlines[i].age = IF Buffer - i < Horizon THEN Buffer - i ELSE Horizon
           /\ i < Buffer => InitialKlines[i].final
  <2>1. InitialKlines = [i \in 1..Buffer |-> Kline(i)]
    BY DEF InitialKlines
  <2> HIDE DEF Kline
  <2>2. InitialKlines \in Seq(Bar) /\ Len(InitialKlines) = Buffer
    BY <1>1, <1>4, <2>1
  <2>3. ASSUME NEW i \in 1..Buffer
        PROVE  /\ InitialKlines[i].age = IF Buffer - i < Horizon THEN Buffer - i ELSE Horizon
               /\ InitialKlines[i].final = (Buffer - i > 0)
    BY <2>1 DEF Kline
  <2>4. \A i \in 1..Buffer : i < Buffer => Buffer - i > 0
    BY <1>1
  <2> QED
    BY <2>2, <2>3, <2>4
<1>6. MarketTypeOK'
  BY <1>2, <1>3, <1>5 DEF MarketTypeOK
<1>7. refresh = NoRefresh /\ ~copying
  BY <1>2 DEF StageFollows
<1>8. StageFollows'
  BY <1>2, <1>3 DEF StageFollows
<1>9. RowsClosed'
  BY <1>2 DEF RowsClosed
<1>10. OneUnfinished'
  BY <1>1, <1>2, <1>5, <1>7 DEF OneUnfinished
<1>11. Contiguous'
  BY <1>1, <1>2, <1>5, <1>7 DEF Contiguous, Reach, Newest, Last, NoRefresh
<1> QED
  BY <1>6, <1>8, <1>9, <1>10, <1>11

LEMMA BarClosesKeeps ==
  ASSUME MarketInv, BarCloses
  PROVE  MarketInv'
<1> USE DEF MarketInv
<1>1. Buffer \in Nat /\ Buffer >= 2 /\ Horizon \in Nat /\ Horizon >= 1
  BY MarketAssumption DEF MarketAssumption
<1>2. /\ UNCHANGED <<stage, link, copying, strategy, classifier, holding>>
      /\ stage = "on" /\ ~copying /\ candles' = Aged(candles)
      /\ verdict' = "nothing" /\ fresh' = FALSE
      /\ gap' = (gap \/ ~fresh)
      /\ inbox' = (link = "open")
  BY DEF BarCloses
<1>3. /\ refresh'.pc = refresh.pc /\ refresh'.act = refresh.act
      /\ refresh.pc = "idle" => refresh' = refresh
      /\ refresh.pc # "idle" => refresh'.rows = Aged(refresh.rows) /\ refresh'.behind
      /\ refresh' \in [pc : {"idle", "look", "write"}, rows : Seq(Bar),
                       act : {"none", "replace", "append"}, behind : BOOLEAN]
  <2>1. refresh.rows \in Seq(Bar)
    BY DEF MarketTypeOK
  <2>2. Aged(refresh.rows) \in Seq(Bar)
    BY <2>1, AgedEffect
  <2> QED
    BY <2>2 DEF BarCloses, MarketTypeOK
<1>4. /\ candles \in Seq(Bar) /\ Len(candles) = Buffer
      /\ refresh.rows \in Seq(Bar)
  BY <1>2 DEF MarketTypeOK
<1>5. /\ candles' \in Seq(Bar) /\ Len(candles') = Buffer
      /\ \A i \in 1..Buffer : /\ candles[i].age \in 0..Horizon
                              /\ candles'[i].age = Older(candles[i].age)
                              /\ candles'[i].final = candles[i].final
  <2>1. \A i \in 1..Buffer : candles[i] \in Bar
    BY <1>4, ElementOfSeq
  <2>2. \A i \in 1..Buffer : candles[i].age \in 0..Horizon
    BY <2>1 DEF Bar
  <2> QED
    BY <1>2, <1>4, <2>2, AgedEffect
<1>6. inbox' \in BOOLEAN /\ fresh' \in BOOLEAN /\ gap' \in BOOLEAN
  BY <1>2
<1>7. MarketTypeOK'
  BY <1>2, <1>3, <1>5, <1>6 DEF MarketTypeOK
<1>8. StageFollows'
  BY <1>2 DEF StageFollows
<1>9. ASSUME refresh.pc # "idle"
      PROVE  /\ Len(refresh'.rows) = Len(refresh.rows)
             /\ \A i \in 1..Len(refresh.rows) :
                  /\ refresh.rows[i].age \in 0..Horizon
                  /\ refresh'.rows[i].age = Older(refresh.rows[i].age)
                  /\ refresh'.rows[i].final = refresh.rows[i].final
  <2>1. \A i \in 1..Len(refresh.rows) : refresh.rows[i] \in Bar
    BY <1>4, ElementOfSeq
  <2>2. \A i \in 1..Len(refresh.rows) : refresh.rows[i].age \in 0..Horizon
    BY <2>1 DEF Bar
  <2> QED
    BY <1>3, <1>4, <1>9, <2>2, AgedEffect
<1>10. RowsClosed'
  <2>1. CASE refresh.pc = "idle"
    BY <1>3, <2>1 DEF RowsClosed
  <2>2. CASE refresh.pc # "idle"
    <3>1. \A i \in 1..Len(refresh'.rows) : refresh'.rows[i].final /\ refresh'.rows[i].age >= 1
      <4> TAKE i \in 1..Len(refresh'.rows)
      <4>1. /\ i \in 1..Len(refresh.rows) /\ refresh.rows[i].age \in 0..Horizon
            /\ refresh'.rows[i].age = Older(refresh.rows[i].age)
            /\ refresh'.rows[i].final = refresh.rows[i].final
        BY <1>9, <2>2
      <4>2. Older(refresh.rows[i].age) \in 1..Horizon
        BY <4>1, OlderEffect
      <4>3. refresh.rows[i].final
        BY <4>1 DEF RowsClosed
      <4> QED
        BY <1>1, <4>1, <4>2, <4>3
    <3>2. refresh.rows # <<>> => refresh'.rows # <<>>
      BY <1>3, <1>4, <1>9, <2>2, AgedEffect, EmptySeq
    <3> QED
      BY <1>3, <2>2, <3>1, <3>2 DEF RowsClosed
  <2> QED
    BY <2>1, <2>2
<1>11. OneUnfinished'
  BY <1>2, <1>4, <1>5 DEF OneUnfinished
<1>12. Contiguous'
  <2> SUFFICES ASSUME ~gap, fresh
               PROVE  Contiguous'
    BY <1>2 DEF Contiguous
  <2>1. /\ \A i \in 2..Buffer : candles[i - 1].age - candles[i].age <= 1
        /\ candles[Buffer].age <= 1
        /\ refresh.pc = "write" => /\ Head(refresh.rows).age <= 1
                                   /\ refresh.act = "replace" =>
                                        candles[Buffer].age <= Head(refresh.rows).age
    BY <1>2, <1>4 DEF Contiguous, Reach, Newest, Last
  <2>2. \A i \in 2..Buffer : candles'[i - 1].age - candles'[i].age <= 1
    <3> TAKE i \in 2..Buffer
    <3>1. i - 1 \in 1..Buffer /\ i \in 1..Buffer
      BY <1>1
    <3> QED
      BY <1>5, <2>1, <3>1, OlderEffect
  <2>3. candles'[Buffer].age <= 2
    BY <1>1, <1>5, <2>1, OlderEffect
  <2>4. refresh.pc = "write" =>
          /\ Head(refresh'.rows).age <= 2
          /\ refresh.act = "replace" => candles'[Buffer].age <= Head(refresh'.rows).age
    <3> HAVE refresh.pc = "write"
    <3>1. Len(refresh.rows) \in Nat \ {0}
      BY <1>4, EmptySeq DEF RowsClosed
    <3>2. 1 \in 1..Len(refresh.rows)
      BY <3>1
    <3>3. /\ Head(refresh.rows) = refresh.rows[1] /\ Head(refresh'.rows) = refresh'.rows[1]
      BY <1>3, <1>4, <1>9, <3>1
    <3>4. /\ Head(refresh.rows).age \in 0..Horizon
          /\ Head(refresh'.rows).age = Older(Head(refresh.rows).age)
      BY <1>9, <3>2, <3>3
    <3>5. candles[Buffer].age \in 0..Horizon /\ candles'[Buffer].age = Older(candles[Buffer].age)
      BY <1>1, <1>5
    <3>6. Older(Head(refresh.rows).age) <= Head(refresh.rows).age + 1
      BY <3>4, OlderEffect
    <3>7. candles[Buffer].age <= Head(refresh.rows).age =>
            Older(candles[Buffer].age) <= Older(Head(refresh.rows).age)
      BY <3>4, <3>5, OlderEffect
    <3>8. Older(Head(refresh.rows).age) \in 1..Horizon
      BY <3>4, OlderEffect
    <3> QED
      BY <1>1, <2>1, <3>4, <3>5, <3>6, <3>7, <3>8
  <2> QED
    BY <1>2, <1>3, <1>5, <2>2, <2>3, <2>4 DEF Contiguous, Reach, Newest, Last
<1> QED
  BY <1>7, <1>8, <1>10, <1>11, <1>12

LEMMA ClosedCandleKeeps ==
  ASSUME MarketInv, ClosedCandle
  PROVE  MarketInv'
<1> USE DEF MarketInv
<1>1. Buffer \in Nat /\ Buffer >= 2 /\ Horizon \in Nat /\ Horizon >= 1
  BY MarketAssumption DEF MarketAssumption
<1>2. /\ UNCHANGED <<stage, link, refresh, strategy, classifier, holding, verdict, fresh, gap>>
      /\ ~copying /\ copying' = TRUE /\ inbox' = FALSE /\ stage = "on"
      /\ candles' = Push(candles, Closed(1))
  BY DEF ClosedCandle, strategyVars, freshVars, StageFollows
<1>3. candles \in Seq(Bar) /\ Len(candles) = Buffer
  BY <1>2 DEF MarketTypeOK
<1>4. Closed(1) \in Bar /\ Closed(1).age = 1 /\ Closed(1).final
  BY <1>1 DEF Closed, Bar
<1>5. /\ candles' \in Seq(Bar) /\ Len(candles') = Buffer
      /\ candles'[Buffer] = Closed(1)
      /\ \A i \in 1..(Buffer - 1) : candles'[i] = candles[i + 1]
  <2> DEFINE pushed == Push(candles, Closed(1))
  <2>1. /\ pushed \in Seq(Bar) /\ Len(pushed) = Buffer
        /\ pushed[Buffer] = Closed(1)
        /\ \A i \in 1..(Buffer - 1) : pushed[i] = candles[i + 1]
    BY <1>3, <1>4, PushEffect
  <2> QED
    BY <1>2, <2>1
<1>6. inbox' \in BOOLEAN /\ copying' \in BOOLEAN
  BY <1>2
<1>7. MarketTypeOK'
  BY <1>2, <1>5, <1>6 DEF MarketTypeOK
<1>8. StageFollows' /\ RowsClosed'
  BY <1>2 DEF StageFollows, RowsClosed
<1>9. OneUnfinished'
  <2>1. ASSUME NEW i \in 1..Buffer, NEW j \in 1..Buffer,
               ~candles'[i].final, ~candles'[j].final
        PROVE  i = j
    <3>1. i # Buffer /\ j # Buffer
      BY <1>4, <1>5, <2>1
    <3>2. /\ i + 1 \in 1..Buffer /\ j + 1 \in 1..Buffer
          /\ i \in 1..(Buffer - 1) /\ j \in 1..(Buffer - 1)
      BY <1>1, <3>1
    <3> QED
      BY <1>3, <1>5, <2>1, <3>2 DEF OneUnfinished
  <2> QED
    BY <1>4, <1>5, <2>1 DEF OneUnfinished, Newest, Last
<1>10. Contiguous'
  <2> SUFFICES ASSUME ~gap
               PROVE  Contiguous'
    BY <1>2 DEF Contiguous
  <2>1. /\ \A i \in 2..Buffer : candles[i - 1].age - candles[i].age <= 1
        /\ candles[Buffer].age <= Reach
        /\ refresh.pc = "write" => Head(refresh.rows).age <= Reach
    BY <1>2, <1>3 DEF Contiguous, Newest, Last
  <2>2. \A i \in 2..Buffer : candles'[i - 1].age - candles'[i].age <= 1
    <3> TAKE i \in 2..Buffer
    <3>1. i - 1 \in 1..(Buffer - 1) /\ (i - 1) + 1 = i /\ candles'[i - 1] = candles[i]
      BY <1>1, <1>5
    <3>2. CASE i = Buffer
      <4>1. candles[i] \in Bar
        BY <1>3, ElementOfSeq
      <4>2. candles[i].age \in 0..Horizon
        BY <4>1 DEF Bar
      <4> QED
        BY <1>1, <1>4, <1>5, <2>1, <3>1, <3>2, <4>2 DEF Reach
    <3>3. CASE i # Buffer
      <4>1. i + 1 \in 2..Buffer /\ i \in 1..(Buffer - 1) /\ (i + 1) - 1 = i
        BY <1>1, <3>3
      <4>2. candles'[i] = candles[i + 1]
        BY <1>5, <4>1
      <4>3. candles[(i + 1) - 1].age - candles[i + 1].age <= 1
        BY <2>1, <4>1
      <4> QED
        BY <3>1, <4>1, <4>2, <4>3
    <3> QED
      BY <3>2, <3>3
  <2>3. refresh.pc = "write" => Head(refresh.rows).age >= 1
    <3> HAVE refresh.pc = "write"
    <3>1. refresh.rows \in Seq(Bar) /\ Len(refresh.rows) \in Nat \ {0}
      BY EmptySeq DEF MarketTypeOK, RowsClosed
    <3>2. Head(refresh.rows) = refresh.rows[1] /\ 1 \in 1..Len(refresh.rows)
      BY <3>1
    <3> QED
      BY <3>2 DEF RowsClosed
  <2> QED
    BY <1>2, <1>4, <1>5, <2>1, <2>2, <2>3 DEF Contiguous, Reach, Newest, Last
<1> QED
  BY <1>7, <1>8, <1>9, <1>10

\* The rows of a refresh: finished bars, the last of them closed last.
LEMMA RefreshFetchedKeeps ==
  ASSUME MarketInv, RefreshFetched
  PROVE  MarketInv'
<1> USE DEF MarketInv
<1> DEFINE Fetched == [i \in 1..Rows |-> Closed(Rows + 1 - i)]
<1>1. Rows \in Nat /\ Rows >= 1 /\ Horizon \in Nat /\ Horizon > Rows + 1
  BY MarketAssumption DEF MarketAssumption
<1>2. /\ UNCHANGED <<candles, stage, link, inbox, copying>>
      /\ UNCHANGED <<strategy, classifier, holding, verdict, fresh, gap>>
      /\ stage = "on"
      /\ refresh' = [pc |-> "look", rows |-> Fetched, act |-> "none", behind |-> FALSE]
  BY DEF RefreshFetched, NoRefresh, strategyVars, freshVars
<1>3. \A i \in 1..Rows : Closed(Rows + 1 - i) \in Bar
  BY <1>1 DEF Closed, Bar
<1>4. /\ Fetched \in Seq(Bar) /\ Len(Fetched) = Rows
      /\ \A i \in 1..Rows : Fetched[i] = Closed(Rows + 1 - i)
  BY <1>1, <1>3
<1>5. \A i \in 1..Rows : Fetched[i].final /\ Fetched[i].age >= 1
  BY <1>1, <1>4 DEF Closed
<1>6. Fetched[Rows].age = 1 /\ Fetched # <<>>
  BY <1>1, <1>4 DEF Closed
<1> HIDE DEF Fetched
<1>7. refresh' \in [pc : {"idle", "look", "write"}, rows : Seq(Bar),
                   act : {"none", "replace", "append"}, behind : BOOLEAN]
  BY <1>2, <1>4
<1>8. MarketTypeOK'
  BY <1>2, <1>7 DEF MarketTypeOK
<1>9. StageFollows'
  BY <1>2 DEF StageFollows
<1>10. RowsClosed'
  BY <1>2, <1>4, <1>5, <1>6 DEF RowsClosed
<1>11. OneUnfinished'
  BY <1>2 DEF OneUnfinished, Newest, Last
<1>12. Contiguous'
  BY <1>2, <1>6 DEF Contiguous, Reach, Newest, Last
<1> QED
  BY <1>8, <1>9, <1>10, <1>11, <1>12

\* What is left of a refresh when its first row is done.
LEMMA RowsLeft ==
  ASSUME MarketInv, refresh.rows # <<>>
  PROVE  LET rows == refresh.rows IN
         /\ Head(rows) \in Bar /\ Head(rows).final /\ Head(rows).age >= 1
         /\ Tail(rows) \in Seq(Bar)
         /\ \A i \in 1..Len(Tail(rows)) : Tail(rows)[i].final /\ Tail(rows)[i].age >= 1
         /\ Tail(rows) # <<>> /\ ~refresh.behind => Tail(rows)[Len(Tail(rows))].age = 1
         /\ Tail(rows) = <<>> /\ ~refresh.behind => Head(rows).age = 1
<1> DEFINE rows == refresh.rows
<1>1. rows \in Seq(Bar) /\ Len(rows) \in Nat \ {0}
  BY EmptySeq DEF MarketInv, MarketTypeOK
<1>2. /\ Tail(rows) \in Seq(Bar) /\ Len(Tail(rows)) = Len(rows) - 1
      /\ \A i \in 1..(Len(rows) - 1) : Tail(rows)[i] = rows[i + 1]
  BY <1>1, HeadTailProperties
<1>3. Head(rows) = rows[1] /\ rows[1] \in Bar
  BY <1>1
<1>4. \A i \in 1..Len(rows) : rows[i].final /\ rows[i].age >= 1
  BY DEF MarketInv, RowsClosed
<1>5. ~refresh.behind => rows[Len(rows)].age = 1
  BY DEF MarketInv, RowsClosed
<1> HIDE DEF rows
<1>6. Head(rows).final /\ Head(rows).age >= 1
  BY <1>1, <1>3, <1>4
<1>7. ASSUME NEW i \in 1..Len(Tail(rows))
      PROVE  Tail(rows)[i].final /\ Tail(rows)[i].age >= 1
  <2>1. i \in 1..(Len(rows) - 1) /\ i + 1 \in 1..Len(rows)
    BY <1>1, <1>2
  <2> QED
    BY <1>2, <1>4, <2>1
<1>8. Tail(rows) # <<>> => Tail(rows)[Len(Tail(rows))] = rows[Len(rows)]
  <2> HAVE Tail(rows) # <<>>
  <2>1. Len(Tail(rows)) \in Nat \ {0}
    BY <1>2, EmptySeq
  <2>2. Len(rows) - 1 \in 1..(Len(rows) - 1) /\ (Len(rows) - 1) + 1 = Len(rows)
    BY <1>1, <1>2, <2>1
  <2> QED
    BY <1>2, <2>2
<1>9. Tail(rows) = <<>> => rows[Len(rows)] = Head(rows)
  <2> HAVE Tail(rows) = <<>>
  <2>1. Len(<<>>) = 0
    OBVIOUS
  <2>2. Len(Tail(rows)) = Len(<<>>)
    OBVIOUS
  <2>3. Len(rows) = 1
    BY <1>1, <1>2, <2>1, <2>2
  <2> QED
    BY <1>3, <2>3
<1> QED
  BY <1>2, <1>3, <1>5, <1>6, <1>7, <1>8, <1>9 DEF rows

\* The thread is busy only after the start.
LEMMA BusyWhenOn ==
  ASSUME MarketInv, refresh.pc # "idle"
  PROVE  /\ stage = "on" /\ candles \in Seq(Bar) /\ Len(candles) = Buffer
         /\ \A i \in 1..Buffer : candles[i].age \in 0..Horizon
         /\ Buffer \in Nat /\ Buffer >= 2 /\ Newest = candles[Buffer]
<1>1. Buffer \in Nat /\ Buffer >= 2
  BY MarketAssumption DEF MarketAssumption
<1>2. stage = "on"
  BY DEF MarketInv, StageFollows, NoRefresh
<1>3. candles \in Seq(Bar) /\ Len(candles) = Buffer
  BY <1>2 DEF MarketInv, MarketTypeOK
<1>4. \A i \in 1..Buffer : candles[i] \in Bar
  BY <1>3, ElementOfSeq
<1>5. \A i \in 1..Buffer : candles[i].age \in 0..Horizon
  BY <1>4 DEF Bar
<1> QED
  BY <1>1, <1>2, <1>3, <1>5 DEF Newest, Last

LEMMA LookAtLastKeeps ==
  ASSUME MarketInv, LookAtLast
  PROVE  MarketInv'
<1> USE DEF MarketInv
<1> DEFINE row == Head(refresh.rows)
<1>1. /\ UNCHANGED <<candles, stage, link, inbox, copying>>
      /\ UNCHANGED <<strategy, classifier, holding, verdict, fresh, gap>>
      /\ refresh.pc = "look" /\ refresh.rows # <<>>
  BY DEF LookAtLast, strategyVars, freshVars
<1>2. /\ stage = "on" /\ candles \in Seq(Bar) /\ Len(candles) = Buffer
      /\ Newest = candles[Buffer] /\ Newest.age \in 0..Horizon
  BY <1>1, BusyWhenOn
<1>3. row \in Bar /\ row.final /\ row.age >= 1 /\ row.age \in 0..Horizon
  BY <1>1, RowsLeft DEF Bar
<1>4. refresh \in [pc : {"idle", "look", "write"}, rows : Seq(Bar),
                  act : {"none", "replace", "append"}, behind : BOOLEAN]
  BY DEF MarketTypeOK
<1>5. OneUnfinished' /\ StageFollows'
  BY <1>1, <1>2 DEF OneUnfinished, StageFollows, Newest, Last
<1>6. CASE row.age > Newest.age
  <2>1. /\ refresh'.rows = Tail(refresh.rows) /\ refresh'.pc = "look"
        /\ refresh'.act = refresh.act /\ refresh'.behind = refresh.behind
        /\ refresh' \in [pc : {"idle", "look", "write"}, rows : Seq(Bar),
                        act : {"none", "replace", "append"}, behind : BOOLEAN]
    BY <1>1, <1>4, <1>6, RowsLeft DEF LookAtLast
  <2>2. MarketTypeOK'
    BY <1>1, <2>1 DEF MarketTypeOK
  <2>3. RowsClosed'
    BY <1>1, <2>1, RowsLeft DEF RowsClosed
  <2>4. Tail(refresh.rows) = <<>> /\ ~refresh.behind => Newest.age <= 1
    <3>1. Tail(refresh.rows) = <<>> /\ ~refresh.behind => row.age = 1
      BY <1>1, RowsLeft
    <3> QED
      BY <1>2, <1>3, <1>6, <3>1
  <2>5. Contiguous'
    BY <1>1, <1>2, <2>1, <2>4 DEF Contiguous, Reach, Newest, Last
  <2> QED
    BY <1>5, <2>2, <2>3, <2>5
<1>7. CASE ~(row.age > Newest.age)
  <2>1. /\ refresh'.rows = refresh.rows /\ refresh'.pc = "write"
        /\ refresh'.act = IF row.age = Newest.age THEN "replace" ELSE "append"
        /\ refresh'.behind = refresh.behind
        /\ refresh' \in [pc : {"idle", "look", "write"}, rows : Seq(Bar),
                        act : {"none", "replace", "append"}, behind : BOOLEAN]
    BY <1>1, <1>4, <1>7 DEF LookAtLast
  <2>2. MarketTypeOK'
    BY <1>1, <2>1 DEF MarketTypeOK
  <2>3. RowsClosed'
    BY <1>1, <2>1 DEF RowsClosed
  <2>4. row.age <= Newest.age /\ (refresh'.act = "replace" => row.age = Newest.age)
    BY <1>2, <1>3, <1>7, <2>1
  <2>5. ~gap => Newest.age <= Reach /\ row.age <= Reach
    BY <1>2, <1>3, <2>4 DEF Contiguous, Reach
  <2>6. Newest' = Newest /\ Reach' = Reach /\ Head(refresh'.rows) = row
    BY <1>1, <2>1 DEF Newest, Last, Reach
  <2>7. refresh'.act = "replace" => Newest.age <= row.age
    BY <1>2, <2>4
  <2> HIDE DEF row
  <2>8. Contiguous'
    BY <1>1, <1>2, <2>1, <2>5, <2>6, <2>7 DEF Contiguous
  <2> QED
    BY <1>5, <2>2, <2>3, <2>8
<1> QED
  BY <1>6, <1>7

LEMMA RefreshEndsKeeps ==
  ASSUME MarketInv, RefreshEnds
  PROVE  MarketInv'
<1> USE DEF MarketInv
<1>1. /\ UNCHANGED <<candles, stage, link, inbox, copying, holding, verdict, gap>>
      /\ refresh.pc = "look" /\ refresh.rows = <<>>
      /\ refresh' = NoRefresh
      /\ fresh' = (fresh \/ ~refresh.behind)
  BY DEF RefreshEnds
<1>2. /\ stage = "on" /\ Newest = candles[Buffer]
  BY <1>1, BusyWhenOn
<1>3. /\ classifier' \in [regime : Regime, counter : Nat]
      /\ \A v \in Regime \ {classifier'.regime} : classifier'.counter < Confirm(v)
      /\ strategy' \in [active : Regime \cup {"none"}, cooldown : 0..CooldownTrend]
      /\ strategy'.active = Mode
  BY ClassifyTyped, InsightTyped DEF RefreshEnds, MarketTypeOK
<1>4. NoRefresh \in [pc : {"idle", "look", "write"}, rows : Seq(Bar),
                    act : {"none", "replace", "append"}, behind : BOOLEAN]
  BY EmptySeq DEF NoRefresh
<1>5. fresh' \in BOOLEAN
  BY <1>1
<1>6. MarketTypeOK'
  BY <1>1, <1>3, <1>4, <1>5 DEF MarketTypeOK
<1>7. StageFollows'
  BY <1>1, <1>2, <1>3 DEF StageFollows
<1>8. RowsClosed'
  BY <1>1 DEF RowsClosed, NoRefresh
<1>9. OneUnfinished'
  BY <1>1 DEF OneUnfinished, Newest, Last
<1>10. Contiguous'
  BY <1>1, <1>2 DEF Contiguous, Reach, Newest, Last, NoRefresh
<1> QED
  BY <1>6, <1>7, <1>8, <1>9, <1>10

\* The write acts on a look that may be outdated: a candle may have been
\* appended in between, and a bar may have closed.
LEMMA MergeRowKeeps ==
  ASSUME MarketInv, MergeRow
  PROVE  MarketInv'
<1> USE DEF MarketInv
<1> DEFINE row == Head(refresh.rows)
<1>1. /\ UNCHANGED <<stage, link, inbox, copying>>
      /\ UNCHANGED <<strategy, classifier, holding, verdict, fresh, gap>>
      /\ refresh.pc = "write"
  BY DEF MergeRow, strategyVars, freshVars
<1>2. refresh.rows # <<>>
  BY <1>1 DEF RowsClosed
<1>3. /\ stage = "on" /\ candles \in Seq(Bar) /\ Len(candles) = Buffer
      /\ Buffer \in Nat /\ Buffer >= 2
      /\ \A i \in 1..Buffer : candles[i].age \in 0..Horizon
      /\ Newest = candles[Buffer]
  BY <1>1, BusyWhenOn
<1>4. /\ row \in Bar /\ row.final /\ row.age >= 1 /\ row.age \in 0..Horizon
  BY <1>2, RowsLeft DEF Bar
<1>5. /\ refresh'.pc = "look" /\ refresh'.rows = Tail(refresh.rows)
      /\ refresh'.behind = refresh.behind
      /\ refresh' \in [pc : {"idle", "look", "write"}, rows : Seq(Bar),
                      act : {"none", "replace", "append"}, behind : BOOLEAN]
  BY <1>2, RowsLeft DEF MergeRow, MarketTypeOK
<1>6. RowsClosed'
  BY <1>2, <1>5, RowsLeft DEF RowsClosed
<1>7. StageFollows'
  BY <1>1, <1>3 DEF StageFollows
<1>8. Tail(refresh.rows) = <<>> /\ ~refresh.behind => row.age <= 1
  <2>1. Tail(refresh.rows) = <<>> /\ ~refresh.behind => row.age = 1
    BY <1>2, RowsLeft
  <2> QED
    BY <2>1
<1>9. ~gap => row.age <= Reach /\ Newest.age <= Reach
  BY <1>1, <1>3 DEF Contiguous
<1> HIDE DEF row
<1>10. CASE refresh.act = "replace"
  <2>1. /\ candles' \in Seq(Bar) /\ Len(candles') = Buffer
        /\ candles'[Buffer] = row
        /\ \A i \in 1..(Buffer - 1) : candles'[i] = candles[i]
    <3>1. candles' = [candles EXCEPT ![Buffer] = row]
      BY <1>3, <1>10 DEF MergeRow, row
    <3> QED
      BY <1>3, <1>4, <3>1, ExceptSeq
  <2>2. MarketTypeOK'
    BY <1>1, <1>3, <1>5, <2>1 DEF MarketTypeOK
  <2>3. OneUnfinished'
    <3>1. ASSUME NEW i \in 1..Buffer, NEW j \in 1..Buffer,
                 ~candles'[i].final, ~candles'[j].final
          PROVE  i = j
      <4>1. i \in 1..(Buffer - 1) /\ j \in 1..(Buffer - 1)
        BY <1>3, <1>4, <2>1, <3>1
      <4> QED
        BY <1>3, <2>1, <3>1, <4>1 DEF OneUnfinished
    <3> QED
      BY <1>4, <2>1, <3>1 DEF OneUnfinished, Newest, Last
  <2>4. Contiguous'
    <3> SUFFICES ASSUME ~gap
                 PROVE  Contiguous'
      BY <1>1 DEF Contiguous
    <3>1. /\ \A i \in 2..Buffer : candles[i - 1].age - candles[i].age <= 1
          /\ candles[Buffer].age <= row.age
      BY <1>1, <1>3, <1>10 DEF Contiguous, row
    <3>2. \A i \in 2..Buffer : candles'[i - 1].age - candles'[i].age <= 1
      <4> TAKE i \in 2..Buffer
      <4>1. i - 1 \in 1..(Buffer - 1) /\ candles'[i - 1] = candles[i - 1]
        BY <1>3, <2>1
      <4>2. CASE i = Buffer
        <5>1. candles[i - 1].age \in 0..Horizon /\ candles[i].age \in 0..Horizon
          BY <1>3, <4>1
        <5>2. candles[i - 1].age - candles[i].age <= 1 /\ candles[i].age <= row.age
          BY <3>1, <4>2
        <5>3. Horizon \in Nat
          BY MarketAssumption DEF MarketAssumption
        <5>4. candles[i - 1].age - row.age <= 1
          BY <1>4, <5>1, <5>2, <5>3
        <5> QED
          BY <2>1, <4>1, <4>2, <5>4
      <4>3. CASE i # Buffer
        BY <1>3, <2>1, <3>1, <4>1, <4>3
      <4> QED
        BY <4>2, <4>3
    <3> QED
      BY <1>1, <1>5, <1>8, <1>9, <2>1, <3>2 DEF Contiguous, Reach, Newest, Last
  <2> QED
    BY <1>6, <1>7, <2>2, <2>3, <2>4
<1>11. CASE refresh.act # "replace"
  <2>1. /\ candles' \in Seq(Bar) /\ Len(candles') = Buffer
        /\ candles'[Buffer] = row
        /\ \A i \in 1..(Buffer - 1) : candles'[i] = candles[i + 1]
    <3> DEFINE pushed == Push(candles, row)
    <3>1. candles' = pushed
      BY <1>11 DEF MergeRow, row
    <3>2. /\ pushed \in Seq(Bar) /\ Len(pushed) = Buffer
          /\ pushed[Buffer] = row
          /\ \A i \in 1..(Buffer - 1) : pushed[i] = candles[i + 1]
      BY <1>3, <1>4, PushEffect
    <3> QED
      BY <3>1, <3>2
  <2>2. MarketTypeOK'
    BY <1>1, <1>3, <1>5, <2>1 DEF MarketTypeOK
  <2>3. OneUnfinished'
    <3>1. ASSUME NEW i \in 1..Buffer, NEW j \in 1..Buffer,
                 ~candles'[i].final, ~candles'[j].final
          PROVE  i = j
      <4>1. i # Buffer /\ j # Buffer
        BY <1>4, <2>1, <3>1
      <4>2. /\ i + 1 \in 1..Buffer /\ j + 1 \in 1..Buffer
            /\ i \in 1..(Buffer - 1) /\ j \in 1..(Buffer - 1)
        BY <1>3, <4>1
      <4> QED
        BY <1>3, <2>1, <3>1, <4>2 DEF OneUnfinished
    <3> QED
      BY <1>4, <2>1, <3>1 DEF OneUnfinished, Newest, Last
  <2>4. Contiguous'
    <3> SUFFICES ASSUME ~gap
                 PROVE  Contiguous'
      BY <1>1 DEF Contiguous
    <3>1. /\ \A i \in 2..Buffer : candles[i - 1].age - candles[i].age <= 1
          /\ candles[Buffer].age <= Reach
      BY <1>1, <1>3 DEF Contiguous
    <3>2. \A i \in 2..Buffer : candles'[i - 1].age - candles'[i].age <= 1
      <4> TAKE i \in 2..Buffer
      <4>1. i - 1 \in 1..(Buffer - 1) /\ (i - 1) + 1 = i /\ candles'[i - 1] = candles[i]
        BY <1>3, <2>1
      <4>2. CASE i = Buffer
        <5>1. candles[i].age \in 0..Horizon /\ Horizon \in Nat
          BY <1>3, <4>2, MarketAssumption DEF MarketAssumption
        <5>2. candles[i].age <= 2
          BY <3>1, <4>2, <5>1 DEF Reach
        <5>3. candles[i].age - row.age <= 1
          BY <1>4, <5>1, <5>2
        <5> QED
          BY <2>1, <4>1, <4>2, <5>3
      <4>3. CASE i # Buffer
        <5>1. i + 1 \in 2..Buffer /\ i \in 1..(Buffer - 1) /\ (i + 1) - 1 = i
          BY <1>3, <4>3
        <5>2. candles'[i] = candles[i + 1]
          BY <2>1, <5>1
        <5>3. candles[(i + 1) - 1].age - candles[i + 1].age <= 1
          BY <3>1, <5>1
        <5> QED
          BY <4>1, <5>1, <5>2, <5>3
      <4> QED
        BY <4>2, <4>3
    <3> QED
      BY <1>1, <1>5, <1>8, <1>9, <2>1, <3>2 DEF Contiguous, Reach, Newest, Last
  <2> QED
    BY <1>6, <1>7, <2>2, <2>3, <2>4
<1> QED
  BY <1>10, <1>11

-----------------------------------------------------------------------------
(***************************************************************************)
(* The user stream.                                                        *)
(***************************************************************************)

LEMMA StreamConstants ==
  /\ KeepaliveEvery \in Nat \ {0} /\ KeyLife \in Nat \ {0} /\ MaxDelay \in Nat \ {0}
BY StreamAssumption DEF StreamAssumption

LEMMA CappedDelay ==
  ASSUME NEW delay \in 1..MaxDelay
  PROVE  Capped(2 * delay, MaxDelay) \in 1..MaxDelay
BY StreamConstants DEF Capped

LEMMA UserStartKeeps ==
  ASSUME UserInv, UserStart(TheRun), KeepaliveEvery < KeyLife
  PROVE  UserInv'
<1> DEFINE started == [NoStream EXCEPT !.on = TRUE, !.phase = "key", !.due = KeepaliveEvery]
<1>1. started \in Stream /\ started.phase = "key" /\ ~started.key
  <2>1. NoStream \in Stream /\ ~NoStream.key
    BY StreamConstants DEF NoStream, Stream, Flag, Phase
  <2>2. KeepaliveEvery \in 0..KeepaliveEvery
    BY StreamConstants
  <2> HIDE DEF NoStream
  <2> QED
    BY <2>1, <2>2 DEF Stream, Flag, Phase
<1>2. user' = [user EXCEPT ![TheRun] = started]
  BY DEF UserStart
<1> HIDE DEF started
<1> QED
  BY <1>1, <1>2 DEF UserInv, KeysKept

\* The connection loop: a key is new, or it is the one the loop extends.
LEMMA ConnectionKeeps ==
  ASSUME UserInv, NEW r \in Runs, KeepaliveEvery < KeyLife,
         \/ ListenKeyCreated(r) \/ ListenKeyFails(r) \/ Connected(r)
         \/ Disconnected(r) \/ PauseOver(r) \/ HandlerRaises(r)
  PROVE  UserInv'
<1> USE DEF UserInv
<1>1. user[r] \in Stream
  OBVIOUS
<1>2. /\ user' \in [Runs -> Stream]
      /\ \A q \in Runs \ {r} : user'[q] = user[q]
      /\ user'[r].phase \in {"connect", "open"} => user'[r].key
      /\ user'[r].key => user'[r].age + user'[r].due <= KeepaliveEvery
  <2>1. CASE ListenKeyCreated(r)
    <3>1. 0 \in 0..KeyLife /\ 1 \in 1..MaxDelay
      BY StreamConstants
    <3>2. 0 + user[r].due <= KeepaliveEvery
      BY <1>1, StreamConstants DEF Stream
    <3>3. /\ user' \in [Runs -> Stream] /\ user'[r].key
          /\ \A q \in Runs \ {r} : user'[q] = user[q]
          /\ user'[r].age = 0 /\ user'[r].due = user[r].due
      BY <1>1, <2>1, <3>1 DEF ListenKeyCreated, Stream, Flag, Phase
    <3> QED
      BY <3>2, <3>3
  <2>2. CASE ListenKeyFails(r)
    BY <1>1, <2>2, StreamConstants, CappedDelay DEF ListenKeyFails, Stream, Flag, Phase, KeysKept
  <2>3. CASE Connected(r)
    BY <1>1, <2>3 DEF Connected, Stream, Flag, Phase, KeysKept
  <2>4. CASE Disconnected(r)
    BY <1>1, <2>4, CappedDelay DEF Disconnected, Stream, Flag, Phase
  <2>5. CASE PauseOver(r)
    BY <1>1, <2>5 DEF PauseOver, Stream, Flag, Phase, KeysKept
  <2>6. CASE HandlerRaises(r)
    BY <1>1, <2>6 DEF HandlerRaises, Stream, Flag, Phase
  <2> QED
    BY <2>1, <2>2, <2>3, <2>4, <2>5, <2>6
<1> QED
  BY <1>2 DEF KeysKept

LEMMA KeepaliveKeeps ==
  ASSUME UserInv, NEW r \in Runs, Keepalive(r),
         KeepaliveEvery < KeyLife, "keepalive" \notin StreamFaults
  PROVE  UserInv'
<1> USE DEF UserInv
<1>1. user[r] \in Stream /\ user[r].due = 0
  BY DEF Keepalive
<1>2. user[r].key => ~Expired(r)
  BY <1>1, StreamConstants DEF KeysKept, Expired, Stream, Flag
<1>3. user' = [user EXCEPT ![r].due = KeepaliveEvery, ![r].age = IF user[r].key THEN 0 ELSE @]
  BY <1>2 DEF Keepalive, StreamFault
<1>4. /\ user' \in [Runs -> Stream]
      /\ \A q \in Runs \ {r} : user'[q] = user[q]
      /\ user'[r].phase = user[r].phase /\ user'[r].key = user[r].key
      /\ user[r].key => user'[r].age + user'[r].due <= KeepaliveEvery
  <2>1. 0 \in 0..KeyLife /\ KeepaliveEvery \in 0..KeepaliveEvery
    BY StreamConstants
  <2>2. 0 + KeepaliveEvery <= KeepaliveEvery
    BY StreamConstants
  <2>3. CASE user[r].key
    <3>1. user' = [user EXCEPT ![r].due = KeepaliveEvery, ![r].age = 0]
      BY <1>3, <2>3
    <3>2. /\ user' \in [Runs -> Stream]
          /\ \A q \in Runs \ {r} : user'[q] = user[q]
          /\ user'[r].phase = user[r].phase /\ user'[r].key = user[r].key
          /\ user'[r].age = 0 /\ user'[r].due = KeepaliveEvery
      BY <1>1, <2>1, <3>1 DEF Stream
    <3> QED
      BY <2>2, <3>2
  <2>4. CASE ~user[r].key
    <3>1. user' = [user EXCEPT ![r].due = KeepaliveEvery]
      BY <1>1, <1>3, <2>4 DEF Stream
    <3> QED
      BY <1>1, <2>1, <2>4, <3>1 DEF Stream
  <2> QED
    BY <2>3, <2>4
<1> QED
  BY <1>4 DEF KeysKept

LEMMA StreamClockKeeps ==
  ASSUME UserInv, StreamClock, KeepaliveEvery < KeyLife
  PROVE  UserInv'
<1> USE DEF UserInv
<1> DEFINE Ticked(r) == IF user[r].on
                          THEN [user[r] EXCEPT !.due = @ - 1,
                                  !.age = IF user[r].key THEN Capped(@ + 1, KeyLife) ELSE @]
                          ELSE user[r]
<1>1. user' = [r \in Runs |-> Ticked(r)]
  BY DEF StreamClock
<1>2. ASSUME NEW r \in Runs
      PROVE  /\ Ticked(r) \in Stream
             /\ Ticked(r).phase = user[r].phase /\ Ticked(r).key = user[r].key
             /\ user[r].key => Ticked(r).age + Ticked(r).due <= KeepaliveEvery
  <2>1. user[r] \in Stream
    OBVIOUS
  <2>2. CASE ~user[r].on
    BY <2>1, <2>2 DEF KeysKept
  <2>3. CASE user[r].on
    <3>1. user[r].due > 0
      BY <2>3 DEF StreamClock
    <3>2. user[r].age \in 0..KeyLife /\ user[r].due \in 0..KeepaliveEvery
      BY <2>1 DEF Stream, Flag
    <3>3. user[r].due - 1 \in 0..KeepaliveEvery
      BY <3>1, <3>2, StreamConstants
    <3>4. Capped(user[r].age + 1, KeyLife) \in 0..KeyLife
      BY <3>2, StreamConstants DEF Capped
    <3>5. user[r].key => Capped(user[r].age + 1, KeyLife) + (user[r].due - 1) <= KeepaliveEvery
      BY <3>1, <3>2, StreamConstants DEF Capped, KeysKept
    <3> QED
      BY <2>1, <2>3, <3>3, <3>4, <3>5 DEF Stream, Flag
  <2> QED
    BY <2>2, <2>3
<1> HIDE DEF Ticked
<1>3. user' \in [Runs -> Stream]
  BY <1>1, <1>2
<1>4. KeysKept'
  BY <1>1, <1>2 DEF KeysKept
<1> QED
  BY <1>3, <1>4

-----------------------------------------------------------------------------
(***************************************************************************)
(* The invariants hold.                                                    *)
(***************************************************************************)

LEMMA MarketInitial ==
  ASSUME FeedsInit
  PROVE  MarketInv /\ NoRegimeSwitchClose
<1> USE DEF FeedsInit, MarketInit
<1>1. NoRefresh \in [pc : {"idle", "look", "write"}, rows : Seq(Bar),
                    act : {"none", "replace", "append"}, behind : BOOLEAN]
  BY EmptySeq DEF NoRefresh
<1>2. /\ classifier \in [regime : Regime, counter : Nat]
      /\ \A vote \in Regime \ {classifier.regime} : classifier.counter < Confirm(vote)
  BY MarketAssumption DEF MarketAssumption, Regime, Confirm
<1>3. strategy \in [active : Regime \cup {"none"}, cooldown : 0..CooldownTrend]
  BY MarketAssumption DEF MarketAssumption
<1>4. candles \in Seq(Bar) /\ Len(candles) = 0
  BY EmptySeq
<1>5. MarketTypeOK
  <2>1. inbox \in BOOLEAN /\ copying \in BOOLEAN /\ fresh \in BOOLEAN /\ gap \in BOOLEAN
    OBVIOUS
  <2>2. Len(candles) = IF stage = "on" THEN Buffer ELSE 0
    BY <1>4
  <2> QED
    BY <1>1, <1>2, <1>3, <1>4, <2>1, <2>2 DEF MarketTypeOK
<1>6. StageFollows /\ Contiguous /\ OneUnfinished
  BY <1>4 DEF StageFollows, Contiguous, OneUnfinished
<1>7. RowsClosed
  BY DEF RowsClosed, NoRefresh
<1> QED
  BY <1>5, <1>6, <1>7 DEF MarketInv, NoRegimeSwitchClose

LEMMA MarketKept ==
  ASSUME MarketInv, NoRegimeSwitchClose, [FeedsNext]_feedVars
  PROVE  MarketInv' /\ NoRegimeSwitchClose'
<1> USE DEF NoRegimeSwitchClose
<1>1. CASE StartFeeds
  BY <1>1, StartKeeps DEF StartFeeds, Start
<1>2. CASE FillHeard
  BY <1>2, PositionClosesKeeps DEF FillHeard, PositionCloses
<1>3. CASE PreEvaluate
  BY <1>3, PreEvaluateKeeps DEF PreEvaluate
<1>4. CASE BarCloses
  BY <1>4, BarClosesKeeps DEF BarCloses
<1>5. CASE MarketConnected \/ MarketDisconnected \/ MarketReconnects
  BY <1>5, LinkKeeps DEF MarketConnected, MarketDisconnected, MarketReconnects, strategyVars
<1>6. CASE ClosedCandle
  BY <1>6, ClosedCandleKeeps DEF ClosedCandle, strategyVars
<1>7. CASE HandOver
  BY <1>7, HandOverKeeps
<1>8. CASE FormingCandle
  BY <1>8, FormingCandleKeeps DEF FormingCandle
<1>9. CASE RefreshFetched
  BY <1>9, RefreshFetchedKeeps DEF RefreshFetched, strategyVars
<1>10. CASE LookAtLast
  BY <1>10, LookAtLastKeeps DEF LookAtLast, strategyVars
<1>11. CASE MergeRow
  BY <1>11, MergeRowKeeps DEF MergeRow, strategyVars
<1>12. CASE RefreshEnds
  BY <1>12, RefreshEndsKeeps DEF RefreshEnds
<1>13. CASE UNCHANGED streamVars
  <2>1. UNCHANGED <<candles, stage, link, inbox, copying, refresh, strategy, classifier,
                    holding, verdict, fresh, gap>>
    BY <1>13 DEF streamVars, marketVars, strategyVars, freshVars
  <2> QED
    BY <2>1 DEF MarketInv, MarketTypeOK, StageFollows, RowsClosed, OneUnfinished, Contiguous,
                Reach, Newest, Last
<1> QED
  BY <1>1, <1>2, <1>3, <1>4, <1>5, <1>6, <1>7, <1>8, <1>9, <1>10, <1>11, <1>12, <1>13
     DEF FeedsNext, MarketAlone, RefreshStep, feedVars

LEMMA MarketInvariant == FeedsSpec => [](MarketInv /\ NoRegimeSwitchClose)
<1>1. FeedsInit => MarketInv /\ NoRegimeSwitchClose
  BY MarketInitial
<1>2. (MarketInv /\ NoRegimeSwitchClose) /\ [FeedsNext]_feedVars
        => (MarketInv /\ NoRegimeSwitchClose)'
  BY MarketKept
<1> QED
  BY <1>1, <1>2, PTL DEF FeedsSpec

LEMMA UserKept ==
  ASSUME UserInv, [FeedsNext]_feedVars,
         KeepaliveEvery < KeyLife, "keepalive" \notin StreamFaults
  PROVE  UserInv'
<1>1. CASE StartFeeds
  BY <1>1, UserStartKeeps DEF StartFeeds
<1>2. CASE UserNext
  <2>1. ASSUME NEW r \in Runs, ConnectionStep(r) \/ ListenKeyFails(r) \/ Disconnected(r)
                                  \/ HandlerRaises(r)
        PROVE  UserInv'
    BY <2>1, ConnectionKeeps, KeepaliveKeeps DEF ConnectionStep
  <2> QED
    BY <1>2, <2>1, StreamClockKeeps DEF UserNext
<1>3. CASE UNCHANGED user
  BY <1>3 DEF UserInv, KeysKept
<1> QED
  BY <1>1, <1>2, <1>3 DEF FeedsNext, FillHeard, feedVars

-----------------------------------------------------------------------------
(***************************************************************************)
(* The market stream keeps the values of its data (the deque of candles,   *)
(* the refresh thread, StrategyEngine and RegimeClassifier).               *)
(***************************************************************************)
THEOREM MarketTyped == FeedsSpec => []MarketTypeOK
<1>1. MarketInv => MarketTypeOK
  BY DEF MarketInv
<1> QED
  BY <1>1, MarketInvariant, PTL

(***************************************************************************)
(* No close decision is taken on a bar that is still forming, whichever of *)
(* the WebSocket loop and the refresh thread (_sync_tail_klines_from_rest) *)
(* wrote the candle.                                                       *)
(***************************************************************************)
THEOREM DecisionsOnFinishedBars == FeedsSpec => []DecidedOnFinishedBars
<1>1. ASSUME MarketInv
      PROVE  DecidedOnFinishedBars
  <2> DEFINE Open == {i \in DOMAIN candles : ~candles[i].final}
  <2>1. DOMAIN candles = 1..Len(candles)
    BY <1>1 DEF MarketInv, MarketTypeOK
  <2>2. \A i, j \in Open : i = j
    BY <1>1, <2>1 DEF MarketInv, OneUnfinished
  <2>3. Cardinality(Open) <= 1
    <3>1. CASE Open = {}
      BY <3>1, FS_EmptySet
    <3>2. CASE Open # {}
      <4>1. PICK i \in Open : Open = {i}
        BY <2>2, <3>2
      <4>2. Cardinality({i}) = 1
        BY FS_Singleton
      <4> QED
        BY <4>1, <4>2
    <3> QED
      BY <3>1, <3>2
  <2> QED
    BY <1>1, <2>3 DEF DecidedOnFinishedBars, MarketInv, OneUnfinished
<1> QED
  BY <1>1, MarketInvariant, PTL

(***************************************************************************)
(* The buffer has a hole only if a bar closed before a refresh that began  *)
(* after the previous one had closed was complete: the interleavings of    *)
(* the loop's append with the thread's look and write make none.           *)
(***************************************************************************)
THEOREM GapsExplained == FeedsSpec => []GapsOnlyBehindFailedRefresh
<1>1. ASSUME MarketInv
      PROVE  GapsOnlyBehindFailedRefresh
  <2>1. CASE stage = "on"
    BY <1>1, <2>1 DEF MarketInv, MarketTypeOK, Contiguous, GapsOnlyBehindFailedRefresh
  <2>2. CASE stage # "on"
    <3>1. Len(candles) = 0
      BY <1>1, <2>2 DEF MarketInv, MarketTypeOK
    <3> QED
      BY <3>1 DEF GapsOnlyBehindFailedRefresh
  <2> QED
    BY <2>1, <2>2
<1> QED
  BY <1>1, MarketInvariant, PTL

(***************************************************************************)
(* "Regime Switch - Close First" of StrategyEngine.evaluate never applies: *)
(* whatever regime the sync of a restored position left active, the start  *)
(* has replaced it by the mode before the first evaluation.                *)
(***************************************************************************)
THEOREM NoSwitchInFixedMode == FeedsSpec => []NoRegimeSwitchClose
BY MarketInvariant, PTL

(***************************************************************************)
(* RANGING enters inside a candle and TRENDING at its close, also when the *)
(* sync had left the regime of the other kind active.                      *)
(***************************************************************************)
THEOREM EntriesFollowTheMode == FeedsSpec => EntryPathOfMode
<1>1. ASSUME MarketInv, [FeedsNext]_feedVars, ~holding, holding'
      PROVE  (Mode = "TRENDING") = copying
  <2>1. HandOver \/ FormingCandle
    BY <1>1 DEF FeedsNext, StartFeeds, FillHeard, MarketAlone, RefreshStep, feedVars, Start,
       PositionCloses, PreEvaluate, BarCloses, MarketConnected, MarketDisconnected,
       MarketReconnects, ClosedCandle, RefreshFetched, LookAtLast, MergeRow, RefreshEnds,
       streamVars, marketVars, strategyVars, freshVars
  <2>2. CASE HandOver
    <3>1. copying
      BY <2>2 DEF HandOver
    <3>2. \E momentum, exit, signal \in BOOLEAN :
            Decision(strategy, holding, momentum, exit, signal) = "enter"
      BY <1>1, <2>2 DEF HandOver
    <3>3. Mode = "TRENDING"
      BY <1>1, <3>2 DEF Decision
    <3> QED
      BY <3>1, <3>3
  <2>3. CASE FormingCandle
    <3>1. ~copying /\ stage = "on" /\ strategy.active = "RANGING"
      BY <1>1, <2>3 DEF FormingCandle, MarketInv, StageFollows
    <3>2. Mode # "TRENDING"
      BY <1>1, <3>1 DEF MarketInv, StageFollows
    <3>3. (Mode = "TRENDING") = FALSE /\ copying = FALSE
      BY <1>1, <3>1, <3>2 DEF MarketInv, MarketTypeOK
    <3> QED
      BY <3>3
  <2> QED
    BY <2>1, <2>2, <2>3
<1>2. MarketInv /\ [FeedsNext]_feedVars =>
        [~holding /\ holding' => (Mode = "TRENDING") = copying]_feedVars
  BY <1>1
<1> QED
  BY <1>2, MarketInvariant, PTL DEF FeedsSpec, EntryPathOfMode

(***************************************************************************)
(* The listen key of an open connection is alive, whenever the connection  *)
(* was lost and made again, as long as the keepalive loop (every           *)
(* KEEPALIVE_INTERVAL_SEC) wakes more often than keys expire and its       *)
(* requests are answered.                                                  *)
(***************************************************************************)
THEOREM OpenConnectionHears ==
  ASSUME KeepaliveEvery < KeyLife, "keepalive" \notin StreamFaults
  PROVE  FeedsSpec => []OpenStreamHears
<1>1. FeedsInit => UserInv
  <2>1. NoStream \in Stream /\ NoStream.phase = "off" /\ ~NoStream.key
    BY StreamConstants DEF NoStream, Stream, Flag, Phase
  <2> HIDE DEF NoStream
  <2> QED
    BY <2>1 DEF FeedsInit, UserInit, UserInv, KeysKept
<1>2. UserInv /\ [FeedsNext]_feedVars => UserInv'
  BY UserKept
<1>3. UserInv => OpenStreamHears
  <2> SUFFICES ASSUME UserInv, NEW r \in Runs, user[r].phase = "open"
               PROVE  user[r].age < KeyLife
    BY DEF OpenStreamHears
  <2>1. user[r].age \in 0..KeyLife /\ user[r].due \in 0..KeepaliveEvery
    BY DEF UserInv, Stream
  <2>2. user[r].age + user[r].due <= KeepaliveEvery
    BY DEF UserInv, KeysKept
  <2> QED
    BY <2>1, <2>2, StreamConstants
<1> QED
  BY <1>1, <1>2, <1>3, PTL DEF FeedsSpec
=============================================================================
