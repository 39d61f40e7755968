--------------------------- MODULE FeedsProperties ---------------------------
(***************************************************************************)
(* What the two streams of a run promise the engine.                       *)
(***************************************************************************)
EXTENDS Feeds, FiniteSets

(***************************************************************************)
(* The market stream has the values of its data: the buffer is full from   *)
(* the start on, and the regime's counter stays below the number of votes  *)
(* that would switch it.                                                   *)
(***************************************************************************)
MarketTypeOK ==
  /\ candles \in Seq(Bar) /\ Len(candles) = IF stage = "on" THEN Buffer ELSE 0
  /\ stage \in {"sync", "start", "on"}
  /\ link \in {"off", "connect", "open", "pause"}
  /\ inbox \in BOOLEAN /\ copying \in BOOLEAN
  /\ refresh \in [pc : {"idle", "look", "write"}, rows : Seq(Bar),
                  act : {"none", "replace", "append"}, behind : BOOLEAN]
  /\ strategy \in [active : Regime \cup {"none"}, cooldown : 0..CooldownTrend]
  /\ classifier \in [regime : Regime, counter : Nat]
  /\ \A vote \in Regime \ {classifier.regime} : classifier.counter < Confirm(vote)
  /\ holding \in BOOLEAN /\ fresh \in BOOLEAN /\ gap \in BOOLEAN
  /\ verdict \in {"nothing", "enter", "exit", "switch"}

(***************************************************************************)
(* Of the bars in the buffer only the one that was forming at the start    *)
(* may be unfinished, and no close decision is taken on it: what the       *)
(* engine evaluates last is a finished bar (_sync_tail_klines_from_rest,   *)
(* "merge all but last").                                                  *)
(***************************************************************************)
DecidedOnFinishedBars ==
  /\ Cardinality({i \in DOMAIN candles : ~candles[i].final}) <= 1
  /\ copying => Newest.final

(***************************************************************************)
(* A bar is missing between two candles of the buffer only if no refresh   *)
(* that began after it had closed was completed before the next one did.   *)
(***************************************************************************)
GapsOnlyBehindFailedRefresh ==
  ~gap => \A i \in 2..Len(candles) : candles[i - 1].age - candles[i].age <= 1

(***************************************************************************)
(* A restored position is not closed by the first candle: the regime the   *)
(* sync has guessed is replaced before anything is evaluated, so that      *)
(* "Regime Switch - Close First" never applies in a fixed mode.            *)
(***************************************************************************)
NoRegimeSwitchClose == verdict # "switch"

(***************************************************************************)
(* Entries come from the path of the mode: RANGING never enters at the     *)
(* close of a candle and TRENDING never inside one, also with a restored   *)
(* regime of the other kind.                                               *)
(***************************************************************************)
EntryPathOfMode ==
  [][~holding /\ holding' => (Mode = "TRENDING") = copying]_feedVars

Lags == candles # <<>> /\ Newest.age > 2

(***************************************************************************)
(* The candles catch up with the market even if the WebSocket stays away:  *)
(* a buffer that lags more than two bars behind is refreshed.              *)
(***************************************************************************)
BufferCatchesUp == Lags ~> ~Lags

(***************************************************************************)
(* The user stream comes back after every failure but the one that turns   *)
(* it off (a RuntimeError of the handler).                                 *)
(***************************************************************************)
UserStreamReturns ==
  (user[TheRun].phase \in {"key", "connect", "pause"}) ~> (user[TheRun].phase = "open")
=============================================================================
