--------------------- MODULE ProtectiveOrdersProperties ---------------------
(***************************************************************************)
(* What BinanceExecutionClient promises about protective orders.           *)
(***************************************************************************)
EXTENDS ProtectiveOrders

Call == [op : {"none", "place", "verifyAlgo", "verifyClassic", "verifyBlind",
               "cancelAlgo", "cancelClassic"},
         qty : Nat, trigger : Nat, step : Nat, id : Nat,
         read : BOOLEAN, clean : BOOLEAN, wasLive : BOOLEAN]

Sweep  == [on : BOOLEAN, api : {"algo", "classic"}, todo : SUBSET Int, count : Nat,
           clean : BOOLEAN, from : SUBSET Int]
Result == [op : {"none", "place", "verify", "cancel", "sweep"},
           value : {"ok", "raise", "id", "true", "false"},
           id : Nat, clean : BOOLEAN, wasLive : BOOLEAN]

(***************************************************************************)
(* The variables have the values of the exchange's and the client's data.  *)
(***************************************************************************)
ClientTypeOK ==
  /\ book \in Seq(Order)
  /\ rules \in RuleSet
  /\ changes \in 0..MaxRules
  /\ cache \in [filters : RuleSet \cup {NoFilters}, age : 0..FilterTtl]
  /\ call \in Call
  /\ call.op = "place" => call.step \in 1..Len(Tiers)
  /\ sweep \in Sweep
  /\ sweep.todo \cup sweep.from \cup tracked \cup silent \subseteq Id
  /\ answer \in Result

(***************************************************************************)
(* Four tiers are tried one after the other, and each of them may have     *)
(* been carried out although its request raised.  The only live orders the *)
(* engine does not know are those: every other order that exists has been  *)
(* returned, so that nothing is left behind by a placement that failed on  *)
(* refusals alone, or that succeeded at a later tier after refusals.       *)
(***************************************************************************)
StraysOnlyBehindLostAnswers == Live \subseteq tracked \cup silent

(***************************************************************************)
(* The client never claims more than the exchange has shown it.            *)
(*                                                                         *)
(* Verifying, three attempts over two lists: True only for an order that   *)
(* was live when the call began, and False, which makes the engine place a *)
(* second order or flatten, only for an order that is not live any more,   *)
(* unless a list could not be read, lagged behind or was no list.          *)
(*                                                                         *)
(* Cancelling, by either of the two services: an order reported as         *)
(* cancelled was live and is not any more; an exception without a refusal  *)
(* or a lost answer means that it was gone already.  The report cannot be  *)
(* trusted when a status within 200..299 carried an error: cancel_order    *)
(* returns it as a success, and nothing is said of that case here.         *)
(***************************************************************************)
VerifyHonest ==
  /\ answer.value = "true" => answer.wasLive
  /\ answer.value = "false" /\ answer.clean => answer.id \notin Live

CancelHonest ==
  /\ answer.value = "ok" /\ answer.clean => answer.wasLive /\ answer.id \notin Live
  /\ answer.value = "raise" /\ answer.clean => answer.id \notin Live

ClientIsHonest ==
  /\ answer.op = "verify" => VerifyHonest
  /\ answer.op = "cancel" => CancelHonest

(***************************************************************************)
(* The sweep before an entry: when no list and no cancel failed, none of   *)
(* the orders that were live when it began, stop or take profit, algo or   *)
(* classic, is left to reduce the new position.                            *)
(***************************************************************************)
SweepLeavesNothing ==
  answer.op = "sweep" /\ answer.clean => ~answer.wasLive

(***************************************************************************)
(* Why a placement fails although nothing was refused or lost.             *)
(*                                                                         *)
(* Once its tiers are tried, only for a trigger that is off the tick of    *)
(* the exchange: a quantity rounded with filters that are missing or out   *)
(* of date is made good by the tiers that send none.                       *)
(*                                                                         *)
(* Before that, when the quantity or the trigger is rounded to 0 and no    *)
(* tier is tried at all, only for filters that are missing or out of date, *)
(* an amount no order can be made of, or a price below the tick.  So an    *)
(* out of date minimum does leave a position without its order, although   *)
(* the tiers without a quantity would have been accepted.                  *)
(***************************************************************************)
Orderable(raw) == \E q \in 1..raw : q % rules.qtyStep = 0 /\ q >= rules.qtyMin

RaisedForCause ==
  /\ call.op = "place" => call.trigger % rules.priceStep # 0
  /\ \A kind \in Kind, raw \in Quantities, price \in Triggers :
       BeginPlace(kind, raw, price) =>
         cache.filters # rules \/ ~Orderable(raw) \/ price < rules.priceStep

PlacementFailsForCause ==
  [][answer'.op = "place" /\ answer'.value = "raise" /\ answer'.clean => RaisedForCause]_vars
=============================================================================
