----------------------------- MODULE UserStream -----------------------------
(***************************************************************************)
(* The user data streams of the service: BinanceUserStream of              *)
(* backend/app/core/ws/binance_user_stream.py with the listen-key requests *)
(* of _binance_rest.py.  Every run of the service builds one stream, so    *)
(* the streams are named by the runs.                                      *)
(*                                                                         *)
(* A stream is two tasks: _run_loop creates a listen key, connects, reads, *)
(* and connects again after a pause; _keepalive_loop wakes at a fixed      *)
(* distance from the start, whatever the connection did in between, and    *)
(* extends the key that is current then.  The exchange forgets a key that  *)
(* was not extended for KeyLife: the connection stays open, and silent.    *)
(*                                                                         *)
(* Time is in ticks that divide both the keepalive interval and the life   *)
(* of a key; the reconnect delay in seconds is far below one tick.         *)
(***************************************************************************)
EXTENDS Integers

CONSTANTS
  Runs,             \* runs of the service, each with a stream of its own
  KeepaliveEvery,   \* KEEPALIVE_INTERVAL_SEC
  KeyLife,          \* how long the exchange keeps a key (external)
  MaxDelay,         \* the cap of the reconnect delay, 30 seconds
  StreamFaults      \* the failures of this stream that may happen

StreamFaultKind == {
  "key",         \* the listen key cannot be created
  "keepalive",   \* a request to extend it fails
  "disconnect",  \* the connection is refused or lost
  "handler" }    \* the engine's fill handler raises RuntimeError

ASSUME StreamAssumption ==
  /\ Runs \subseteq Nat \ {0}
  /\ KeepaliveEvery \in Nat \ {0}
  /\ KeyLife \in Nat \ {0}
  /\ MaxDelay \in Nat \ {0}
  /\ StreamFaults \subseteq StreamFaultKind

VARIABLE user    \* the stream of every run

(***************************************************************************)
(* on: _running; phase: where _run_loop is; key: _listen_key is not None;  *)
(* age: ticks since the exchange last extended the key; due: ticks until   *)
(* the keepalive loop wakes; delay: the local variable of _run_loop.       *)
(***************************************************************************)
Phase  == {"off", "key", "connect", "open", "pause", "ended"}
Flag   == {TRUE, FALSE}
Stream == [on : Flag, phase : Phase, key : Flag, age : 0..KeyLife,
           due : 0..KeepaliveEvery, delay : 1..MaxDelay]
NoStream == [on |-> FALSE, phase |-> "off", key |-> FALSE, age |-> 0, due |-> 0, delay |-> 1]

StreamFault(f) == f \in StreamFaults
Capped(n, cap) == IF n <= cap THEN n ELSE cap
Expired(r) == user[r].age = KeyLife

UserInit == user = [r \in Runs |-> NoStream]

\* start: both tasks are created, nothing is awaited.
UserStart(r) ==
  user' = [user EXCEPT ![r] = [NoStream EXCEPT !.on = TRUE, !.phase = "key",
                                               !.due = KeepaliveEvery]]

\* stop: both tasks are cancelled and the connection is closed.
UserStop(r) == user' = [user EXCEPT ![r] = NoStream]

\* A new key restarts the delay, so that only key failures make it grow.
ListenKeyCreated(r) ==
  /\ user[r].phase = "key"
  /\ user' = [user EXCEPT ![r].phase = "connect", ![r].key = TRUE,
                          ![r].age = 0, ![r].delay = 1]

ListenKeyFails(r) ==
  /\ StreamFault("key")
  /\ user[r].phase = "key"
  /\ user' = [user EXCEPT ![r].phase = "pause", ![r].delay = Capped(2 * @, MaxDelay)]

Connected(r) ==
  /\ user[r].phase = "connect"
  /\ user' = [user EXCEPT ![r].phase = "open"]

\* The key goes with the connection.
Disconnected(r) ==
  /\ StreamFault("disconnect")
  /\ user[r].phase \in {"connect", "open"}
  /\ user' = [user EXCEPT ![r].phase = "pause", ![r].key = FALSE,
                          ![r].delay = Capped(2 * @, MaxDelay)]

\* Mutant: the loop does not try again.
PauseOverEnds(r) ==
  /\ user[r].phase = "pause"
  /\ user' = [user EXCEPT ![r].phase = "ended"]

PauseOver(r) ==
  /\ user[r].phase = "pause"
  /\ user' = [user EXCEPT ![r].phase = IF user[r].on THEN "key" ELSE "ended"]

\* A RuntimeError of the handler turns _running off before it is raised; the
\* except branch around the message then leaves the loop for good.
HandlerRaises(r) ==
  /\ StreamFault("handler")
  /\ user[r].phase = "open"
  /\ ~Expired(r)
  /\ user' = [user EXCEPT ![r].phase = "ended", ![r].on = FALSE, ![r].key = FALSE]

\* Mutant: the loop extends the key only in every other round.
KeepaliveTwiceAsLate(r) ==
  /\ user[r].on
  /\ user[r].due = 0
  /\ user' = [user EXCEPT ![r].due = KeepaliveEvery,
                          ![r].age = IF user[r].key /\ ~Expired(r) /\ @ > KeepaliveEvery
                                       THEN 0 ELSE @]

\* Without a key the round is skipped; a failure is only logged.
Keepalive(r) ==
  /\ user[r].on
  /\ user[r].due = 0
  /\ \E extended \in {user[r].key /\ ~Expired(r)}
                       \cup (IF StreamFault("keepalive") THEN {FALSE} ELSE {}) :
       user' = [user EXCEPT ![r].due = KeepaliveEvery,
                            ![r].age = IF extended THEN 0 ELSE @]

\* A tick: no keepalive round that is due is left behind.
StreamClock ==
  /\ \E r \in Runs : user[r].on
  /\ \A r \in Runs : user[r].on => user[r].due > 0
  /\ user' = [r \in Runs |->
       IF user[r].on
         THEN [user[r] EXCEPT !.due = @ - 1,
                              !.age = IF user[r].key THEN Capped(@ + 1, KeyLife) ELSE @]
         ELSE user[r]]

ConnectionStep(r) ==
  ListenKeyCreated(r) \/ Connected(r) \/ PauseOver(r) \/ Keepalive(r)

UserNext ==
  \/ \E r \in Runs : ConnectionStep(r) \/ ListenKeyFails(r) \/ Disconnected(r) \/ HandlerRaises(r)
  \/ StreamClock

-----------------------------------------------------------------------------
(***************************************************************************)
(* A connection that is open hears: the rounds of the keepalive loop, at a *)
(* fixed distance from the start, never leave the key of whatever          *)
(* connection is current without an extension for as long as its life,     *)
(* however the connection was lost and made again in between.              *)
(***************************************************************************)
OpenStreamHears == \A r \in Runs : user[r].phase = "open" => user[r].age < KeyLife
=============================================================================
