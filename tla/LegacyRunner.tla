---------------------------- MODULE LegacyRunner ----------------------------
(***************************************************************************)
(* EngineRunner with its ExecutionEngine and UserDataStream (_legacy): a   *)
(* loop thread that sizes and executes, a stream thread that handles       *)
(* fills, and the API, with no lock between them.  One symbol; one action  *)
(* per exchange call.  A new start waits here for the old loop thread to   *)
(* end, which the code does not (stop does not join it).                   *)
(***************************************************************************)
EXTENDS LegacyExchange, Sequences

CONSTANTS
  RunnerFaults, \* by mode, of FaultKinds
  OrderModes,   \* entry_order_mode: "MARKET", "IOC_LIMIT", "POST_ONLY_LIMIT"
  TargetSizes,  \* signed target_qty of the symbol, 0: not among the targets
  MaxStarts,    \* bound, by mode: starts of the engine
  MaxOrdered    \* bound: execution ticks, a tick in parts counting as many

ASSUME RunnerAssumption ==
  /\ \A m \in OrderModes : RunnerFaults[m] \subseteq FaultKinds /\ MaxStarts[m] \in Nat
  /\ TargetSizes \subseteq Int /\ MaxOrdered \in Nat

VARIABLES
  at,        \* where the two threads stand, by thread
  running,   \* _running, and _stop_event not set
  mode,      \* config.entry_order_mode; bound: the same at every start
  objects,   \* every OrderState there was; reset() begins a new one
  current,   \* the one in _states
  tick,      \* locals of tick
  fill,      \* locals of _on_fill and of its caller, by thread
  stream,    \* the user data stream is heard
  messages,  \* fills on their way to on_ws_fill
  starts, ordered

runnerVars == <<exchangeVars, at, running, mode, objects, current, tick, fill,
                stream, messages, starts, ordered>>

Threads == {"loop", "ws"}
FreshState == [pending |-> 0, sl |-> 0, tp1 |-> 0, tp2 |-> 0, priced |-> FALSE,
               tp1_done |-> FALSE, tp2_done |-> FALSE]
NoTick == [target |-> 0, held |-> 0, side |-> 1, left |-> <<>>, reduce |-> FALSE,
           id |-> 0, state |-> 0, then |-> "head"]
NoFill == [side |-> 1, qty |-> 0, state |-> 0, caller |-> 0, id |-> 0]

st == objects[current]

\* A thread writes to the object it holds, also when reset() has dropped it.
Update(i, s) == objects' = [objects EXCEPT ![i] = s]

Goto(t, l) == at' = [at EXCEPT ![t] = l]

RunnerInit ==
  /\ ExchangeInit
  /\ at = [loop |-> "off", ws |-> "idle"]
  /\ running = FALSE /\ mode \in OrderModes
  /\ objects = [i \in 0..MaxStarts[mode] |-> FreshState] /\ current = 0
  /\ tick = NoTick /\ fill = [t \in Threads |-> NoFill]
  /\ stream = FALSE /\ messages = <<>> /\ starts = 0 /\ ordered = 0

\* New client ids: not those of an order anyone still has to do with.
KnownIds ==
  LET Ids(s) == {s.pending, s.sl, s.tp1, s.tp2} IN
  {o.id : o \in live} \cup {messages[i].id : i \in DOMAIN messages}
    \cup (UNION {Ids(objects[i]) : i \in {current, tick.state, fill.ws.caller}})
    \cup {tick.id, fill.ws.id}

Free(n)     == Cardinality(1..MaxOrders \ KnownIds) >= n
Unused(ids) == CHOOSE i \in 1..MaxOrders : i \notin KnownIds \cup ids
NewId(n) ==
  LET first  == Unused({})
      second == Unused({first})
  IN CASE n = 1 -> first [] n = 2 -> second [] n = 3 -> Unused({first, second})

unchangedThread == <<objects, current, tick, fill>>
unchangedConfig == <<running, mode, starts, ordered>>

-----------------------------------------------------------------------------
(***************************************************************************)
(* The API.  The stream keeps the URL of the listen key it began with, and *)
(* is not begun at all when the key cannot be created.                     *)
(***************************************************************************)
Start ==
  /\ ~running /\ at.loop = "off" /\ starts < MaxStarts[mode]
  /\ running' = TRUE
  /\ stream' \in {TRUE} \cup (IF "stream" \in RunnerFaults[mode] THEN {stream} ELSE {})
  /\ Goto("loop", "head")
  /\ starts' = starts + 1
  /\ UNCHANGED <<exchangeVars, mode, ordered, unchangedThread, messages>>

\* The loop thread ends its tick, with the state of before.
Stop ==
  /\ "stop" \in RunnerFaults[mode]
  /\ running
  /\ running' = FALSE
  /\ stream' = FALSE /\ messages' = <<>>
  /\ gaps' = IF messages = <<>> THEN gaps ELSE gaps \cup {"lostFill"}
  /\ current' = starts
  /\ UNCHANGED <<amt, live, at, mode, objects, tick, fill, starts, ordered>>

\* A message that is not heard; the position it leaves is found by no one.
LoseMessage ==
  /\ "stream" \in RunnerFaults[mode] \/ ~stream
  /\ messages # <<>>
  /\ messages' = Tail(messages)
  /\ gaps' = gaps \cup {"lostFill"}
  /\ UNCHANGED <<amt, live, at, unchangedConfig, unchangedThread, stream>>

Sent(id, qty) == messages' = IF stream THEN Append(messages, [id |-> id, qty |-> qty])
                             ELSE messages
Unheard(cause) == IF stream THEN {} ELSE {cause}

BracketFires(o) ==
  /\ Fires(o)
  /\ Sent(o.id, 0)
  /\ UNCHANGED <<at, unchangedConfig, unchangedThread, stream>>

PendingFills(o, qty) ==
  /\ o \in live /\ o.kind = "entry" /\ qty \in 1..o.qty
  /\ amt' = Bought(o.side, qty)
  /\ live' = (live \ {o}) \cup
             (IF qty = o.qty THEN {} ELSE {[o EXCEPT !.qty = @ - qty]})
  /\ gaps' = gaps \cup Unheard("lostFill")
                  \cup IF o.id \in {st.pending, tick.id} THEN {} ELSE {"forgotten"}
  /\ Sent(o.id, qty)
  /\ UNCHANGED <<at, unchangedConfig, unchangedThread, stream>>

-----------------------------------------------------------------------------
(***************************************************************************)
(* _main_loop and _signal_tick.  What a signal tick sizes is read by the   *)
(* next exec tick, which takes any targets here: the new ones, or, after a *)
(* failure, the old ones, or none.  The kill switch leaves them in place,  *)
(* for the exec tick of the same turn, and the stream as it is.            *)
(***************************************************************************)
KillSwitch ==
  /\ at.loop = "head" /\ running
  /\ running' = FALSE
  /\ \E l \in {"head", "exec"} : Goto("loop", l)
  /\ UNCHANGED <<exchangeVars, mode, starts, ordered, unchangedThread, stream, messages>>

LoopEnds ==
  /\ at.loop = "head" /\ ~running
  /\ Goto("loop", "off")
  /\ UNCHANGED <<exchangeVars, unchangedConfig, unchangedThread, stream, messages>>

-----------------------------------------------------------------------------
(***************************************************************************)
(* ExecutionEngine.tick, on one reading of the positions; without it, or   *)
(* without targets, nothing is done.                                       *)
(***************************************************************************)
ExecTick ==
  /\ at.loop = "exec" \/ (at.loop = "head" /\ running)
  /\ \/ /\ Goto("loop", "head")
        /\ at.loop = "exec"
        /\ UNCHANGED <<tick, ordered>>
     \/ /\ ordered < MaxOrdered
        /\ ordered' = ordered + 1
        /\ \E target \in TargetSizes :
             /\ tick' = [NoTick EXCEPT !.target = target, !.held = amt, !.state = current]
             /\ Goto("loop", IF target = 0 THEN "attach" ELSE "preflight")
  /\ UNCHANGED <<exchangeVars, running, mode, starts, objects, current, fill, stream, messages>>

\* A pending order blocks the symbol until it is stale.
Preflight ==
  /\ at.loop = "preflight"
  /\ tick' = [tick EXCEPT !.state = current]
  /\ \/ "setting" \in RunnerFaults[mode] /\ Goto("loop", "attach")
     \/ st.pending = 0 /\ Goto("loop", "delta")
     \/ st.pending # 0 /\ \E l \in {"attach", "stale"} : Goto("loop", l)
  /\ UNCHANGED <<exchangeVars, unchangedConfig, objects, current, fill, stream, messages>>

\* _cancel_stale_orders: forgotten, whatever the exchange answers.
CancelStale ==
  LET mine  == objects[tick.state]
      order == {o \in live : o.kind = "entry" /\ o.id = mine.pending} IN
  /\ at.loop = "stale"
  /\ live' \in {live \ order} \cup (IF "cancel" \in RunnerFaults[mode] THEN {live} ELSE {})
  /\ gaps' = IF order \cap live' # {} \/ \E i \in DOMAIN messages : messages[i].id = mine.pending
             THEN gaps \cup {"forgotten"} ELSE gaps
  /\ Update(tick.state, [mine EXCEPT !.pending = 0])
  /\ Goto("loop", "delta")
  /\ UNCHANGED <<amt, unchangedConfig, current, tick, fill, stream, messages>>

\* _compute_slices: a large order goes in parts.
Slices(qty) == {<<qty>>} \cup {<<q, qty - q>> : q \in 1..(qty - 1)}

Delta ==
  LET delta == tick.target - tick.held
      flips == tick.held # 0 /\ Sign(delta) = -Sign(tick.held) /\ Size(delta) > Size(tick.held)
      qty   == IF flips THEN Size(delta) - Size(tick.held) ELSE Size(delta)
  IN /\ at.loop = "delta"
     /\ \/ /\ delta = 0 \/ "read" \in RunnerFaults[mode]
           /\ Goto("loop", "attach")
           /\ UNCHANGED <<tick, ordered>>
        \/ /\ delta # 0
           /\ \E s \in Slices(qty) :
                /\ ordered + Len(s) - 1 <= MaxOrdered
                /\ ordered' = ordered + Len(s) - 1
                /\ tick' = [tick EXCEPT !.side = Sign(delta), !.left = s, !.then = "order",
                           !.reduce = (Sign(delta) = -Sign(tick.held) /\ qty <= Size(tick.held))]
           /\ Goto("loop", IF flips THEN "cancel" ELSE "order")
     /\ UNCHANGED <<exchangeVars, running, mode, starts, objects, current, fill, stream, messages>>

\* _cancel_brackets: both lists of orders, failures ignored, the ids dropped;
\* _on_fill has set the prices by then.
CancelBrackets(i, priced) ==
  /\ \E which \in {live} \cup (IF "cancel" \in RunnerFaults[mode]
                                THEN {Protective, live \ Protective, {}} ELSE {}) :
       live' = live \ which
  /\ Update(i, [objects[i] EXCEPT !.sl = 0, !.tp1 = 0, !.tp2 = 0,
                                !.priced = @ \/ priced])

\* _close_position: for a flip, or for a symbol that is no target any more.
CloseCancels ==
  /\ at.loop = "cancel"
  /\ CancelBrackets(tick.state, FALSE)
  /\ Goto("loop", "close")
  /\ UNCHANGED <<amt, gaps, unchangedConfig, current, tick, fill, stream, messages>>

CloseOrder ==
  /\ at.loop = "close"
  /\ \/ Reduces(-Sign(tick.held)) /\ amt' = Reduced(-Sign(tick.held), Size(tick.held))
     \/ (~Reduces(-Sign(tick.held)) \/ "order" \in RunnerFaults[mode]) /\ UNCHANGED amt
  /\ gaps' = IF amt' = 0 THEN {} ELSE gaps \cup {"closeFailed"}
  /\ Goto("loop", tick.then)
  /\ tick' = IF tick.then = "head" THEN NoTick ELSE tick
  /\ UNCHANGED <<live, unchangedConfig, objects, current, fill, stream, messages>>

-----------------------------------------------------------------------------
(***************************************************************************)
(* _place_order, slice by slice.                                           *)
(***************************************************************************)
SliceDone ==
  /\ tick' = [tick EXCEPT !.left = Tail(@), !.id = 0]
  /\ Goto("loop", IF Len(tick.left) = 1 THEN "attach" ELSE "order")

Executable == tick.reduce => Reduces(tick.side)
Executed(qty) == amt' = IF tick.reduce THEN Reduced(tick.side, qty) ELSE Bought(tick.side, qty)

OrderRefused ==
  /\ at.loop = "order"
  /\ "order" \in RunnerFaults[mode] \/ ~Executable
  /\ SliceDone
  /\ UNCHANGED <<exchangeVars, unchangedConfig, objects, current, fill, stream, messages>>

\* Mutant: its brackets are left to the stream, as those of the other modes.
MarketOrderUnhandled ==
  /\ at.loop = "order" /\ Executable
  /\ mode = "MARKET" \/ (mode = "IOC_LIMIT" /\ "read" \in RunnerFaults[mode])
  /\ Executed(Head(tick.left))
  /\ SliceDone
  /\ UNCHANGED <<live, gaps, unchangedConfig, objects, current, fill, stream, messages>>

\* MARKET, which IOC_LIMIT falls back to when no price can be read.
MarketOrder ==
  /\ at.loop = "order" /\ Executable
  /\ mode = "MARKET" \/ (mode = "IOC_LIMIT" /\ "read" \in RunnerFaults[mode])
  /\ Executed(Head(tick.left))
  /\ UNCHANGED live
  /\ \/ /\ Goto("loop", "filled")
        /\ gaps' = IF amt' = 0 THEN {} ELSE gaps
        /\ UNCHANGED tick
     \/ /\ "lost" \in RunnerFaults[mode]
        /\ SliceDone
        /\ gaps' = gaps \cup {"lost"}
  /\ UNCHANGED <<unchangedConfig, objects, current, fill, stream, messages>>

\* What is not filled at once expires; the answer may come before the fill.
IocOrder ==
  /\ at.loop = "order" /\ Executable
  /\ mode = "IOC_LIMIT" /\ Free(1)
  /\ \E qty \in 0..Head(tick.left) :
       /\ Executed(qty)
       /\ IF qty > 0 THEN Sent(NewId(1), qty) ELSE UNCHANGED messages
       /\ \/ /\ qty > 0 /\ Goto("loop", "filled")
             /\ gaps' = IF amt' = 0 THEN {} ELSE gaps
             /\ UNCHANGED tick
          \/ /\ Goto("loop", "pend")
             /\ tick' = [tick EXCEPT !.id = NewId(1)]
             /\ gaps' = IF qty > 0 THEN gaps \cup Unheard("lostFill") ELSE gaps
  /\ UNCHANGED <<live, unchangedConfig, objects, current, fill, stream>>

PostOnlyOrder ==
  /\ at.loop = "order" /\ Executable
  /\ mode = "POST_ONLY_LIMIT" /\ Free(1)
  /\ live' = live \cup {[kind |-> "entry", id |-> NewId(1), side |-> tick.side,
                         qty |-> Head(tick.left)]}
  /\ \/ Goto("loop", "pend") /\ tick' = [tick EXCEPT !.id = NewId(1)] /\ UNCHANGED gaps
     \/ "lost" \in RunnerFaults[mode] /\ SliceDone /\ gaps' = gaps \cup {"lost"}
  /\ UNCHANGED <<amt, unchangedConfig, objects, current, fill, stream, messages>>

\* Only now is the order known, and only the last slice of it.
SetPending ==
  LET mine == objects[tick.state] IN
  /\ at.loop = "pend"
  /\ Update(tick.state, [mine EXCEPT !.pending = tick.id])
  /\ gaps' = IF mine.pending # 0 \/ tick.state # current THEN gaps \cup {"overwritten"} ELSE gaps
  /\ SliceDone
  /\ UNCHANGED <<amt, live, unchangedConfig, current, fill, stream, messages>>

-----------------------------------------------------------------------------
(***************************************************************************)
(* _on_fill, by either thread: read the position, cancel the old brackets, *)
(* place stop and targets.                                                 *)
(***************************************************************************)
\* The position is not shown, or the candles cannot be read.
FillUnread(t) ==
  /\ at[t] = "filled"
  /\ amt = 0 \/ "read" \in RunnerFaults[mode]
  /\ gaps' = IF amt = 0 THEN gaps ELSE gaps \cup {"unread"}
  /\ Goto(t, "return")
  /\ UNCHANGED <<amt, live, unchangedConfig, unchangedThread, stream, messages>>

ReadFill(t) ==
  /\ at[t] = "filled" /\ amt # 0
  /\ fill' = [fill EXCEPT ![t] = [@ EXCEPT !.side = Sign(amt), !.qty = Size(amt),
                                          !.state = current]]
  /\ Update(current, [st EXCEPT !.tp1_done = FALSE, !.tp2_done = FALSE])
  /\ Goto(t, "old")
  /\ UNCHANGED <<exchangeVars, unchangedConfig, current, tick, stream, messages>>

CancelOld(t) ==
  /\ at[t] = "old"
  /\ CancelBrackets(fill[t].state, TRUE)
  /\ Goto(t, "stop")
  /\ UNCHANGED <<amt, gaps, unchangedConfig, current, tick, fill, stream, messages>>

\* As closePosition or, that refused, for a quantity; or not at all.
NewStop(side, qty) == [kind |-> "sl", id |-> NewId(1), side |-> side, qty |-> qty]
Stops(t, qty) ==
  {{NewStop(fill[t].side, 0)}} \cup
  (IF "refuse" \in RunnerFaults[mode] THEN {{NewStop(fill[t].side, qty)}, {}} ELSE {})

StopAnswered(side, stop) ==
  gaps' = IF stop = {} THEN gaps \cup {"refused"}
          ELSE IF Sign(amt) = side THEN {}
          ELSE IF amt = 0 THEN gaps ELSE gaps \cup {"raced"}

\* The stop, a TP1 and a TP2; each may be refused.
BracketsPlaced(t, first, rest) ==
  LET mine == objects[fill[t].state]
      tp1  == [kind |-> "tp1", id |-> NewId(2), side |-> fill[t].side, qty |-> first]
      tp2  == [kind |-> "tp2", id |-> NewId(3), side |-> fill[t].side, qty |-> rest]
      both == {o \in {tp1, tp2} : o.qty > 0}
  IN \E stop \in Stops(t, fill[t].qty),
        targetsPlaced \in {both} \cup (IF "refuse" \in RunnerFaults[mode] THEN SUBSET both ELSE {}) :
       /\ StopAnswered(fill[t].side, stop)
       /\ live' = live \cup stop \cup targetsPlaced
       /\ Update(fill[t].state,
                 [mine EXCEPT !.sl  = IF stop = {} THEN @ ELSE NewId(1),
                              !.tp1 = IF tp1 \in targetsPlaced THEN tp1.id ELSE @,
                              !.tp2 = IF tp2 \in targetsPlaced THEN tp2.id ELSE @])

\* TP1 for a share of the position (tp1_close_pct), TP2 for a share of what
\* TP1 leaves (tp2_close_pct), no larger when TP1 is refused.
PlaceBrackets(t) ==
  /\ at[t] = "stop" /\ Free(3)
  /\ \E first \in 0..fill[t].qty : \E rest \in 0..(fill[t].qty - first) :
       BracketsPlaced(t, first, rest)
  /\ Goto(t, "return")
  /\ UNCHANGED <<amt, unchangedConfig, current, tick, fill, stream, messages>>

\* Back in _place_order or in tick.
FillReturns ==
  /\ at.loop = "return"
  /\ fill' = [fill EXCEPT !.loop = NoFill]
  /\ IF tick.left = <<>> THEN Goto("loop", "out") /\ UNCHANGED tick ELSE SliceDone
  /\ UNCHANGED <<exchangeVars, unchangedConfig, objects, current, stream, messages>>

\* Back in on_ws_fill: the pending order is done with, whichever it is now and
\* however much of it was filled.
PendingDone ==
  LET mine == objects[fill.ws.caller] IN
  /\ at.ws = "return"
  /\ fill' = [fill EXCEPT !.ws = NoFill]
  /\ Update(fill.ws.caller, [mine EXCEPT !.pending = 0])
  /\ gaps' = IF mine.pending \in {o.id : o \in live} \cup {messages[i].id : i \in DOMAIN messages}
                \/ mine.pending \notin {0, fill.ws.id}
             THEN gaps \cup {"forgotten"} ELSE gaps
  /\ Goto("ws", "idle")
  /\ UNCHANGED <<amt, live, unchangedConfig, current, tick, stream, messages>>

-----------------------------------------------------------------------------
(***************************************************************************)
(* The end of tick: brackets for a position that never had any, then the   *)
(* close of one that is no target.                                         *)
(***************************************************************************)
AttachBrackets ==
  /\ at.loop = "attach"
  /\ tick.held # 0 /\ ~st.priced /\ st.pending = 0
  /\ Goto("loop", "filled")
  /\ UNCHANGED <<exchangeVars, unchangedConfig, unchangedThread, stream, messages>>

CloseOutsider ==
  /\ \/ at.loop = "out"
     \/ at.loop = "attach" /\ ~(tick.held # 0 /\ ~st.priced /\ st.pending = 0)
  /\ IF tick.held # 0 /\ tick.target = 0
     THEN Goto("loop", "cancel") /\ tick' = [tick EXCEPT !.state = current, !.then = "head"]
     ELSE Goto("loop", "head") /\ tick' = NoTick
  /\ UNCHANGED <<exchangeVars, unchangedConfig, objects, current, fill, stream, messages>>

-----------------------------------------------------------------------------
(***************************************************************************)
(* on_ws_fill, on the stream's thread.                                     *)
(***************************************************************************)
Heard == Head(messages).id

TakesMessage(l) ==
  /\ at.ws = "idle" /\ messages # <<>>
  /\ messages' = Tail(messages)
  /\ fill' = [fill EXCEPT !.ws = IF l = "idle" THEN NoFill
                                 ELSE [NoFill EXCEPT !.caller = current, !.id = Heard]]
  /\ Goto("ws", l)
  /\ UNCHANGED <<amt, live, unchangedConfig, current, tick, stream>>

PendingFilled ==
  /\ messages # <<>> /\ Heard = st.pending
  /\ TakesMessage("filled")
  /\ UNCHANGED <<objects, gaps>>

\* breakeven_after_tp1 or not.
Tp1Filled ==
  /\ messages # <<>> /\ Heard # st.pending /\ Heard = st.tp1 /\ ~st.tp1_done
  /\ \E l \in {"breakeven", "idle"} : TakesMessage(l)
  /\ Update(current, [st EXCEPT !.tp1_done = TRUE])
  /\ UNCHANGED gaps

Tp2Filled ==
  /\ messages # <<>> /\ Heard # st.pending /\ Heard = st.tp2 /\ ~st.tp2_done
  /\ TakesMessage("sweep")
  /\ Update(current, [st EXCEPT !.tp2_done = TRUE])
  /\ UNCHANGED gaps

SlTriggered ==
  /\ messages # <<>> /\ Heard = st.sl
  /\ TakesMessage("sweep")
  /\ UNCHANGED <<objects, gaps>>

\* Also the fill of an order whose id is not noted yet.
NotOurs ==
  /\ messages # <<>> /\ Heard \notin {st.pending, st.sl}
  /\ Heard = st.tp1 => st.tp1_done
  /\ Heard = st.tp2 => st.tp2_done
  /\ TakesMessage("idle")
  /\ gaps' = IF at.loop = "pend" /\ tick.id = Heard THEN gaps \cup {"early"} ELSE gaps
  /\ UNCHANGED objects

\* The brackets of a position that "should be fully closed": a share may be
\* left that TP2 was not for, or a newer position may have taken its place.
SweepBrackets ==
  /\ at.ws = "sweep"
  /\ CancelBrackets(fill.ws.caller, FALSE)
  /\ gaps' = IF amt # 0 THEN gaps \cup {"swept"} ELSE gaps
  /\ Goto("ws", "idle")
  /\ fill' = [fill EXCEPT !.ws = NoFill]
  /\ UNCHANGED <<amt, unchangedConfig, current, tick, stream, messages>>

\* _move_sl_to_breakeven: everything is cancelled, the stop placed at the
\* entry, TP2 placed again for what is left.
BreakevenCancels ==
  LET known == {o \in live : o.kind = "sl" /\ o.id = objects[fill.ws.caller].sl} IN
  /\ at.ws = "breakeven"
  /\ live' \in {live \ Protective} \cup (IF "cancel" \in RunnerFaults[mode]
                                        THEN {live, live \ known} ELSE {})
  /\ fill' = [fill EXCEPT !.ws.side = IF amt = 0 THEN @ ELSE Sign(amt)]
  /\ Goto("ws", "raise")
  /\ UNCHANGED <<amt, gaps, unchangedConfig, objects, current, tick, stream, messages>>

BreakevenStop ==
  LET mine  == objects[fill.ws.caller]
      again == {o \in {[kind |-> "tp2", id |-> NewId(2), side |-> fill.ws.side, qty |-> Size(amt)]} :
                  mine.tp2 # 0 /\ ~mine.tp2_done /\ amt # 0}
  IN /\ at.ws = "raise" /\ Free(2)
     /\ \E stop \in Stops("ws", Size(amt)),
           tp2 \in {again} \cup (IF "refuse" \in RunnerFaults[mode] THEN {{}} ELSE {}) :
          /\ StopAnswered(fill.ws.side, stop)
          /\ live' = live \cup stop \cup tp2
          /\ Update(fill.ws.caller,
                    [mine EXCEPT !.sl = IF stop = {} THEN @ ELSE NewId(1),
                                 !.tp2 = IF tp2 = {} THEN @ ELSE NewId(2), !.priced = TRUE])
     /\ Goto("ws", "idle")
     /\ fill' = [fill EXCEPT !.ws = NoFill]
     /\ UNCHANGED <<amt, unchangedConfig, current, tick, stream, messages>>

-----------------------------------------------------------------------------
RunnerNext ==
  \/ Start \/ Stop \/ LoseMessage
  \/ \E o \in live : BracketFires(o) \/ \E qty \in 1..Full : PendingFills(o, qty)
  \/ LoopEnds \/ KillSwitch \/ ExecTick \/ Preflight \/ CancelStale \/ Delta
  \/ CloseCancels \/ CloseOrder
  \/ OrderRefused \/ MarketOrder \/ IocOrder \/ PostOnlyOrder \/ SetPending
  \/ \E t \in Threads : \/ FillUnread(t) \/ ReadFill(t) \/ CancelOld(t) \/ PlaceBrackets(t)
  \/ FillReturns \/ PendingDone \/ AttachBrackets \/ CloseOutsider
  \/ PendingFilled \/ Tp1Filled \/ Tp2Filled \/ SlTriggered \/ NotOurs \/ SweepBrackets
  \/ BreakevenCancels \/ BreakevenStop

RunnerSpec == RunnerInit /\ [][RunnerNext]_runnerVars
=============================================================================
