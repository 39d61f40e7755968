------------------------------ MODULE StatusView ------------------------------
(***************************************************************************)
(* What the API shows of the service: _get_status of                       *)
(* backend/services/engine_service.py, behind /api/status and /ws/status.  *)
(*                                                                         *)
(* A status puts together what the service says of itself, what its        *)
(* engines believe, and what a query to the exchange has found at some     *)
(* time in the last _LIVE_POS_TTL seconds.  Here for the positions of one  *)
(* symbol; a status is read in one step of the event loop.                 *)
(***************************************************************************)
EXTENDS EngineServiceProperties

CONSTANTS
  Watched,    \* the symbol that is looked at
  Ttl         \* _LIVE_POS_TTL, in units of time

ASSUME ViewAssumption == Watched \in Symbols /\ Ttl \in Nat \ {0}

VARIABLES
  cached,     \* _live_pos_cache has a position of Watched
  left,       \* what is left of the time it may be used
  settled     \* history: how long the exchange has been as it is, up to Ttl

viewVars   == <<cached, left, settled>>
statusVars == <<allVars, viewVars>>

-----------------------------------------------------------------------------
HasPosition == exposure[Watched] > 0
EngineHas   == Watched \in Occupied

(***************************************************************************)
(* An answer about Watched: where its position comes from, if it has one,  *)
(* whether a query failed, and the cache as it is left behind.             *)
(***************************************************************************)
Answer(from, failed, c, t) == [from |-> from, failed |-> failed, cached |-> c, left |-> t]
Seen(yes) == IF yes THEN "exchange" ELSE "none"

\* Mutant: the time is noted before the query.
FetchedEarly ==
  IF left > 0 THEN {Answer(Seen(cached), FALSE, cached, left)}
  ELSE {Answer(Seen(HasPosition), FALSE, HasPosition, Ttl),
        Answer(Seen(cached), TRUE, cached, Ttl)}

\* _fetch_binance_position.  A query that fails answers with the cache and
\* does not make it any younger.
Fetched ==
  IF left > 0 THEN {Answer(Seen(cached), FALSE, cached, left)}
  ELSE {Answer(Seen(HasPosition), FALSE, HasPosition, Ttl),
        Answer(Seen(cached), TRUE, cached, left)}

\* _build_symbol_status: the exchange is asked when the engine has nothing.
SymbolStatus ==
  IF EngineHas THEN {Answer("engine", FALSE, cached, left)} ELSE Fetched

\* _build_stream_diagnostics: no stream is connected before all are started;
\* one that was stopped still says that it is.
NotConnected == streams # 0 /\ run[streams] = "starting"

\* What system_health may be.  A connection that is lost, an insight that is
\* old or an implausible R makes it worse at any time.
SystemHealth ==
  {"DEGRADED"} \cup
  (IF critical \/ (running /\ NotConnected) THEN {} ELSE {"HEALTHY"})

-----------------------------------------------------------------------------
\* _get_status, for the route and the socket; it may raise when it reads the
\* trade log, behind the positions.
GetStatus ==
  /\ \E answer \in SymbolStatus : cached' = answer.cached /\ left' = answer.left
  /\ UNCHANGED <<allVars, settled>>

TimePasses ==
  /\ left' = IF left > 0 THEN left - 1 ELSE 0
  /\ settled' = IF settled < Ttl THEN settled + 1 ELSE Ttl
  /\ UNCHANGED <<allVars, cached>>

\* A step of the service.
ServiceActs ==
  /\ ServiceNext
  /\ settled' = IF HasPosition' = HasPosition THEN settled ELSE 0
  /\ UNCHANGED <<cached, left>>

ViewInit == ServiceInit /\ cached = FALSE /\ left = 0 /\ settled = Ttl

ViewNext == ServiceActs \/ GetStatus \/ TimePasses

ViewSpec == ViewInit /\ [][ViewNext]_statusVars

-----------------------------------------------------------------------------
(***************************************************************************)
(* A status hides no position the exchange has had for _LIVE_POS_TTL, and  *)
(* shows none that has been gone for as long, unless its own query failed: *)
(* the cache is not kept alive by failures.  A position of an engine is    *)
(* the engine's word.  (_fetch_binance_position, _build_symbol_status.)    *)
(***************************************************************************)
StatusIsRecent ==
  \A answer \in SymbolStatus :
    answer.from # "engine" /\ ~answer.failed /\ settled = Ttl
      => (answer.from = "exchange" <=> HasPosition)

(***************************************************************************)
(* A status that says the engine runs and is well is right about who       *)
(* trades: the stream of every symbol is alive, under the preset the       *)
(* status shows; and a run that ended without being asked to is never      *)
(* shown as healthy.  (system_health of _get_status, the except branch of  *)
(* _run, set_strategy_mode.)                                               *)
(***************************************************************************)
HealthyMeansTrading ==
  "HEALTHY" \in SystemHealth =>
    /\ running /\ engines # 0 => market[engines] = Symbols /\ built[engines] = mode
    /\ Quiet /\ task # 0 => run[task] # "done"
=============================================================================
