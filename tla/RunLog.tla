------------------------------- MODULE RunLog -------------------------------
(***************************************************************************)
(* What the trading loop writes to the run log (RunLog in                  *)
(* structured_log.py, called by strategy.py, _run_trading), while          *)
(* LiveSummary renders it: each step of the loop is one of LiveSummary's   *)
(* logging steps, with the content of the entry.  An entry is what the     *)
(* loop logs in a row: a new tick with its snapshot, its open offers and   *)
(* the transactions not logged before; a decision, a result, a timing or   *)
(* the offers passed over; the end of the run.                             *)
(*                                                                         *)
(* The loop reads the session's world at the start of a pass only; the     *)
(* pump has replaced it any number of times since the last, each time by a *)
(* newer one (SessionProperties).  A snapshot carries all transactions     *)
(* settled so far, each with its settled_tick.                             *)
(***************************************************************************)
EXTENDS LiveSummary, Sequences

CONSTANTS
  MaxTick,         \* bound: ticks of the run
  MaxTransactions  \* bound: transactions this station settles

ASSUME RunLogAssumption == MaxTick \in Nat /\ MaxTransactions \in Nat

VARIABLES
  view,        \* the snapshot this pass works on: [tick, over, transactions]
  at,          \* where the loop is: "top", "choosing", "idle", "sending", "reconciling"
  loggedTick,  \* logged_tick; -1 for None
  seen,        \* _seen_transactions
  log          \* the transactions logged in each entry

loopVars == <<view, at, loggedTick, seen, log>>
logVars  == <<vars, loopVars>>

LogInit ==
  /\ Init
  /\ view = [tick |-> 0, over |-> FALSE, transactions |-> {}]
  /\ at = "top" /\ loggedTick = -1 /\ seen = {} /\ log = <<>>

-----------------------------------------------------------------------------
(* The snapshot the session holds by now: ticks have passed, transactions  *)
(* have settled in them, and the run may be over.                          *)
ReadWorld ==
  LET n == Cardinality(view.transactions) IN
  \E t \in view.tick..MaxTick, m \in n..MaxTransactions, over \in BOOLEAN :
    \E settledTick \in [(n + 1)..m -> view.tick..t] :
      view' = [tick |-> t, over |-> over,
               transactions |-> view.transactions \cup
                                  {[id |-> i, tick |-> settledTick[i]] : i \in (n + 1)..m}]

-----------------------------------------------------------------------------
(* The loop.                                                               *)

Ids(transactions) == {x.id : x \in transactions}

(* Mutants: what was logged before is logged again; the snapshot of the    *)
(* pass before is logged.                                                  *)
AllTransactions == Ids(view'.transactions)
LastTransactions == Ids(view.transactions) \ seen

(* transactions_settled: those of the snapshot that are not logged yet.    *)
NewTransactions == Ids(view'.transactions) \ seen

(* A pass begins with the latest snapshot, which ends a sleep only if it is*)
(* a new one; a tick not logged before is logged.                          *)
Pass ==
  /\ main = "trading" /\ at \in {"top", "idle"} /\ at' = "choosing"
  /\ ReadWorld /\ (at = "idle" => view' # view)
  /\ \/ /\ view'.tick # loggedTick /\ TickLogged
        /\ loggedTick' = view'.tick /\ seen' = seen \cup NewTransactions
        /\ log' = Append(log, NewTransactions)
     \/ view'.tick = loggedTick /\ UNCHANGED <<vars, loggedTick, seen, log>>

(* Any other entry has no transactions; run_ended is the last.             *)
Logs    == EventLogged /\ log' = Append(log, {})
LogsEnd == RunEnds /\ log' = Append(log, {})

Finished ==
  /\ at = "choosing" /\ view.over /\ LogsEnd
  /\ UNCHANGED <<view, at, loggedTick, seen>>

(* Nothing to do: wait for a newer snapshot.  An offer may be passed over. *)
Wait ==
  /\ main = "trading" /\ at = "choosing" /\ ~view.over /\ at' = "idle"
  /\ Logs \/ UNCHANGED <<vars, log>>
  /\ UNCHANGED <<view, loggedTick, seen>>

Decide ==
  /\ at = "choosing" /\ ~view.over /\ at' = "sending" /\ Logs
  /\ UNCHANGED <<view, loggedTick, seen>>

Result ==
  /\ at = "sending" /\ at' = "reconciling" /\ Logs
  /\ UNCHANGED <<view, loggedTick, seen>>

Reconciled ==
  /\ at = "reconciling" /\ at' = "top" /\ Logs
  /\ UNCHANGED <<view, loggedTick, seen>>

TimedOut ==
  /\ at \in {"sending", "reconciling"} /\ LogsEnd
  /\ UNCHANGED <<view, at, loggedTick, seen>>

(* The connection fails, or send finds the run paused or over.             *)
Failed ==
  /\ at \in {"idle", "sending", "reconciling"} /\ RunFails
  /\ UNCHANGED loopVars

Loop ==
  \/ Pass \/ Finished \/ Wait \/ Decide \/ Result \/ Reconciled
  \/ TimedOut \/ Failed

(* Everything else is as in LiveSummary.                                   *)
Report ==
  /\ Worker \/ Shutdown \/ Interrupt \/ Threads \/ Terminated
  /\ UNCHANGED loopVars

LogNext == Loop \/ Report

LogSpec == LogInit /\ [][LogNext]_logVars

FairLogSpec ==
  /\ LogSpec
  /\ WF_logVars(Worker /\ UNCHANGED loopVars)
  /\ WF_logVars(Shutdown /\ UNCHANGED loopVars)
  /\ \A c \in Callers : WF_logVars((Read(c) \/ Write(c)) /\ UNCHANGED loopVars)
=============================================================================
