-------------------------- MODULE RunLogProperties --------------------------
(***************************************************************************)
(* What the run log and the page made from it tell of a run; see RunLog.   *)
(***************************************************************************)
EXTENDS RunLog, LiveSummaryProperties

Logged(n) == UNION {log[k] : k \in 1..n}

(* structured_log.py: "this call is idempotent per transaction id": no     *)
(* transaction is logged twice, though every snapshot repeats all of them. *)
LoggedOnce ==
  \A j, k \in DOMAIN log : log[j] \cap log[k] # {} => j = k

(* The log misses no transaction for longer than its tick: when the loop   *)
(* acts on a snapshot, all that settled in earlier ticks is logged, though *)
(* it slept or traded through them.                                        *)
SettledIsLogged ==
  \A x \in view.transactions : x.tick < view.tick => x.id \in Logged(Len(log))

(* The page an undisturbed run leaves shows every transaction settled      *)
(* before the last tick the loop saw, however the run ended.               *)
PageTellsTheRun ==
  Undisturbed /\ main = "done" =>
    \A x \in view.transactions : x.tick < view.tick => x.id \in Logged(page)
=============================================================================
