------------------------ MODULE LiveSummaryProperties ------------------------
(***************************************************************************)
(* What the live report promises; see LiveSummary.                         *)
(***************************************************************************)
EXTENDS LiveSummary

(* What a thread may be doing while the log has n events.                  *)
Reports(n) == [at : {"none", "queued", "rendering"}, read : 0..n]

(* Every variable has its type, and no report shows more than the log has. *)
TypeOK ==
  /\ written \in Nat /\ ended \in BOOLEAN /\ asked \in 0..written
  /\ dirty \in BOOLEAN /\ stopping \in BOOLEAN
  /\ worker \in {"waiting", "rendering", "pausing", "done"}
  /\ render \in [Callers -> Reports(written)]
  /\ page \in 0..written
  /\ main \in {"trading", "exiting", "finalRender", "closing", "lastRender", "done"}
  /\ interrupts \in Nat /\ failures \in Nat

(* "One background render at a time": with nobody interrupting, no two     *)
(* threads ever write the same file (the worker is awaited before the      *)
(* final render, and that before main's).                                  *)
OneRenderAtATime ==
  interrupts = 0 => \A c, d \in Callers : ~Rendered(c) /\ ~Rendered(d) => c = d

(* The page never goes back to an older report.                            *)
PageOnlyAdvances == [][interrupts' = 0 => page' >= page]_vars

(* structured_log.py: "an older live report cannot overwrite the completed *)
(* report".                                                                *)
CompletedReportStays == [][ended /\ page = written => page' = page]_vars

(* Nobody has interrupted the client and no render has raised.             *)
Undisturbed == interrupts = 0 /\ failures = 0

(* When an undisturbed process ends, the page shows the whole log.         *)
FinalReportIsComplete ==
  Undisturbed /\ main = "done" /\ (\A c \in Callers : Rendered(c)) => page = written

(* Coalescing loses no request: unless disturbed, what was logged when a   *)
(* refresh was asked for is shown some time later, even if the run goes    *)
(* quiet.                                                                  *)
RefreshIsRendered ==
  \A n \in 1..MaxEvents : asked >= n ~> page >= n \/ ~Undisturbed

(* Shutdown does not hang on the worker or on a render, be they cancelled, *)
(* interrupted or failing.                                                 *)
ShutdownEnds == main # "trading" ~> main = "done"
=============================================================================
