----------------------------- MODULE LiveSummary -----------------------------
(***************************************************************************)
(* The HTML report of a trading run (LiveSummaryRenderer in                *)
(* structured_log.py, and the shutdown path of main.py): a task renders the*)
(* event log in a thread while the run goes on, the exit of run_trading    *)
(* waits for it and renders once more, and so does _run_client's finally.  *)
(*                                                                         *)
(* A report is named by the number of events it shows.  Each of the three  *)
(* places that render has at most one thread at work; a thread reads the   *)
(* log and later writes the page.  Cancelling whoever awaits a thread does *)
(* not stop the thread.                                                    *)
(***************************************************************************)
EXTENDS Integers, FiniteSets

CONSTANTS
  MaxEvents,       \* bound: events logged in a run
  MaxInterrupts,   \* bound: interrupts by the user (asyncio.run cancels main)
  MaxFailures      \* bound: renders that raise, which refresh_html catches

ASSUME SummaryAssumption ==
  MaxEvents \in Nat /\ MaxInterrupts \in Nat /\ MaxFailures \in Nat

VARIABLES
  written, ended,  \* events in the log; whether the last is run_ended
  asked,           \* events in the log at the latest request_refresh
  dirty, stopping, \* the renderer's two asyncio.Events
  worker,          \* its task: "waiting" for dirty, "rendering", "pausing", "done"
  render,          \* the thread of each caller
  page,            \* events the page shows
  main,            \* what the main task does
  interrupts, failures  \* counted for the bounds and the properties

faults == <<interrupts, failures>>
vars == <<written, ended, asked, dirty, stopping, worker, render, page, main, faults>>

Callers == {"worker", "exit", "finally"}

None      == [at |-> "none", read |-> 0]
Queued    == [at |-> "queued", read |-> 0]
Reading(n) == [at |-> "rendering", read |-> n]

Init ==
  /\ written = 0 /\ ended = FALSE /\ asked = 0 /\ dirty = FALSE /\ stopping = FALSE
  /\ worker = "waiting" /\ render = [c \in Callers |-> None] /\ page = 0
  /\ main = "trading" /\ interrupts = 0 /\ failures = 0

Start(c)    == render' = [render EXCEPT ![c] = Queued]
Rendered(c) == render[c] = None

-----------------------------------------------------------------------------
(* The trading loop.                                                       *)

TickUnlogged ==  \* mutant: the refresh is requested, the tick not logged
  /\ main = "trading" /\ written < MaxEvents
  /\ asked' = written + 1 /\ dirty' = TRUE
  /\ UNCHANGED <<written, ended, stopping, worker, render, page, main, faults>>

(* A new tick is logged and a refresh requested.                           *)
TickLogged ==
  /\ main = "trading" /\ written < MaxEvents
  /\ written' = written + 1 /\ asked' = written + 1 /\ dirty' = TRUE
  /\ UNCHANGED <<ended, stopping, worker, render, page, main, faults>>

(* Decisions and results are logged without one.                           *)
EventLogged ==
  /\ main = "trading" /\ written < MaxEvents
  /\ written' = written + 1
  /\ UNCHANGED <<ended, asked, dirty, stopping, worker, render, page, main, faults>>

ExitSilently ==  \* mutant: the worker is not woken
  stopping' = TRUE /\ dirty' = dirty /\ main' = "exiting"

(* __aexit__ tells the worker to stop, and wakes it.                       *)
Exit == stopping' = TRUE /\ dirty' = TRUE /\ main' = "exiting"

(* The run is over, or a deadline has passed: run_ended is logged.         *)
RunEnds ==
  /\ main = "trading" /\ Exit
  /\ written' = written + 1 /\ ended' = TRUE
  /\ UNCHANGED <<asked, worker, render, page, faults>>

(* Any other exception leaves the loop without logging it.                 *)
RunFails ==
  /\ main = "trading" /\ Exit
  /\ UNCHANGED <<written, ended, asked, worker, render, page, faults>>

-----------------------------------------------------------------------------
(* The worker task (_render).                                              *)

WorkerWakes ==
  /\ worker = "waiting" /\ dirty
  /\ IF stopping
     THEN worker' = "done" /\ UNCHANGED <<dirty, render>>
     ELSE worker' = "rendering" /\ dirty' = FALSE /\ Start("worker")
  /\ UNCHANGED <<written, ended, asked, stopping, page, main, faults>>

WorkerRenderedAndClears ==  \* mutant: requests made during a render are forgotten
  /\ worker = "rendering" /\ Rendered("worker")
  /\ worker' = "pausing" /\ dirty' = stopping
  /\ UNCHANGED <<written, ended, asked, stopping, render, page, main, faults>>

WorkerDetached ==  \* mutant: the worker does not await its thread
  /\ worker = "rendering"
  /\ worker' = "pausing"
  /\ UNCHANGED <<written, ended, asked, dirty, stopping, render, page, main, faults>>

WorkerRendered ==
  /\ worker = "rendering" /\ Rendered("worker")
  /\ worker' = "pausing"
  /\ UNCHANGED <<written, ended, asked, dirty, stopping, render, page, main, faults>>

(* The interval passes, or stopping is set.                                *)
WorkerPaused ==
  /\ worker = "pausing"
  /\ worker' = IF stopping THEN "done" ELSE "waiting"
  /\ UNCHANGED <<written, ended, asked, dirty, stopping, render, page, main, faults>>

-----------------------------------------------------------------------------
(* Shutdown, in the main task.                                             *)

ExitAtOnce ==  \* mutant: the worker is not awaited
  /\ main = "exiting"
  /\ main' = "finalRender" /\ Start("exit")
  /\ UNCHANGED <<written, ended, asked, dirty, stopping, worker, page, faults>>

WorkerAwaited ==
  /\ main = "exiting" /\ worker = "done"
  /\ main' = "finalRender" /\ Start("exit")
  /\ UNCHANGED <<written, ended, asked, dirty, stopping, worker, page, faults>>

FinalRendered ==
  /\ main = "finalRender" /\ Rendered("exit")
  /\ main' = "closing"
  /\ UNCHANGED <<written, ended, asked, dirty, stopping, worker, render, page, faults>>

(* The pump, the connection and the log are closed; the finally renders.   *)
Close ==
  /\ main = "closing"
  /\ main' = "lastRender" /\ Start("finally")
  /\ UNCHANGED <<written, ended, asked, dirty, stopping, worker, page, faults>>

LastRendered ==
  /\ main = "lastRender" /\ Rendered("finally")
  /\ main' = "done"
  /\ UNCHANGED <<written, ended, asked, dirty, stopping, worker, render, page, faults>>

(* A first Ctrl-C cancels the main task and with it what it awaits; a      *)
(* thread not yet started is dropped, one at work goes on.                 *)
Cancelled(c) ==
  \/ UNCHANGED render
  \/ render[c] = Queued /\ render' = [render EXCEPT ![c] = None]

Interrupt ==
  /\ interrupts < MaxInterrupts /\ interrupts' = interrupts + 1
  /\ \/ main = "trading" /\ Exit /\ UNCHANGED <<worker, render>>
     \/ /\ main = "exiting" /\ main' = "closing"
        /\ worker' = "done" /\ Cancelled("worker") /\ UNCHANGED <<dirty, stopping>>
     \/ /\ main = "finalRender" /\ main' = "closing"
        /\ Cancelled("exit") /\ UNCHANGED <<worker, dirty, stopping>>
     \/ /\ main = "closing" /\ UNCHANGED <<main, worker, render, dirty, stopping>>
     \/ /\ main = "lastRender" /\ main' = "done"
        /\ Cancelled("finally") /\ UNCHANGED <<worker, dirty, stopping>>
  /\ UNCHANGED <<written, ended, asked, page, failures>>

-----------------------------------------------------------------------------
(* The threads: refresh_html reads the log, then writes the page.          *)

Read(c) ==
  /\ render[c] = Queued
  /\ render' = [render EXCEPT ![c] = Reading(written)]
  /\ UNCHANGED <<written, ended, asked, dirty, stopping, worker, page, main, faults>>

Write(c) ==
  /\ render[c].at = "rendering"
  /\ render' = [render EXCEPT ![c] = None]
  /\ page' = render[c].read
  /\ UNCHANGED <<written, ended, asked, dirty, stopping, worker, main, faults>>

RenderFails(c) ==
  /\ failures < MaxFailures /\ failures' = failures + 1
  /\ render[c] # None /\ render' = [render EXCEPT ![c] = None]
  /\ UNCHANGED <<written, ended, asked, dirty, stopping, worker, page, main, interrupts>>

(* The process ends when main has and the threads are joined.              *)
Terminated == main = "done" /\ (\A c \in Callers : Rendered(c)) /\ UNCHANGED vars

Trading  == TickLogged \/ EventLogged \/ RunEnds \/ RunFails
Worker   == WorkerWakes \/ WorkerRendered \/ WorkerPaused
Shutdown == WorkerAwaited \/ FinalRendered \/ Close \/ LastRendered
Threads  == \E c \in Callers : Read(c) \/ Write(c) \/ RenderFails(c)

Next == Trading \/ Worker \/ Shutdown \/ Interrupt \/ Threads \/ Terminated

Spec == Init /\ [][Next]_vars

(* The event loop runs what is ready and threads finish.  The trading loop *)
(* may wait for partners for ever.                                         *)
FairSpec ==
  /\ Spec /\ WF_vars(Worker) /\ WF_vars(Shutdown)
  /\ \A c \in Callers : WF_vars(Read(c) \/ Write(c))
=============================================================================
