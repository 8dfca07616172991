---------------------------- MODULE ReportProofs ----------------------------
(***************************************************************************)
(* Theorems about the report of a run: the page that LiveSummary renders,  *)
(* for logs of any length and any number of interrupts, and the log that   *)
(* RunLog writes for it, for runs of any length.                           *)
(***************************************************************************)
EXTENDS RunLogProperties, FiniteSetTheorems, TLAPS

-----------------------------------------------------------------------------
(* The page.                                                               *)

USE DEF faults

(* Until somebody interrupts, each thread has its caller waiting for it,   *)
(* the callers take turns, and no thread holds less than the page shows.   *)
TakeTurns ==
  /\ render["worker"] # None => worker = "rendering"
  /\ worker # "done" => main \in {"trading", "exiting"}
  /\ render["exit"] # None => main = "finalRender"
  /\ render["finally"] # None => main = "lastRender"

ThreadsAreCurrent ==
  \A c \in Callers : render[c].at = "rendering" => page <= render[c].read

SummaryInv == TypeOK /\ (interrupts = 0 => TakeTurns /\ ThreadsAreCurrent)

(* Facts about the states of a thread.                                     *)
LEMMA ThreadStates ==
  /\ None.at = "none" /\ Queued.at = "queued" /\ None # Queued
  /\ \A n : Reading(n).at = "rendering" /\ Reading(n).read = n /\ Reading(n) # None
                /\ Reading(n) # Queued
<1>1. None.at = "none" /\ Queued.at = "queued"
  BY DEF None, Queued
<1>2. \A n : Reading(n).at = "rendering" /\ Reading(n).read = n
  BY DEF Reading
<1> QED BY <1>1, <1>2

LEMMA ReportStates ==
  ASSUME NEW n \in Nat
  PROVE  /\ None \in Reports(n) /\ Queued \in Reports(n) /\ Reading(n) \in Reports(n)
         /\ Reports(n) \subseteq Reports(n + 1)
BY DEF Reports, None, Queued, Reading

LEMMA SummaryInit == Init => SummaryInv
<1> SUFFICES ASSUME Init PROVE SummaryInv
  OBVIOUS
<1>1. TypeOK
  <2>1. None \in Reports(0)
    BY ReportStates
  <2>2. render \in [Callers -> Reports(written)]
    BY <2>1 DEF Init
  <2>3. ended \in BOOLEAN /\ dirty \in BOOLEAN /\ stopping \in BOOLEAN
    BY DEF Init
  <2>4. written \in Nat /\ interrupts \in Nat /\ failures \in Nat /\ asked \in 0..written /\ page \in 0..written
    BY DEF Init
  <2> QED BY <2>2, <2>3, <2>4 DEF Init, TypeOK
<1>2. TakeTurns
  BY DEF Init, TakeTurns, Callers
<1>3. ThreadsAreCurrent
  BY ThreadStates DEF Init, ThreadsAreCurrent
<1> QED BY <1>1, <1>2, <1>3 DEF SummaryInv

(* Starting and ending a thread keeps its type, and so does logging.       *)
LEMMA TypeOfRender ==
  ASSUME TypeOK
  PROVE  /\ written + 1 \in Nat
         /\ render \in [Callers -> Reports(written + 1)]
         /\ \A c : Start(c) => render' \in [Callers -> Reports(written)]
         /\ \A c : Cancelled(c) => render' \in [Callers -> Reports(written)]
<1>1. written \in Nat /\ render \in [Callers -> Reports(written)]
  BY DEF TypeOK
<1>2. /\ None \in Reports(written) /\ Queued \in Reports(written)
      /\ Reports(written) \subseteq Reports(written + 1)
  BY <1>1, ReportStates
<1>3. written + 1 \in Nat
  BY <1>1
<1>4. render \in [Callers -> Reports(written + 1)]
  BY <1>1, <1>2
<1>5. \A c : Start(c) => render' \in [Callers -> Reports(written)]
  BY <1>1, <1>2 DEF Start
<1>6. \A c : Cancelled(c) => render' \in [Callers -> Reports(written)]
  BY <1>1, <1>2 DEF Cancelled
<1> QED BY <1>3, <1>4, <1>5, <1>6

LEMMA TypeStep == TypeOK /\ [Next]_vars => TypeOK'
<1> SUFFICES ASSUME TypeOK, [Next]_vars PROVE TypeOK'
  OBVIOUS
<1>1. CASE Trading
  <2>1. /\ written' \in {written, written + 1} /\ asked' \in {asked, written'}
        /\ UNCHANGED <<worker, render, page, faults>>
    BY <1>1 DEF Trading, TickLogged, EventLogged, RunEnds, RunFails, TypeOK
  <2>2. /\ ended' \in BOOLEAN /\ dirty' \in BOOLEAN /\ stopping' \in BOOLEAN
        /\ main' \in {"trading", "exiting"}
    BY <1>1 DEF Trading, TickLogged, EventLogged, RunEnds, RunFails, Exit, TypeOK
  <2>3. written' \in Nat /\ asked' \in 0..written' /\ page' \in 0..written'
    BY <2>1 DEF TypeOK
  <2>4. render' \in [Callers -> Reports(written')]
    BY <2>1, TypeOfRender DEF TypeOK
  <2> QED BY <2>1, <2>2, <2>3, <2>4 DEF TypeOK
<1>2. CASE Worker
  <2>1. render' \in [Callers -> Reports(written)]
    BY <1>2, TypeOfRender
       DEF Worker, WorkerWakes, WorkerRendered, WorkerPaused, TypeOK
  <2> QED BY <1>2, <2>1 DEF Worker, WorkerWakes, WorkerRendered, WorkerPaused, TypeOK
<1>3. CASE Shutdown
  <2>1. render' \in [Callers -> Reports(written)]
    BY <1>3, TypeOfRender
       DEF Shutdown, WorkerAwaited, FinalRendered, Close, LastRendered, TypeOK
  <2> QED BY <1>3, <2>1
          DEF Shutdown, WorkerAwaited, FinalRendered, Close, LastRendered, TypeOK
<1>4. CASE Interrupt
  <2>1. render' \in [Callers -> Reports(written)]
    BY <1>4, TypeOfRender DEF Interrupt, TypeOK
  <2>2. interrupts' \in Nat /\ UNCHANGED <<written, ended, asked, page, failures>>
    BY <1>4 DEF Interrupt, TypeOK
  <2>3. /\ dirty' \in BOOLEAN /\ stopping' \in BOOLEAN /\ worker' \in {worker, "done"}
        /\ main' \in {main, "exiting", "closing", "done"}
    BY <1>4 DEF Interrupt, Exit, TypeOK
  <2> QED BY <2>1, <2>2, <2>3 DEF TypeOK
<1>5. ASSUME NEW c \in Callers, Read(c) \/ Write(c) \/ RenderFails(c) PROVE TypeOK'
  <2>1. written \in Nat /\ render \in [Callers -> Reports(written)]
    BY DEF TypeOK
  <2>2. None \in Reports(written) /\ Reading(written) \in Reports(written)
    BY <2>1, ReportStates
  <2>3. render' \in [Callers -> Reports(written)]
    BY <1>5, <2>1, <2>2 DEF Read, Write, RenderFails
  <2>4. page' \in 0..written
    BY <1>5, <2>1 DEF Read, Write, RenderFails, Reports, TypeOK
  <2> QED BY <1>5, <2>3, <2>4 DEF Read, Write, RenderFails, TypeOK
<1>6. CASE Terminated \/ UNCHANGED vars
  BY <1>6 DEF Terminated, vars, TypeOK
<1> QED BY <1>1, <1>2, <1>3, <1>4, <1>5, <1>6 DEF Next, Threads

(* The turns are kept by every step that is not an interrupt.              *)
LEMMA TurnsStep ==
  TypeOK /\ TakeTurns /\ [Next]_vars /\ ~Interrupt => TakeTurns'
<1> SUFFICES ASSUME TypeOK, TakeTurns, [Next]_vars, ~Interrupt PROVE TakeTurns'
  OBVIOUS
<1> USE DEF TypeOK, TakeTurns, Callers
<1>1. CASE Trading
  BY <1>1 DEF Trading, TickLogged, EventLogged, RunEnds, RunFails, Exit
<1>2. CASE Worker
  BY <1>2 DEF Worker, WorkerWakes, WorkerRendered, WorkerPaused, Start, Rendered
<1>3. CASE Shutdown
  BY <1>3 DEF Shutdown, WorkerAwaited, FinalRendered, Close, LastRendered, Start, Rendered
<1>4. ASSUME NEW c \in Callers, Read(c) \/ Write(c) \/ RenderFails(c) PROVE TakeTurns'
  <2>1. UNCHANGED <<worker, main>> /\ \A d \in Callers : d # c => render'[d] = render[d]
    BY <1>4 DEF Read, Write, RenderFails
  <2>2. render[c] # None
    BY <1>4, ThreadStates DEF Read, Write, RenderFails
  <2> QED BY <2>1, <2>2
<1>5. CASE Terminated \/ UNCHANGED vars
  BY <1>5 DEF Terminated, vars
<1> QED BY <1>1, <1>2, <1>3, <1>4, <1>5 DEF Next, Threads

LEMMA OneThread ==
  ASSUME TypeOK, TakeTurns, NEW c \in Callers, NEW d \in Callers, ~Rendered(c), ~Rendered(d)
  PROVE  c = d
BY DEF TypeOK, TakeTurns, Rendered, Callers

(* A thread that reads now holds the whole log; the one that writes is the *)
(* only one.                                                               *)
LEMMA CurrentStep ==
  TypeOK /\ TakeTurns /\ ThreadsAreCurrent /\ [Next]_vars /\ ~Interrupt => ThreadsAreCurrent'
<1> SUFFICES ASSUME TypeOK, TakeTurns, ThreadsAreCurrent, [Next]_vars, ~Interrupt,
                    NEW d \in Callers, (render[d].at = "rendering")'
             PROVE  page' <= render'[d].read
  BY DEF ThreadsAreCurrent
<1>1. CASE UNCHANGED render /\ UNCHANGED page
  BY <1>1 DEF ThreadsAreCurrent
<1>2. ASSUME NEW c \in Callers, Start(c), UNCHANGED page PROVE page' <= render'[d].read
  <2>1. d # c /\ render'[d] = render[d]
    BY <1>2, ThreadStates DEF Start, TypeOK
  <2> QED BY <1>2, <2>1 DEF ThreadsAreCurrent
<1>3. ASSUME NEW c \in Callers, Read(c) PROVE page' <= render'[d].read
  <2>1. page' = page /\ page <= written /\ \A e \in Callers : e # c => render'[e] = render[e]
    BY <1>3 DEF Read, TypeOK
  <2>2. render'[c] = Reading(written)
    BY <1>3 DEF Read, TypeOK
  <2> QED BY <2>1, <2>2, ThreadStates DEF ThreadsAreCurrent
<1>4. ASSUME NEW c \in Callers, Write(c) PROVE FALSE
  <2>1. render'[c] = None /\ \A e \in Callers : e # c => render'[e] = render[e]
    BY <1>4 DEF Write, TypeOK
  <2>2. d # c /\ render[d].at = "rendering" /\ render[c].at = "rendering"
    BY <1>4, <2>1, ThreadStates DEF Write
  <2> QED BY <2>2, OneThread, ThreadStates DEF Rendered
<1>5. ASSUME NEW c \in Callers, RenderFails(c) PROVE page' <= render'[d].read
  <2>1. page' = page /\ render'[c] = None /\ \A e \in Callers : e # c => render'[e] = render[e]
    BY <1>5 DEF RenderFails, TypeOK
  <2> QED BY <2>1, ThreadStates DEF ThreadsAreCurrent
<1>6. \/ UNCHANGED render /\ UNCHANGED page
      \/ \E c \in Callers : Start(c) /\ UNCHANGED page
      \/ \E c \in Callers : Read(c) \/ Write(c) \/ RenderFails(c)
  BY DEF Next, Trading, TickLogged, EventLogged, RunEnds, RunFails, Worker, WorkerWakes,
         WorkerRendered, WorkerPaused, Shutdown, WorkerAwaited, FinalRendered, Close,
         LastRendered, Threads, Terminated, vars, Callers
<1> QED BY <1>1, <1>2, <1>3, <1>4, <1>5, <1>6

LEMMA SummaryStep == SummaryInv /\ [Next]_vars => SummaryInv'
<1> SUFFICES ASSUME SummaryInv, [Next]_vars, interrupts' = 0
             PROVE  TakeTurns' /\ ThreadsAreCurrent'
  BY TypeStep DEF SummaryInv
<1>1. ~Interrupt /\ interrupts = 0
  BY DEF SummaryInv, TypeOK, Next, Trading, TickLogged, EventLogged, RunEnds, RunFails, Worker,
         WorkerWakes, WorkerRendered, WorkerPaused, Shutdown, WorkerAwaited, FinalRendered,
         Close, LastRendered, Threads, Read, Write, RenderFails, Terminated, vars, Interrupt
<1> QED BY <1>1, TurnsStep, CurrentStep DEF SummaryInv

(* The invariant, and with it the types, hold in every run.                *)
THEOREM SummaryInvariant == Spec => []SummaryInv
BY SummaryInit, SummaryStep, PTL DEF Spec

(* Every variable keeps its type; no report shows more than was written.   *)
THEOREM SummaryTypes == Spec => []TypeOK
<1>1. SummaryInv => TypeOK
  BY DEF SummaryInv
<1> QED BY <1>1, SummaryInvariant, PTL

(* No two threads ever write the report at once, unless interrupted.       *)
THEOREM OneRender == Spec => []OneRenderAtATime
<1>1. SummaryInv => OneRenderAtATime
  BY OneThread DEF SummaryInv, OneRenderAtATime
<1> QED BY <1>1, SummaryInvariant, PTL

(* The page never shows an older report than before, unless interrupted.   *)
THEOREM PageAdvances == Spec => PageOnlyAdvances
<1>1. SummaryInv /\ SummaryInv' /\ [Next]_vars => [interrupts' = 0 => page' >= page]_vars
  <2> SUFFICES ASSUME SummaryInv, [Next]_vars, interrupts' = 0 PROVE page' >= page
    OBVIOUS
  <2>1. interrupts = 0
    BY DEF SummaryInv, TypeOK, Next, Trading, TickLogged, EventLogged, RunEnds, RunFails, Worker,
         WorkerWakes, WorkerRendered, WorkerPaused, Shutdown, WorkerAwaited, FinalRendered,
         Close, LastRendered, Threads, Read, Write, RenderFails, Terminated, vars, Interrupt
  <2>2. page' = page \/ \E c \in Callers : Write(c)
    BY DEF Next, Trading, TickLogged, EventLogged, RunEnds, RunFails, Worker,
         WorkerWakes, WorkerRendered, WorkerPaused, Shutdown, WorkerAwaited, FinalRendered,
         Close, LastRendered, Threads, Read, RenderFails, Terminated, vars, Interrupt
  <2>3. page \in Int
    BY DEF SummaryInv, TypeOK
  <2> QED BY <2>1, <2>2, <2>3 DEF SummaryInv, ThreadsAreCurrent, Write
<1> QED BY <1>1, SummaryInvariant, PTL DEF Spec, PageOnlyAdvances

(* Once the last render has begun nothing is logged, and the thread of an  *)
(* undisturbed run leaves the whole log on the page.                       *)
LastReport ==
  Undisturbed =>
    /\ main = "lastRender" =>
         \/ render["finally"] = Queued
         \/ render["finally"] = Reading(written)
         \/ render["finally"] = None /\ page = written
    /\ main = "done" => page = written /\ \A c \in Callers : Rendered(c)

LEMMA LastReportStep == SummaryInv /\ LastReport /\ [Next]_vars => LastReport'
<1> SUFFICES ASSUME SummaryInv, LastReport, [Next]_vars, Undisturbed'
             PROVE  LastReport'
  BY DEF LastReport
<1>1. Undisturbed /\ ~Interrupt /\ \A c \in Callers : ~RenderFails(c)
  BY DEF Undisturbed, SummaryInv, TypeOK, Next, Trading, TickLogged, EventLogged, RunEnds,
         RunFails, Worker, WorkerWakes, WorkerRendered, WorkerPaused, Shutdown, WorkerAwaited,
         FinalRendered, Close, LastRendered, Threads, Read, Write, RenderFails, Terminated,
         vars, Interrupt
<1>2. TypeOK /\ TakeTurns /\ render \in [Callers -> Reports(written)]
  BY <1>1 DEF SummaryInv, Undisturbed, TypeOK
<1>3. CASE Trading
  BY <1>3 DEF Trading, TickLogged, EventLogged, RunEnds, RunFails, Exit, LastReport
<1>4. CASE Worker
  BY <1>2, <1>4 DEF Worker, WorkerWakes, WorkerRendered, WorkerPaused, LastReport, TakeTurns
<1>5. CASE Shutdown
  <2>1. CASE Close
    BY <1>2, <2>1 DEF Close, Start, LastReport, Callers
  <2>2. CASE LastRendered
    <3>1. main' = "done" /\ page' = written' /\ UNCHANGED render
      BY <1>1, <2>2, ThreadStates DEF LastRendered, Rendered, LastReport
    <3>2. \A c \in Callers : render[c] = None
      BY <1>2, <2>2 DEF LastRendered, Rendered, TakeTurns, Callers
    <3> QED BY <3>1, <3>2 DEF LastReport, Rendered
  <2>3. CASE WorkerAwaited \/ FinalRendered
    BY <2>3 DEF WorkerAwaited, FinalRendered, LastReport
  <2> QED BY <1>5, <2>1, <2>2, <2>3 DEF Shutdown
<1>6. ASSUME NEW c \in Callers, Read(c) \/ Write(c) PROVE LastReport'
  <2>1. UNCHANGED <<main, written>> /\ render[c] # None
    BY <1>6, ThreadStates DEF Read, Write
  <2>2. main # "done"
    BY <1>1, <2>1 DEF LastReport, Rendered
  <2>3. main = "lastRender" => c = "finally"
    BY <1>2, <2>1 DEF TakeTurns, Callers
  <2>4. CASE Read(c)
    BY <1>2, <2>1, <2>2, <2>3, <2>4 DEF Read, LastReport
  <2>5. CASE Write(c)
    <3>1. main = "lastRender" => render["finally"] = Reading(written)
      BY <1>1, <2>1, <2>3, <2>5, ThreadStates DEF Write, LastReport
    <3>2. main = "lastRender" => page' = written /\ render'["finally"] = None
      BY <1>2, <2>3, <2>5, <3>1, ThreadStates DEF Write
    <3> QED BY <2>1, <2>2, <3>2 DEF LastReport
  <2> QED BY <1>6, <2>4, <2>5
<1>7. CASE Terminated \/ UNCHANGED vars
  BY <1>7 DEF Terminated, vars, LastReport, Undisturbed, Rendered
<1> QED BY <1>1, <1>3, <1>4, <1>5, <1>6, <1>7 DEF Next, Threads

LEMMA LastReportHolds == Spec => []LastReport
<1>1. Init => LastReport
  BY DEF Init, LastReport
<1>2. SummaryInv /\ LastReport /\ [Next]_vars => LastReport'
  BY LastReportStep
<1> QED BY <1>1, <1>2, SummaryInvariant, PTL DEF Spec

(* When an undisturbed process ends, the page shows the whole log.         *)
THEOREM FinalReport == Spec => []FinalReportIsComplete
<1>1. LastReport => FinalReportIsComplete
  BY DEF LastReport, FinalReportIsComplete
<1> QED BY <1>1, LastReportHolds, PTL

-----------------------------------------------------------------------------
(* The log.                                                                *)

Records == [id : 1..MaxTransactions, tick : Nat]

(* The log holds what is seen, each transaction once; all but the          *)
(* transactions of the present tick are seen.                              *)
LogTypes ==
  /\ view \in [tick : Nat, over : BOOLEAN, transactions : SUBSET Records]
  /\ IsFiniteSet(view.transactions)
  /\ loggedTick \in Int /\ seen \in SUBSET (1..MaxTransactions)
  /\ log \in Seq(SUBSET (1..MaxTransactions))

AllButTheTick ==
  /\ loggedTick = view.tick \/ (loggedTick = -1 /\ view.transactions = {})
  /\ \A x \in view.transactions : x.tick < view.tick => x.id \in seen

LogInv == LogTypes /\ seen = Logged(Len(log)) /\ LoggedOnce /\ AllButTheTick

LEMMA LogInitially == LogInit => LogInv
<1> SUFFICES ASSUME LogInit PROVE LogInv
  OBVIOUS
<1>1. IsFiniteSet(view.transactions)
  BY FS_EmptySet DEF LogInit
<1>2. LogTypes
  BY <1>1 DEF LogInit, LogTypes
<1>3. Logged(Len(log)) = {}
  BY DEF LogInit, Logged
<1> QED BY <1>2, <1>3 DEF LogInv, LogInit, LoggedOnce, AllButTheTick

(* An entry that holds nothing seen keeps the log free of repetitions.     *)
LEMMA Appended ==
  ASSUME LogTypes, seen = Logged(Len(log)), LoggedOnce,
         NEW entry \in SUBSET (1..MaxTransactions), entry \cap seen = {},
         log' = Append(log, entry)
  PROVE  /\ log' \in Seq(SUBSET (1..MaxTransactions))
         /\ (Logged(Len(log)))' = seen \cup entry
         /\ LoggedOnce'
<1>1. /\ log' \in Seq(SUBSET (1..MaxTransactions)) /\ Len(log') = Len(log) + 1
      /\ Len(log) \in Nat /\ log'[Len(log')] = entry
      /\ \A k \in 1..Len(log) : log'[k] = log[k]
  BY DEF LogTypes
<1>2. (Logged(Len(log)))' = seen \cup entry
  <2>1. ASSUME NEW i \in seen PROVE i \in (Logged(Len(log)))'
    <3>1. PICK k \in 1..Len(log) : i \in log[k]
      BY <2>1 DEF Logged
    <3>2. k \in 1..Len(log') /\ i \in log'[k]
      BY <1>1, <3>1
    <3> QED BY <3>2 DEF Logged
  <2>2. ASSUME NEW i \in entry PROVE i \in (Logged(Len(log)))'
    <3>1. Len(log') \in 1..Len(log') /\ i \in log'[Len(log')]
      BY <1>1, <2>2
    <3> QED BY <3>1 DEF Logged
  <2>3. ASSUME NEW i \in (Logged(Len(log)))' PROVE i \in seen \cup entry
    <3>1. PICK k \in 1..Len(log') : i \in log'[k]
      BY <2>3 DEF Logged
    <3>2. CASE k \in 1..Len(log)
      BY <1>1, <3>1, <3>2 DEF Logged
    <3>3. CASE k = Len(log')
      BY <1>1, <3>1, <3>3
    <3> QED BY <1>1, <3>2, <3>3
  <2> QED BY <2>1, <2>2, <2>3
<1>3. LoggedOnce'
  <2> SUFFICES ASSUME NEW j \in 1..Len(log'), NEW k \in 1..Len(log'),
                      NEW i \in log'[j] \cap log'[k]
               PROVE  j = k
    BY <1>1 DEF LoggedOnce
  <2>1. ASSUME NEW n \in 1..Len(log) PROVE log'[n] = log[n] /\ log[n] \subseteq seen
    BY <1>1, <2>1 DEF Logged
  <2>2. CASE j \in 1..Len(log) /\ k \in 1..Len(log)
    <3>1. j \in DOMAIN log /\ k \in DOMAIN log /\ log[j] \cap log[k] # {}
      BY <2>1, <2>2 DEF LogTypes
    <3> QED BY <3>1 DEF LoggedOnce
  <2>3. CASE j = Len(log') /\ k \in 1..Len(log)
    BY <1>1, <2>1, <2>3
  <2>4. CASE j \in 1..Len(log) /\ k = Len(log')
    BY <1>1, <2>1, <2>4
  <2> QED BY <1>1, <2>2, <2>3, <2>4
<1> QED BY <1>1, <1>2, <1>3

(* What a pass reads: the transactions that are new settled in a tick it   *)
(* had not left.                                                           *)
LEMMA WorldRead ==
  ASSUME LogTypes, ReadWorld
  PROVE  /\ view' \in [tick : Nat, over : BOOLEAN, transactions : SUBSET Records]
         /\ IsFiniteSet(view'.transactions)
         /\ view'.tick >= view.tick
         /\ \A x \in view'.transactions : x \in view.transactions \/ x.tick >= view.tick
<1> DEFINE n == Cardinality(view.transactions)
<1>1. n \in Nat
  BY FS_CardinalityType DEF LogTypes
<1>2. PICK t \in view.tick..MaxTick, m \in n..MaxTransactions, over \in BOOLEAN :
        \E settledTick \in [(n + 1)..m -> view.tick..t] :
          view' = [tick |-> t, over |-> over,
                   transactions |-> view.transactions \cup
                     {[id |-> i, tick |-> settledTick[i]] : i \in (n + 1)..m}]
  BY DEF ReadWorld
<1>3. PICK settledTick \in [(n + 1)..m -> view.tick..t] :
        view' = [tick |-> t, over |-> over,
                 transactions |-> view.transactions \cup
                   {[id |-> i, tick |-> settledTick[i]] : i \in (n + 1)..m}]
  BY <1>2
<1> DEFINE new == {[id |-> i, tick |-> settledTick[i]] : i \in (n + 1)..m}
<1>4. /\ view.tick \in Nat /\ t \in Nat /\ t >= view.tick
      /\ m \in Nat /\ m <= MaxTransactions /\ (n + 1)..m \subseteq 1..MaxTransactions
  BY <1>1, RunLogAssumption DEF LogTypes
<1>5. \A x \in new : x \in Records /\ x.tick >= view.tick
  <2> SUFFICES ASSUME NEW i \in (n + 1)..m
               PROVE  /\ [id |-> i, tick |-> settledTick[i]] \in Records
                      /\ settledTick[i] >= view.tick
    OBVIOUS
  <2>1. settledTick[i] \in view.tick..t
    BY <1>3
  <2> QED BY <1>4, <2>1 DEF Records
<1>6. IsFiniteSet(new)
  <2>1. IsFiniteSet((n + 1)..m)
    BY <1>1, <1>4, FS_Interval
  <2> DEFINE f == [i \in (n + 1)..m |-> [id |-> i, tick |-> settledTick[i]]]
  <2>2. f \in Surjection((n + 1)..m, new)
    BY DEF Surjection
  <2> QED BY <2>1, <2>2, FS_Surjection
<1>7. IsFiniteSet(view.transactions \cup new)
  BY <1>6, FS_Union DEF LogTypes
<1> QED BY <1>3, <1>4, <1>5, <1>7 DEF LogTypes

LEMMA PassStep == LogInv /\ Pass => LogInv'
<1> SUFFICES ASSUME LogInv, Pass PROVE LogInv'
  OBVIOUS
<1>1. LogTypes /\ ReadWorld /\ AllButTheTick
  BY DEF LogInv, Pass
<1>2. /\ view' \in [tick : Nat, over : BOOLEAN, transactions : SUBSET Records]
      /\ IsFiniteSet(view'.transactions)
      /\ view.tick \in Nat /\ view'.tick \in Nat /\ view'.tick >= view.tick
      /\ \A x \in view'.transactions : x \in view.transactions \/ x.tick >= view.tick
  BY <1>1, WorldRead DEF LogTypes
<1>3. CASE view'.tick # loggedTick
  <2>1. /\ loggedTick' = view'.tick /\ seen' = seen \cup NewTransactions
        /\ log' = Append(log, NewTransactions)
    BY <1>3 DEF Pass
  <2>2. Ids(view'.transactions) \in SUBSET (1..MaxTransactions)
    BY <1>2 DEF Ids, Records
  <2>3. /\ NewTransactions \in SUBSET (1..MaxTransactions) /\ NewTransactions \cap seen = {}
        /\ seen' = seen \cup Ids(view'.transactions)
    BY <2>1, <2>2 DEF NewTransactions
  <2>4. /\ log' \in Seq(SUBSET (1..MaxTransactions)) /\ LoggedOnce'
        /\ (Logged(Len(log)))' = seen'
    BY <1>1, <2>1, <2>3, Appended DEF LogInv
  <2>5. LogTypes'
    BY <1>1, <1>2, <2>1, <2>2, <2>3, <2>4 DEF LogTypes
  <2>6. AllButTheTick'
    BY <2>1, <2>3 DEF AllButTheTick, Ids
  <2> QED BY <2>4, <2>5, <2>6 DEF LogInv
<1>4. CASE view'.tick = loggedTick
  <2>1. UNCHANGED <<loggedTick, seen, log>>
    BY <1>4 DEF Pass
  <2>2. view'.tick = view.tick
    BY <1>1, <1>2, <1>4 DEF AllButTheTick
  <2>3. AllButTheTick'
    <3> SUFFICES ASSUME NEW x \in view'.transactions, x.tick < view'.tick
                 PROVE  x.id \in seen
      BY <1>4, <2>1 DEF AllButTheTick
    <3>1. x.tick \in Nat
      BY <1>2 DEF Records
    <3>2. x \in view.transactions
      BY <1>2, <2>2, <3>1
    <3> QED BY <1>1, <2>2, <3>2 DEF AllButTheTick
  <2> QED BY <1>1, <1>2, <2>1, <2>3 DEF LogInv, LogTypes, Logged, LoggedOnce
<1> QED BY <1>3, <1>4

LEMMA LogStep == LogInv /\ [LogNext]_logVars => LogInv'
<1> SUFFICES ASSUME LogInv, [LogNext]_logVars PROVE LogInv'
  OBVIOUS
<1>1. CASE Pass
  BY <1>1, PassStep
<1>2. CASE (Logs \/ LogsEnd) /\ UNCHANGED <<view, loggedTick, seen>>
  <2>1. log' = Append(log, {}) /\ UNCHANGED <<view, loggedTick, seen>>
    BY <1>2 DEF Logs, LogsEnd
  <2>2. /\ log' \in Seq(SUBSET (1..MaxTransactions)) /\ LoggedOnce'
        /\ (Logged(Len(log)))' = seen \cup {}
    BY <2>1, Appended DEF LogInv
  <2> QED BY <2>1, <2>2 DEF LogInv, LogTypes, AllButTheTick
<1>3. CASE UNCHANGED <<view, loggedTick, seen, log>>
  BY <1>3 DEF LogInv, LogTypes, AllButTheTick, Logged, LoggedOnce
<1> QED BY <1>1, <1>2, <1>3
       DEF LogNext, Loop, Finished, Wait, Decide, Result, Reconciled, TimedOut, Failed,
           Report, logVars, loopVars

(* The log holds what was seen, each once, in every run.                   *)
THEOREM LogInvariant == LogSpec => []LogInv
BY LogInitially, LogStep, PTL DEF LogSpec

(* No transaction is logged twice.                                         *)
THEOREM EachLoggedOnce == LogSpec => []LoggedOnce
<1>1. LogInv => LoggedOnce
  BY DEF LogInv
<1> QED BY <1>1, LogInvariant, PTL

(* What settled in earlier ticks is logged before the loop acts.           *)
THEOREM EarlierTicksLogged == LogSpec => []SettledIsLogged
<1>1. LogInv => SettledIsLogged
  BY DEF LogInv, AllButTheTick, SettledIsLogged
<1> QED BY <1>1, LogInvariant, PTL

(* The loop's logging is that of LiveSummary: whatever holds of the latter *)
(* holds of the log with its content.                                      *)
THEOREM LogRefinesSummary == LogSpec => Spec
<1>1. LogInit => Init
  BY DEF LogInit
<1>2. [LogNext]_logVars => [Next]_vars
  <2> SUFFICES ASSUME [LogNext]_logVars PROVE [Next]_vars
    OBVIOUS
  <2>1. CASE Loop
    BY <2>1 DEF Loop, Pass, Finished, Wait, Decide, Result, Reconciled, TimedOut, Failed,
                Logs, LogsEnd, Next, Trading
  <2>2. CASE Report
    BY <2>2 DEF Report, Next
  <2>3. CASE UNCHANGED logVars
    BY <2>3 DEF logVars
  <2> QED BY <2>1, <2>2, <2>3 DEF LogNext
<1> QED BY <1>1, <1>2, PTL DEF LogSpec, Spec

(* The page an undisturbed run leaves has every transaction settled before *)
(* the last tick.                                                          *)
THEOREM PageIsTrue == LogSpec => []PageTellsTheRun
<1> DEFINE Counted == written = Len(log)
<1>1. LogInit => Counted
  BY DEF LogInit, Init
<1>2. LogInv /\ Counted /\ [LogNext]_logVars => Counted'
  <2> SUFFICES ASSUME LogInv, Counted, [LogNext]_logVars PROVE Counted'
    OBVIOUS
  <2>1. log \in Seq(SUBSET (1..MaxTransactions))
    BY DEF LogInv, LogTypes
  <2>2. CASE Loop
    <3>1. \/ written' = written + 1 /\ \E entry : log' = Append(log, entry)
          \/ UNCHANGED <<written, log>>
      BY <2>2 DEF Loop, Pass, Finished, Wait, Decide, Result, Reconciled, TimedOut, Failed,
                  Logs, LogsEnd, TickLogged, EventLogged, RunEnds, RunFails, vars, loopVars
    <3> QED BY <2>1, <3>1
  <2>3. CASE Report
    BY <2>3 DEF Report, loopVars, Worker, WorkerWakes, WorkerRendered, WorkerPaused, Shutdown,
                WorkerAwaited, FinalRendered, Close, LastRendered, Threads, Read, Write,
                RenderFails, Interrupt, Terminated, vars
  <2>4. CASE UNCHANGED logVars
    BY <2>4 DEF logVars, loopVars, vars
  <2> QED BY <2>2, <2>3, <2>4 DEF LogNext
<1>3. LogInv /\ Counted /\ LastReport => PageTellsTheRun
  BY DEF LogInv, AllButTheTick, LastReport, PageTellsTheRun
<1>4. Spec => []LastReport
  BY LastReportHolds
<1> QED BY <1>1, <1>2, <1>3, <1>4, LogInvariant, LogRefinesSummary, PTL DEF LogSpec
=============================================================================
