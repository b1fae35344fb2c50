------------------------------- MODULE Runner -------------------------------
(***************************************************************************)
(* The life of the ingestion daemon: IngestionRunner.run in the main       *)
(* thread, the watchdog observers it starts through IncomingWatcher, and   *)
(* the handler of SIGTERM and SIGINT.  Python runs a handler in the main   *)
(* thread between two of its instructions, so the main thread stands still *)
(* while one is active; but a second signal interrupts the first handler.  *)
(***************************************************************************)
EXTENDS Naturals, Sequences, FiniteSets

CONSTANTS
  MaxSignals,    (* bound: signals delivered                               *)
  MaxFailures    (* bound: observers that fail to start                    *)

ASSUME BoundsAssumption == {MaxSignals, MaxFailures} \subseteq Nat

VARIABLES
  pc,        (* point reached by the main thread                           *)
  stopped,   (* IngestionRunner._stopped                                   *)
  running,   (* IncomingWatcher._running                                   *)
  observer,  (* IncomingWatcher._observer: a number, 0 for None            *)
  thread,    (* the observers created so far and what their threads do     *)
  handlers,  (* active handlers, each at a point of request_stop           *)
  signals,   (* bounded counter                                            *)
  late       (* history: a signal came while a cycle had yet to start the  *)
             (* watcher, or was starting it                                *)

vars == <<pc, stopped, running, observer, thread, handlers, signals, late>>
watcherVars == <<running, observer, thread>>

(* From the test of _stopped to the watcher marked as running.             *)
Starting == {"cycle", "create", "launch", "mark"}

Points == {"flag", "check", "test", "halt", "join", "wait", "forget", "clear"}

TypeOK ==
  /\ pc \in Starting \union {"loop", "sweep", "sleep", "done"}
  /\ {stopped, running, late} \subseteq BOOLEAN
  /\ thread \in Seq({"made", "failed", "alive", "halting", "dead"})
  /\ observer \in 0..Len(thread)
  /\ handlers = <<>> /\ running => observer # 0
  /\ handlers \in Seq(Points)
  /\ Len(handlers) <= signals /\ signals \in 0..MaxSignals

Init ==
  /\ pc = "loop" /\ stopped = FALSE /\ running = FALSE
  /\ observer = 0 /\ thread = <<>>
  /\ handlers = <<>> /\ signals = 0 /\ late = FALSE

-----------------------------------------------------------------------------
(* The main thread: run, run_cycle and IncomingWatcher.start *)

MainStep(from, to) ==
  /\ handlers = <<>> /\ pc = from /\ pc' = to
  /\ UNCHANGED <<stopped, handlers, signals, late>>

CheckStop ==
  /\ IF stopped THEN MainStep("loop", "done") ELSE MainStep("loop", "cycle")
  /\ UNCHANGED watcherVars

(* Mutant of BeginCycle: every cycle starts an observer.                   *)
BeginCycleUnguarded ==
  /\ MainStep("cycle", "create")
  /\ UNCHANGED watcherVars

(* Storage is initialised, the heartbeat touched, and the watcher asked    *)
(* whether it is running; start() asks again before anything else.         *)
BeginCycle ==
  /\ IF running THEN MainStep("cycle", "sweep") ELSE MainStep("cycle", "create")
  /\ UNCHANGED watcherVars

CreateObserver ==
  /\ MainStep("create", "launch")
  /\ thread' = Append(thread, "made")
  /\ observer' = Len(thread')
  /\ UNCHANGED running

LaunchObserver ==
  /\ MainStep("launch", "mark")
  /\ thread' = [thread EXCEPT ![Len(thread)] = "alive"]
  /\ UNCHANGED <<running, observer>>

Failed == {o \in DOMAIN thread : thread[o] = "failed"}

(* Mutant of LaunchFails: the failure is not noticed.                      *)
LaunchFailsUnnoticed ==
  /\ Cardinality(Failed) < MaxFailures
  /\ MainStep("launch", "mark")
  /\ thread' = [thread EXCEPT ![Len(thread)] = "failed"]
  /\ UNCHANGED <<running, observer>>

(* observer.start() raises: the cycle goes on with the sweep alone, and    *)
(* the next one creates another observer.                                  *)
LaunchFails ==
  /\ Cardinality(Failed) < MaxFailures
  /\ MainStep("launch", "sweep")
  /\ thread' = [thread EXCEPT ![Len(thread)] = "failed"]
  /\ UNCHANGED <<running, observer>>

(* Mutant of MarkRunning: a start takes back the request to stop.          *)
MarkRunningAfresh ==
  /\ handlers = <<>> /\ pc = "mark" /\ pc' = "sweep"
  /\ running' = TRUE /\ stopped' = FALSE
  /\ UNCHANGED <<observer, thread, handlers, signals, late>>

MarkRunning ==
  /\ MainStep("mark", "sweep")
  /\ running' = TRUE
  /\ UNCHANGED <<observer, thread>>

(* scan_incoming: the pipeline of module Ingestion, to its end.            *)
Sweep == MainStep("sweep", "sleep") /\ UNCHANGED watcherVars

(* time.sleep resumes after a handler, it is not cut short.                *)
Wake == MainStep("sleep", "loop") /\ UNCHANGED watcherVars

Main == \/ CheckStop \/ BeginCycle \/ CreateObserver \/ LaunchObserver
        \/ LaunchFails \/ MarkRunning \/ Sweep \/ Wake

-----------------------------------------------------------------------------
(* The signal handler: request_stop and IncomingWatcher.stop *)

Signal ==
  /\ pc # "done" /\ signals < MaxSignals
  /\ signals' = signals + 1
  /\ handlers' = Append(handlers, "flag")
  /\ late' = (late \/ pc \in Starting)
  /\ UNCHANGED <<pc, stopped, watcherVars>>

Returned == SubSeq(handlers, 1, Len(handlers) - 1)

(* The innermost handler is at a point and goes on to another.             *)
At(point) == handlers # <<>> /\ handlers[Len(handlers)] = point
GoTo(point) == handlers' = Append(Returned, point)
Return == handlers' = Returned

RequestStop ==
  /\ At("flag") /\ GoTo("check")
  /\ stopped' = TRUE
  /\ UNCHANGED <<pc, watcherVars, signals, late>>

CheckRunning ==
  /\ At("check") /\ IF running THEN GoTo("test") ELSE Return
  /\ UNCHANGED <<pc, stopped, watcherVars, signals, late>>

TestObserver ==
  /\ At("test") /\ GoTo(IF observer # 0 THEN "halt" ELSE "clear")
  /\ UNCHANGED <<pc, stopped, watcherVars, signals, late>>

(* Mutant of HaltObserver: the observer is only joined.                    *)
HaltForgotten ==
  /\ At("halt") /\ GoTo("join")
  /\ UNCHANGED <<pc, stopped, watcherVars, signals, late>>

(* self._observer.stop(); when a later handler has set it to None          *)
(* meanwhile this raises, and request_stop logs it.                        *)
HaltObserver ==
  /\ At("halt") /\ IF observer # 0 THEN GoTo("join") ELSE Return
  /\ thread' = IF observer # 0 THEN [thread EXCEPT ![observer] = "halting"] ELSE thread
  /\ UNCHANGED <<pc, stopped, running, observer, signals, late>>

JoinObserver ==
  /\ At("join") /\ IF observer # 0 THEN GoTo("wait") ELSE Return
  /\ UNCHANGED <<pc, stopped, watcherVars, signals, late>>

(* join returns when the thread has ended, or after two seconds.           *)
JoinReturns ==
  /\ At("wait") /\ GoTo("forget")
  /\ UNCHANGED <<pc, stopped, watcherVars, signals, late>>

ForgetObserver ==
  /\ At("forget") /\ GoTo("clear")
  /\ observer' = 0
  /\ UNCHANGED <<pc, stopped, running, thread, signals, late>>

(* Mutant of ClearRunning: the flag stays set.                             *)
ClearNothing ==
  /\ At("clear") /\ Return
  /\ UNCHANGED <<pc, stopped, watcherVars, signals, late>>

ClearRunning ==
  /\ At("clear") /\ Return
  /\ running' = FALSE
  /\ UNCHANGED <<pc, stopped, observer, thread, signals, late>>

Handler == \/ RequestStop \/ CheckRunning \/ TestObserver \/ HaltObserver
           \/ JoinObserver \/ JoinReturns \/ ForgetObserver \/ ClearRunning

(* The thread of an observer that was told to stop ends.                   *)
ObserverEnds ==
  /\ \E o \in DOMAIN thread : /\ thread[o] = "halting"
                              /\ thread' = [thread EXCEPT ![o] = "dead"]
  /\ UNCHANGED <<pc, stopped, running, observer, handlers, signals, late>>

(* The process has ended.                                                  *)
Terminated == pc = "done" /\ handlers = <<>> /\ UNCHANGED vars

Next == Main \/ Signal \/ Handler \/ ObserverEnds \/ Terminated

Spec == Init /\ [][Next]_vars

(* The main thread runs, in its own code or in a handler.                  *)
FairSpec == Spec /\ WF_vars(Main) /\ WF_vars(Handler)
-----------------------------------------------------------------------------
(* Properties *)

Alive == {o \in DOMAIN thread : thread[o] = "alive"}

(* Unless a handler is at work, a watcher that says it is running has its  *)
(* observer: no cycle skips a start that was needed, whatever handlers     *)
(* interrupted which others or failed.                                     *)
RunningIsObserved == handlers = <<>> /\ running => observer \in Alive

(* No live observer is out of reach: it is the one the watcher knows, and  *)
(* stop() would find it, from the moment the watcher is marked as running. *)
NoObserverLost ==
  \A o \in Alive : o = observer /\ (running \/ pc = "mark")

(* A daemon that was asked to stop while it was not about to start its     *)
(* watcher leaves no observer behind, however many signals came.           *)
CleanUnlessLate == pc = "done" /\ ~late => Alive = {}

(* A requested stop ends the daemon.                                       *)
StopIsObeyed == stopped ~> pc = "done"
-----------------------------------------------------------------------------
(* The inductive invariant *)

HandlerAt(points) == \E k \in DOMAIN handlers : handlers[k] \in points

(* Points of a handler that has told the observer to stop, or saw none; of *)
(* one that found the watcher running; and of one that has yet to look.    *)
Halted    == {"join", "wait", "forget", "clear"}
Found     == {"test", "halt"} \union Halted
Requested == {"check"} \union Found

(* While the watcher is being started nothing else touches its observer.   *)
StartInv ==
  /\ pc \in {"create", "launch", "mark"} =>
       ~running /\ ~HandlerAt(Found)
  /\ pc = "launch" => /\ Len(thread) # 0 /\ observer = Len(thread)
                      /\ thread[observer] = "made"
  /\ pc = "mark" => observer \in Alive

(* A watcher that runs without a live observer has a handler on its way to *)
(* clear the flag; whoever set the observer to None is, as the handlers    *)
(* that interrupted it return first.                                       *)
ObserverInv ==
  /\ running /\ observer = 0 => HandlerAt({"clear"})
  /\ running /\ observer \notin Alive => HandlerAt(Halted)
  /\ HandlerAt(Halted) => observer \notin Alive
  /\ NoObserverLost

(* A stop requested outside a start ends what runs, and nothing starts     *)
(* again.                                                                  *)
StopInv ==
  /\ pc = "done" => stopped /\ handlers = <<>>
  /\ ~late /\ (stopped \/ handlers # <<>>) => pc \notin Starting
  /\ ~late /\ stopped /\ running => HandlerAt(Requested)

RunnerInv == TypeOK /\ StartInv /\ ObserverInv /\ StopInv
=============================================================================
