---------------------------- MODULE RunnerProofs ----------------------------
(***************************************************************************)
(* Theorems about Runner, for any number of signals, of handlers that      *)
(* interrupt each other, and of observers that fail to start.  Handlers    *)
(* are a stack of which only the last moves, so that a step is known by    *)
(* what stays below it.                                                    *)
(***************************************************************************)
EXTENDS Runner, SequenceTheorems, TLAPS

USE BoundsAssumption

-----------------------------------------------------------------------------
(* The stack of handlers *)

Below(S) == \E k \in 1..(Len(handlers) - 1) : handlers[k] \in S

LEMMA NoHandler ==
  ASSUME handlers = <<>>, NEW S
  PROVE  ~HandlerAt(S)
BY DEF HandlerAt

LEMMA StackType ==
  ASSUME handlers \in Seq(Points), handlers # <<>>
  PROVE  /\ Len(handlers) \in Nat \ {0} /\ DOMAIN handlers = 1..Len(handlers)
         /\ \A k \in 1..(Len(handlers) - 1) : handlers[k] \in Points
         /\ handlers[Len(handlers)] \in Points
<1>1. Len(handlers) \in Nat \ {0} /\ DOMAIN handlers = 1..Len(handlers)
  BY EmptySeq, LenProperties
<1>2. \A k \in 1..Len(handlers) : handlers[k] \in Points
  BY ElementOfSeq
<1>3. QED  BY <1>1, <1>2

LEMMA TopOrBelow ==
  ASSUME handlers \in Seq(Points), handlers # <<>>, NEW S
  PROVE  HandlerAt(S) <=> handlers[Len(handlers)] \in S \/ Below(S)
<1> DEFINE n == Len(handlers)
<1>1. n \in Nat \ {0} /\ DOMAIN handlers = 1..n
  BY StackType
<1> HIDE DEF n
<1>2. \A k : k \in 1..n <=> k = n \/ k \in 1..(n - 1)
  BY <1>1
<1>3. HandlerAt(S) <=> \E k \in 1..n : handlers[k] \in S
  BY <1>1 DEF HandlerAt
<1>4. Below(S) <=> \E k \in 1..(n - 1) : handlers[k] \in S
  BY DEF Below, n
<1>5. QED  BY <1>2, <1>3, <1>4 DEF n

(* What stays when the innermost handler leaves.                           *)
LEMMA ReturnedType ==
  ASSUME handlers \in Seq(Points), handlers # <<>>
  PROVE  /\ Returned \in Seq(Points) /\ Len(Returned) = Len(handlers) - 1
         /\ \A k \in 1..(Len(handlers) - 1) : Returned[k] = handlers[k]
<1> DEFINE n == Len(handlers)
<1>1. n \in Nat \ {0} /\ \A k \in 1..(n - 1) : handlers[k] \in Points
  BY StackType
<1>2. Returned = SubSeq(handlers, 1, n - 1)
  BY DEF Returned
<1> HIDE DEF n
<1>3. n - 1 \in Int /\ 1 \in Int
  BY <1>1
<1>4. /\ Returned \in Seq(Points)
      /\ Len(Returned) = IF 1 <= n - 1 THEN n - 1 - 1 + 1 ELSE 0
      /\ \A k \in 1 .. n - 1 - 1 + 1 : Returned[k] = handlers[1 + k - 1]
  BY <1>1, <1>2, <1>3, SubSeqProperties
<1>5. Len(Returned) = n - 1
  BY <1>1, <1>4
<1>6. n - 1 - 1 + 1 = n - 1 /\ \A k \in 1..(n - 1) : 1 + k - 1 = k
  BY <1>1
<1>7. QED  BY <1>4, <1>5, <1>6 DEF n

(* The innermost handler returns.                                          *)
LEMMA TopReturns ==
  ASSUME handlers \in Seq(Points), handlers # <<>>, Return
  PROVE  /\ handlers' \in Seq(Points) /\ Len(handlers') = Len(handlers) - 1
         /\ \A S : HandlerAt(S)' <=> Below(S)
<1>1. handlers' = Returned
  BY DEF Return
<1>2. /\ handlers' \in Seq(Points) /\ Len(handlers') = Len(handlers) - 1
      /\ \A k \in 1..(Len(handlers) - 1) : handlers'[k] = handlers[k]
  BY <1>1, ReturnedType
<1>3. DOMAIN handlers' = 1..(Len(handlers) - 1)
  BY <1>2, LenProperties
<1>4. QED  BY <1>2, <1>3 DEF HandlerAt, Below

(* It goes on to another point.                                            *)
LEMMA TopMoves ==
  ASSUME handlers \in Seq(Points), handlers # <<>>, NEW q \in Points, GoTo(q)
  PROVE  /\ handlers' \in Seq(Points) /\ Len(handlers') = Len(handlers)
         /\ handlers' # <<>>
         /\ \A S : HandlerAt(S)' <=> q \in S \/ Below(S)
<1> DEFINE n == Len(handlers)
<1>1. n \in Nat \ {0}
  BY StackType
<1>2. /\ Returned \in Seq(Points) /\ Len(Returned) = n - 1
      /\ \A k \in 1..(n - 1) : Returned[k] = handlers[k]
  BY ReturnedType
<1>3. handlers' = Append(Returned, q)
  BY DEF GoTo
<1> HIDE DEF n
<1>4. /\ handlers' \in Seq(Points) /\ Len(handlers') = n - 1 + 1
      /\ \A k \in 1..(n - 1) : handlers'[k] = Returned[k]
      /\ handlers'[n - 1 + 1] = q
  BY <1>2, <1>3, AppendProperties
<1>5. n - 1 + 1 = n /\ \A k : k \in 1..n <=> k = n \/ k \in 1..(n - 1)
  BY <1>1
<1>6. Len(handlers') = n /\ DOMAIN handlers' = 1..n
  BY <1>4, <1>5, LenProperties
<1>7. ASSUME NEW S PROVE HandlerAt(S)' <=> q \in S \/ Below(S)
  <2>1. HandlerAt(S)' <=> \E k \in 1..n : handlers'[k] \in S
    BY <1>6 DEF HandlerAt
  <2>2. Below(S) <=> \E k \in 1..(n - 1) : handlers[k] \in S
    BY DEF Below, n
  <2>3. QED  BY <1>2, <1>4, <1>5, <2>1, <2>2
<1>8. handlers' # <<>>
  BY <1>1, <1>6, EmptySeq
<1>9. QED  BY <1>4, <1>6, <1>7, <1>8 DEF n

(* A new handler interrupts what there is.                                 *)
LEMMA HandlerStarts ==
  ASSUME handlers \in Seq(Points), handlers' = Append(handlers, "flag")
  PROVE  /\ handlers' \in Seq(Points) /\ Len(handlers') = Len(handlers) + 1
         /\ handlers' # <<>>
         /\ \A S : HandlerAt(S)' <=> "flag" \in S \/ HandlerAt(S)
<1> DEFINE n == Len(handlers)
<1>1. n \in Nat /\ DOMAIN handlers = 1..n
  BY LenProperties
<1>2. "flag" \in Points
  BY DEF Points
<1>3. /\ handlers' \in Seq(Points) /\ Len(handlers') = n + 1
      /\ \A k \in 1..n : handlers'[k] = handlers[k]
      /\ handlers'[n + 1] = "flag"
  BY <1>2, AppendProperties
<1> HIDE DEF n
<1>4. DOMAIN handlers' = 1..(n + 1)
  BY <1>3, LenProperties
<1>5. \A k : k \in 1..(n + 1) <=> k = n + 1 \/ k \in 1..n
  BY <1>1
<1>6. ASSUME NEW S PROVE HandlerAt(S)' <=> "flag" \in S \/ HandlerAt(S)
  <2>1. HandlerAt(S)' <=> \E k \in 1..(n + 1) : handlers'[k] \in S
    BY <1>4 DEF HandlerAt
  <2>2. HandlerAt(S) <=> \E k \in 1..n : handlers[k] \in S
    BY <1>1 DEF HandlerAt
  <2>3. QED  BY <1>3, <1>5, <2>1, <2>2
<1>7. handlers' # <<>>
  BY <1>1, <1>3, EmptySeq
<1>8. QED  BY <1>3, <1>6, <1>7 DEF n

-----------------------------------------------------------------------------
(* What the invariant is told of a step of the innermost handler *)

LEMMA Moves ==
  ASSUME TypeOK, NEW p \in Points, NEW q \in Points, At(p), GoTo(q)
  PROVE  /\ handlers' \in Seq(Points) /\ Len(handlers') = Len(handlers)
         /\ handlers # <<>> /\ handlers' # <<>>
         /\ \A S : HandlerAt(S) <=> p \in S \/ Below(S)
         /\ \A S : HandlerAt(S)' <=> q \in S \/ Below(S)
<1>1. handlers \in Seq(Points) /\ handlers # <<>> /\ handlers[Len(handlers)] = p
  BY DEF TypeOK, At
<1>2. QED  BY <1>1, TopOrBelow, TopMoves

LEMMA Returns ==
  ASSUME TypeOK, NEW p \in Points, At(p), Return
  PROVE  /\ handlers' \in Seq(Points) /\ Len(handlers') <= Len(handlers)
         /\ handlers # <<>>
         /\ \A S : HandlerAt(S) <=> p \in S \/ Below(S)
         /\ \A S : HandlerAt(S)' <=> Below(S)
<1>1. handlers \in Seq(Points) /\ handlers # <<>> /\ handlers[Len(handlers)] = p
  BY DEF TypeOK, At
<1>2. Len(handlers) \in Nat
  BY <1>1, LenProperties
<1>3. QED  BY <1>1, <1>2, TopOrBelow, TopReturns

LEMMA BelowGrows ==
  ASSUME NEW S, NEW T, S \subseteq T, Below(S)
  PROVE  Below(T)
BY DEF Below

(* A signal, and then each step of a handler.                              *)
LEMMA SignalKeepsInv ==
  ASSUME RunnerInv, Signal
  PROVE  RunnerInv'
<1>1. /\ handlers' \in Seq(Points) /\ Len(handlers') = Len(handlers) + 1
      /\ handlers' # <<>>
      /\ \A S : HandlerAt(S)' <=> "flag" \in S \/ HandlerAt(S)
  BY HandlerStarts DEF Signal, RunnerInv, TypeOK
<1>2. /\ HandlerAt(Found)' <=> HandlerAt(Found)
      /\ HandlerAt(Halted)' <=> HandlerAt(Halted)
      /\ HandlerAt({"clear"})' <=> HandlerAt({"clear"})
      /\ HandlerAt(Requested)' <=> HandlerAt(Requested)
  BY <1>1 DEF Found, Halted, Requested
<1>3. /\ UNCHANGED <<pc, stopped, running, observer, thread>> /\ pc # "done"
      /\ signals' = signals + 1 /\ signals < MaxSignals
      /\ late' = (late \/ pc \in Starting)
  BY DEF Signal, watcherVars
<1>4. Len(handlers) \in Nat
  BY LenProperties DEF RunnerInv, TypeOK
<1>5. TypeOK'
  BY <1>1, <1>3, <1>4 DEF RunnerInv, TypeOK
<1>6. Alive' = Alive
  BY <1>3 DEF Alive
<1>7. StartInv' /\ ObserverInv'
  BY <1>2, <1>3, <1>6 DEF RunnerInv, StartInv, ObserverInv, NoObserverLost
<1>8. StopInv'
  BY <1>2, <1>3 DEF RunnerInv, StopInv
<1>9. QED  BY <1>5, <1>7, <1>8 DEF RunnerInv

LEMMA RequestStopKeepsInv ==
  ASSUME RunnerInv, RequestStop
  PROVE  RunnerInv'
<1>1. "flag" \in Points /\ "check" \in Points
  BY DEF Points
<1>2. /\ handlers' \in Seq(Points) /\ Len(handlers') = Len(handlers)
      /\ handlers # <<>> /\ handlers' # <<>>
      /\ \A S : HandlerAt(S) <=> "flag" \in S \/ Below(S)
      /\ \A S : HandlerAt(S)' <=> "check" \in S \/ Below(S)
  BY <1>1, Moves DEF RequestStop, RunnerInv
<1>3. /\ HandlerAt(Found)' <=> HandlerAt(Found)
      /\ HandlerAt(Halted)' <=> HandlerAt(Halted)
      /\ HandlerAt({"clear"})' <=> HandlerAt({"clear"})
      /\ HandlerAt(Requested)'
  BY <1>2 DEF Found, Halted, Requested
<1>4. UNCHANGED <<pc, running, observer, thread, signals, late>> /\ stopped' = TRUE
  BY DEF RequestStop, watcherVars
<1>5. TypeOK'
  BY <1>2, <1>4 DEF RunnerInv, TypeOK
<1>6. Alive' = Alive
  BY <1>4 DEF Alive
<1>7. StartInv' /\ ObserverInv'
  BY <1>3, <1>4, <1>6 DEF RunnerInv, StartInv, ObserverInv, NoObserverLost
<1>8. StopInv'
  BY <1>2, <1>3, <1>4 DEF RunnerInv, StopInv
<1>9. QED  BY <1>5, <1>7, <1>8 DEF RunnerInv

LEMMA CheckRunningKeepsInv ==
  ASSUME RunnerInv, CheckRunning
  PROVE  RunnerInv'
<1>1. UNCHANGED <<pc, stopped, running, observer, thread, signals, late>>
  BY DEF CheckRunning, watcherVars
<1>2. Alive' = Alive
  BY <1>1 DEF Alive
<1>3. CASE running
  <2>1. "check" \in Points /\ "test" \in Points
    BY DEF Points
  <2>2. /\ handlers' \in Seq(Points) /\ Len(handlers') = Len(handlers)
        /\ handlers # <<>> /\ handlers' # <<>>
        /\ \A S : HandlerAt(S) <=> "check" \in S \/ Below(S)
        /\ \A S : HandlerAt(S)' <=> "test" \in S \/ Below(S)
    BY <1>3, <2>1, Moves DEF CheckRunning, RunnerInv
  <2>3. /\ HandlerAt(Halted)' <=> HandlerAt(Halted)
        /\ HandlerAt({"clear"})' <=> HandlerAt({"clear"})
        /\ HandlerAt(Requested)'
    BY <2>2 DEF Found, Halted, Requested
  <2>4. TypeOK'
    BY <1>1, <2>2 DEF RunnerInv, TypeOK
  <2>5. StartInv' /\ ObserverInv' /\ StopInv'
    BY <1>1, <1>2, <1>3, <2>2, <2>3
       DEF RunnerInv, StartInv, ObserverInv, NoObserverLost, StopInv
  <2>6. QED  BY <2>4, <2>5 DEF RunnerInv
<1>4. CASE ~running
  <2>1. "check" \in Points
    BY DEF Points
  <2>2. /\ handlers' \in Seq(Points) /\ Len(handlers') <= Len(handlers)
        /\ handlers # <<>>
        /\ \A S : HandlerAt(S) <=> "check" \in S \/ Below(S)
        /\ \A S : HandlerAt(S)' <=> Below(S)
    BY <1>4, <2>1, Returns DEF CheckRunning, RunnerInv
  <2>3. /\ HandlerAt(Found)' <=> HandlerAt(Found)
        /\ HandlerAt(Halted)' <=> HandlerAt(Halted)
    BY <2>2 DEF Found, Halted
  <2>4. TypeOK'
    BY <1>1, <1>4, <2>2, LenProperties DEF RunnerInv, TypeOK
  <2>5. StartInv' /\ ObserverInv' /\ StopInv'
    BY <1>1, <1>2, <1>4, <2>2, <2>3
       DEF RunnerInv, StartInv, ObserverInv, NoObserverLost, StopInv
  <2>6. QED  BY <2>4, <2>5 DEF RunnerInv
<1>5. QED  BY <1>3, <1>4

(* A handler that finds the observer gone raises and returns: a handler it *)
(* interrupted set it to None, and has the flag still to clear.            *)
LEMMA RaisedKeepsInv ==
  ASSUME RunnerInv, NEW p \in {"halt", "join"}, At(p), Return, observer = 0,
         UNCHANGED <<pc, stopped, running, observer, thread, signals, late>>
  PROVE  RunnerInv'
<1>1. p \in Points
  BY DEF Points
<1>2. /\ handlers' \in Seq(Points) /\ Len(handlers') <= Len(handlers)
      /\ handlers # <<>>
      /\ \A S : HandlerAt(S) <=> p \in S \/ Below(S)
      /\ \A S : HandlerAt(S)' <=> Below(S)
  BY <1>1, Returns DEF RunnerInv
<1>3. HandlerAt({"clear"})' <=> HandlerAt({"clear"})
  BY <1>2
<1>4. HandlerAt(Found) /\ (HandlerAt(Halted)' => HandlerAt(Halted))
  BY <1>2 DEF Found, Halted
<1>5. HandlerAt({"clear"})' => HandlerAt(Halted)' /\ HandlerAt(Requested)'
  BY <1>2, BelowGrows DEF Halted, Found, Requested
<1>6. HandlerAt({"clear"})' => handlers' # <<>>
  BY <1>2, EmptySeq DEF Below, HandlerAt
<1>7. running => HandlerAt({"clear"})'
  BY <1>3 DEF RunnerInv, ObserverInv
<1>8. Len(handlers') \in Nat /\ Len(handlers) \in Nat
  BY <1>2, LenProperties DEF RunnerInv, TypeOK
<1>9. TypeOK'
  BY <1>2, <1>6, <1>7, <1>8 DEF RunnerInv, TypeOK
<1>10. Alive' = Alive
  BY DEF Alive
<1>11. StartInv' /\ ObserverInv'
  BY <1>4, <1>5, <1>7, <1>10 DEF RunnerInv, StartInv, ObserverInv, NoObserverLost
<1>12. StopInv'
  BY <1>2, <1>5, <1>7 DEF RunnerInv, StopInv
<1>13. QED  BY <1>9, <1>11, <1>12 DEF RunnerInv

LEMMA TestObserverKeepsInv ==
  ASSUME RunnerInv, TestObserver
  PROVE  RunnerInv'
<1> DEFINE q == IF observer # 0 THEN "halt" ELSE "clear"
<1>1. "test" \in Points /\ q \in Points
  BY DEF Points
<1>2. /\ handlers' \in Seq(Points) /\ Len(handlers') = Len(handlers)
      /\ handlers # <<>> /\ handlers' # <<>>
      /\ \A S : HandlerAt(S) <=> "test" \in S \/ Below(S)
      /\ \A S : HandlerAt(S)' <=> q \in S \/ Below(S)
  BY <1>1, Moves DEF TestObserver, RunnerInv
<1>3. UNCHANGED <<pc, stopped, running, observer, thread, signals, late>>
  BY DEF TestObserver, watcherVars
<1>4. /\ HandlerAt(Found) /\ HandlerAt(Found)' /\ HandlerAt(Requested)'
      /\ observer # 0 => /\ HandlerAt(Halted)' <=> HandlerAt(Halted)
                         /\ HandlerAt({"clear"})' <=> HandlerAt({"clear"})
      /\ observer = 0 => HandlerAt(Halted)' /\ HandlerAt({"clear"})'
  BY <1>2 DEF Found, Halted, Requested
<1>5. Alive' = Alive /\ 0 \notin Alive
  <2>1. DOMAIN thread = 1..Len(thread) /\ Len(thread) \in Nat
    BY LenProperties DEF RunnerInv, TypeOK
  <2>2. QED  BY <1>3, <2>1 DEF Alive
<1>6. TypeOK'
  BY <1>2, <1>3 DEF RunnerInv, TypeOK
<1>7. StartInv' /\ ObserverInv'
  BY <1>3, <1>4, <1>5 DEF RunnerInv, StartInv, ObserverInv, NoObserverLost
<1>8. StopInv'
  BY <1>2, <1>3, <1>4 DEF RunnerInv, StopInv
<1>9. QED  BY <1>6, <1>7, <1>8 DEF RunnerInv

(* The observer is told to stop, and then none is alive; or the handler    *)
(* raises, and another will clear the flag.                                *)
LEMMA HaltObserverKeepsInv ==
  ASSUME RunnerInv, HaltObserver
  PROVE  RunnerInv'
<1>1. "halt" \in Points /\ "join" \in Points
  BY DEF Points
<1>2. UNCHANGED <<pc, stopped, running, observer, signals, late>>
  BY DEF HaltObserver
<1>3. DOMAIN thread = 1..Len(thread) /\ Len(thread) \in Nat
  BY LenProperties DEF RunnerInv, TypeOK
<1>4. CASE observer # 0
  <2>1. /\ handlers' \in Seq(Points) /\ Len(handlers') = Len(handlers)
        /\ handlers # <<>> /\ handlers' # <<>>
        /\ \A S : HandlerAt(S) <=> "halt" \in S \/ Below(S)
        /\ \A S : HandlerAt(S)' <=> "join" \in S \/ Below(S)
    BY <1>1, <1>4, Moves DEF HaltObserver, RunnerInv
  <2>2. /\ HandlerAt(Found) /\ HandlerAt(Found)' /\ HandlerAt(Requested)'
        /\ HandlerAt({"clear"})' <=> HandlerAt({"clear"})
        /\ HandlerAt(Halted)'
    BY <2>1 DEF Found, Halted, Requested
  <2>3. observer \in 1..Len(thread)
    BY <1>3, <1>4 DEF RunnerInv, TypeOK
  <2>4. thread' = [thread EXCEPT ![observer] = "halting"]
    BY <1>4 DEF HaltObserver
  <2>5. /\ thread' \in Seq({"made", "failed", "alive", "halting", "dead"})
        /\ Len(thread') = Len(thread)
        /\ \A o \in 1..Len(thread) :
             thread'[o] = IF o = observer THEN "halting" ELSE thread[o]
    BY <2>3, <2>4, ExceptSeq DEF RunnerInv, TypeOK
  <2>6. Alive' = {}
    <3>1. Alive' = {o \in 1..Len(thread) : thread'[o] = "alive"}
      BY <1>3, <2>4 DEF Alive
    <3>2. \A o \in 1..Len(thread) : thread[o] = "alive" => o = observer
      BY <1>3 DEF RunnerInv, ObserverInv, NoObserverLost, Alive
    <3>3. QED  BY <2>5, <3>1, <3>2
  <2>7. TypeOK'
    BY <1>2, <2>1, <2>5 DEF RunnerInv, TypeOK
  <2>8. StartInv' /\ ObserverInv' /\ StopInv'
    BY <1>2, <2>1, <2>2, <2>6
       DEF RunnerInv, StartInv, ObserverInv, NoObserverLost, StopInv
  <2>9. QED  BY <2>7, <2>8 DEF RunnerInv
<1>5. CASE observer = 0
  <2>1. UNCHANGED thread /\ Return /\ At("halt")
    BY <1>5 DEF HaltObserver
  <2>2. QED  BY <1>2, <1>5, <2>1, RaisedKeepsInv
<1>6. QED  BY <1>4, <1>5

LEMMA JoinKeepsInv ==
  ASSUME RunnerInv, JoinObserver \/ JoinReturns
  PROVE  RunnerInv'
<1>1. UNCHANGED <<pc, stopped, running, observer, thread, signals, late>>
  BY DEF JoinObserver, JoinReturns, watcherVars
<1>2. CASE At("join") /\ Return /\ observer = 0
  BY <1>1, <1>2, RaisedKeepsInv
<1>3. ASSUME NEW p \in {"join", "wait"}, NEW q \in {"wait", "forget"}, At(p), GoTo(q)
      PROVE  RunnerInv'
  <2>1. p \in Points /\ q \in Points
    BY DEF Points
  <2>2. /\ handlers' \in Seq(Points) /\ Len(handlers') = Len(handlers)
        /\ handlers # <<>> /\ handlers' # <<>>
        /\ \A S : HandlerAt(S) <=> p \in S \/ Below(S)
        /\ \A S : HandlerAt(S)' <=> q \in S \/ Below(S)
    BY <1>3, <2>1, Moves DEF RunnerInv
  <2>3. /\ HandlerAt(Found) /\ HandlerAt(Found)' /\ HandlerAt(Requested)'
        /\ HandlerAt(Halted) /\ HandlerAt(Halted)'
        /\ HandlerAt({"clear"})' <=> HandlerAt({"clear"})
    BY <2>2 DEF Found, Halted, Requested
  <2>4. TypeOK' /\ Alive' = Alive
    BY <1>1, <2>2 DEF RunnerInv, TypeOK, Alive
  <2>5. StartInv' /\ ObserverInv' /\ StopInv'
    BY <1>1, <2>2, <2>3, <2>4
       DEF RunnerInv, StartInv, ObserverInv, NoObserverLost, StopInv
  <2>6. QED  BY <2>4, <2>5 DEF RunnerInv
<1>4. QED  BY <1>2, <1>3 DEF JoinObserver, JoinReturns

LEMMA ForgetKeepsInv ==
  ASSUME RunnerInv, ForgetObserver
  PROVE  RunnerInv'
<1>1. "forget" \in Points /\ "clear" \in Points
  BY DEF Points
<1>2. /\ handlers' \in Seq(Points) /\ Len(handlers') = Len(handlers)
      /\ handlers # <<>> /\ handlers' # <<>>
      /\ \A S : HandlerAt(S) <=> "forget" \in S \/ Below(S)
      /\ \A S : HandlerAt(S)' <=> "clear" \in S \/ Below(S)
  BY <1>1, Moves DEF ForgetObserver, RunnerInv
<1>3. UNCHANGED <<pc, stopped, running, thread, signals, late>> /\ observer' = 0
  BY DEF ForgetObserver
<1>4. /\ HandlerAt(Found) /\ HandlerAt(Found)' /\ HandlerAt(Requested)'
      /\ HandlerAt(Halted) /\ HandlerAt(Halted)' /\ HandlerAt({"clear"})'
  BY <1>2 DEF Found, Halted, Requested
<1>5. Alive' = {}
  BY <1>3, <1>4 DEF RunnerInv, ObserverInv, NoObserverLost, Alive
<1>6. TypeOK'
  <2>1. 0 \in 0..Len(thread)
    BY LenProperties DEF RunnerInv, TypeOK
  <2>2. QED  BY <1>2, <1>3, <2>1 DEF RunnerInv, TypeOK
<1>7. StartInv' /\ ObserverInv' /\ StopInv'
  BY <1>2, <1>3, <1>4, <1>5
     DEF RunnerInv, StartInv, ObserverInv, NoObserverLost, StopInv
<1>8. QED  BY <1>6, <1>7 DEF RunnerInv

(* The flag is cleared: no observer is alive by then.                      *)
LEMMA ClearKeepsInv ==
  ASSUME RunnerInv, ClearRunning
  PROVE  RunnerInv'
<1>1. "clear" \in Points
  BY DEF Points
<1>2. /\ handlers' \in Seq(Points) /\ Len(handlers') <= Len(handlers)
      /\ handlers # <<>>
      /\ \A S : HandlerAt(S) <=> "clear" \in S \/ Below(S)
      /\ \A S : HandlerAt(S)' <=> Below(S)
  BY <1>1, Returns DEF ClearRunning, RunnerInv
<1>3. UNCHANGED <<pc, stopped, observer, thread, signals, late>> /\ running' = FALSE
  BY DEF ClearRunning
<1>4. HandlerAt(Found) /\ HandlerAt(Halted)
  BY <1>2 DEF Found, Halted
<1>5. Alive' = {}
  BY <1>3, <1>4 DEF RunnerInv, ObserverInv, NoObserverLost, Alive
<1>6. TypeOK'
  <2>1. Len(handlers') \in Nat /\ Len(handlers) \in Nat
    BY <1>2, LenProperties DEF RunnerInv, TypeOK
  <2>2. {stopped', running', late'} \subseteq BOOLEAN
    BY <1>3 DEF RunnerInv, TypeOK
  <2>3. QED  BY <1>2, <1>3, <2>1, <2>2 DEF RunnerInv, TypeOK
<1>7. StartInv' /\ ObserverInv' /\ StopInv'
  BY <1>2, <1>3, <1>4, <1>5
     DEF RunnerInv, StartInv, ObserverInv, NoObserverLost, StopInv
<1>8. QED  BY <1>6, <1>7 DEF RunnerInv

-----------------------------------------------------------------------------
(* The main thread moves while no handler is active *)

LEMMA MainIsAlone ==
  ASSUME TypeOK, NEW from, NEW to, MainStep(from, to)
  PROVE  /\ UNCHANGED <<stopped, handlers, signals, late>>
         /\ handlers = <<>> /\ pc = from /\ pc' = to
         /\ \A S : ~HandlerAt(S) /\ ~HandlerAt(S)'
<1>1. UNCHANGED <<stopped, handlers, signals, late>> /\ handlers = <<>>
  BY DEF MainStep
<1>2. handlers' = <<>>
  BY <1>1
<1>3. ASSUME NEW S PROVE ~HandlerAt(S) /\ ~HandlerAt(S)'
  BY <1>1, <1>2, EmptySeq DEF HandlerAt
<1>4. QED  BY <1>1, <1>3 DEF MainStep

(* Steps that leave the watcher alone: a stop is seen, a cycle begins, the *)
(* sweep is made, the sleep is over.                                       *)
LEMMA WatcherUntouched ==
  ASSUME RunnerInv, CheckStop \/ BeginCycle \/ Sweep \/ Wake
  PROVE  RunnerInv'
<1>1. ASSUME NEW from \in {"loop", "cycle", "sweep", "sleep"}, NEW to,
             MainStep(from, to), UNCHANGED watcherVars,
             to \in {"loop", "cycle", "create", "sweep", "sleep", "done"},
             to \in {"cycle", "create"} => ~stopped \/ from \in Starting,
             to = "create" => ~running, to = "done" => stopped
      PROVE  RunnerInv'
  <2>1. /\ UNCHANGED <<stopped, handlers, signals, late>>
        /\ handlers = <<>> /\ pc = from /\ pc' = to
        /\ \A S : ~HandlerAt(S) /\ ~HandlerAt(S)'
    BY <1>1, MainIsAlone DEF RunnerInv
  <2>2. UNCHANGED <<running, observer, thread>> /\ Alive' = Alive
    BY <1>1 DEF watcherVars, Alive
  <2>3. TypeOK'
    BY <1>1, <2>1, <2>2 DEF RunnerInv, TypeOK, Starting
  <2>4. StartInv'
    BY <1>1, <2>1, <2>2 DEF StartInv
  <2>5. ObserverInv'
    BY <1>1, <2>1, <2>2 DEF RunnerInv, ObserverInv, NoObserverLost
  <2>6. StopInv'
    BY <1>1, <2>1, <2>2 DEF RunnerInv, StopInv, Starting
  <2>7. QED  BY <2>3, <2>4, <2>5, <2>6 DEF RunnerInv
<1>2. CASE CheckStop
  BY <1>1, <1>2 DEF CheckStop
<1>3. CASE BeginCycle
  BY <1>1, <1>3 DEF BeginCycle, Starting
<1>4. CASE Sweep
  BY <1>1, <1>4 DEF Sweep
<1>5. CASE Wake
  BY <1>1, <1>5 DEF Wake
<1>6. QED  BY <1>2, <1>3, <1>4, <1>5

(* An observer is made: none was alive, as the watcher is not running.     *)
LEMMA CreateKeepsInv ==
  ASSUME RunnerInv, CreateObserver
  PROVE  RunnerInv'
<1> DEFINE States == {"made", "failed", "alive", "halting", "dead"}
<1>1. /\ UNCHANGED <<stopped, handlers, signals, late>>
      /\ handlers = <<>> /\ pc = "create" /\ pc' = "launch"
      /\ \A S : ~HandlerAt(S) /\ ~HandlerAt(S)'
  BY MainIsAlone DEF CreateObserver, RunnerInv
<1>2. UNCHANGED running /\ thread' = Append(thread, "made") /\ observer' = Len(thread')
  BY DEF CreateObserver
<1>3. thread \in Seq(States) /\ Len(thread) \in Nat /\ DOMAIN thread = 1..Len(thread)
  BY LenProperties DEF RunnerInv, TypeOK
<1>4. /\ thread' \in Seq(States) /\ Len(thread') = Len(thread) + 1
      /\ \A o \in 1..Len(thread) : thread'[o] = thread[o]
      /\ thread'[Len(thread) + 1] = "made"
  BY <1>2, <1>3, AppendProperties
<1>5. DOMAIN thread' = 1..(Len(thread) + 1)
  BY <1>4, LenProperties
<1>6. ~running /\ Alive = {}
  BY <1>1 DEF RunnerInv, StartInv, ObserverInv, NoObserverLost
<1>7. Alive' = {}
  <2>1. \A o \in 1..(Len(thread) + 1) : o = Len(thread) + 1 \/ o \in 1..Len(thread)
    BY <1>3
  <2>2. QED  BY <1>3, <1>4, <1>5, <1>6, <2>1 DEF Alive
<1>8. TypeOK'
  BY <1>1, <1>2, <1>3, <1>4, <1>6 DEF RunnerInv, TypeOK, Starting
<1>9. StartInv' /\ ObserverInv'
  BY <1>1, <1>2, <1>3, <1>4, <1>6, <1>7 DEF StartInv, ObserverInv, NoObserverLost
<1>10. StopInv'
  BY <1>1, <1>2, <1>6 DEF RunnerInv, StopInv, Starting
<1>11. QED  BY <1>8, <1>9, <1>10 DEF RunnerInv

(* It starts, or fails to.                                                 *)
LEMMA LaunchKeepsInv ==
  ASSUME RunnerInv, LaunchObserver \/ LaunchFails
  PROVE  RunnerInv'
<1> DEFINE States == {"made", "failed", "alive", "halting", "dead"}
<1> DEFINE n == Len(thread)
<1>1. /\ thread \in Seq(States) /\ n \in Nat \ {0} /\ DOMAIN thread = 1..n
      /\ observer = n /\ ~running /\ pc = "launch"
  BY LenProperties DEF LaunchObserver, LaunchFails, MainStep, RunnerInv, TypeOK, StartInv
<1>2. Alive = {}
  BY <1>1 DEF RunnerInv, ObserverInv, NoObserverLost
<1>3. ASSUME NEW to \in {"mark", "sweep"}, NEW s \in {"alive", "failed"},
             to = "mark" <=> s = "alive",
             MainStep("launch", to), thread' = [thread EXCEPT ![n] = s],
             UNCHANGED <<running, observer>>
      PROVE  RunnerInv'
  <2>1. /\ UNCHANGED <<stopped, handlers, signals, late>>
        /\ handlers = <<>> /\ pc = "launch" /\ pc' = to
        /\ \A S : ~HandlerAt(S) /\ ~HandlerAt(S)'
    BY <1>3, MainIsAlone DEF RunnerInv
  <2>2. n \in 1..n /\ s \in States
    BY <1>1
  <2> HIDE DEF n
  <2>3. /\ thread' \in Seq(States) /\ Len(thread') = n
        /\ \A o \in 1..n : thread'[o] = IF o = n THEN s ELSE thread[o]
    BY <1>1, <1>3, <2>2, ExceptSeq DEF n
  <2>4. DOMAIN thread' = 1..n
    BY <2>3, LenProperties
  <2>5. Alive' = IF s = "alive" THEN {n} ELSE {}
    BY <1>1, <1>2, <1>3, <2>2, <2>3, <2>4 DEF Alive
  <2>6. TypeOK'
    BY <1>1, <1>3, <2>1, <2>3 DEF RunnerInv, TypeOK, Starting
  <2>7. StartInv' /\ ObserverInv'
    BY <1>1, <1>3, <2>1, <2>5 DEF StartInv, ObserverInv, NoObserverLost
  <2>8. StopInv'
    BY <1>1, <1>3, <2>1 DEF RunnerInv, StopInv, Starting
  <2>9. QED  BY <2>6, <2>7, <2>8 DEF RunnerInv
<1>4. QED  BY <1>3 DEF LaunchObserver, LaunchFails

LEMMA MarkKeepsInv ==
  ASSUME RunnerInv, MarkRunning
  PROVE  RunnerInv'
<1>1. /\ UNCHANGED <<stopped, handlers, signals, late>>
      /\ handlers = <<>> /\ pc = "mark" /\ pc' = "sweep"
      /\ \A S : ~HandlerAt(S) /\ ~HandlerAt(S)'
  BY MainIsAlone DEF MarkRunning, RunnerInv
<1>2. UNCHANGED <<observer, thread>> /\ running' = TRUE /\ Alive' = Alive
  BY DEF MarkRunning, Alive
<1>3. observer \in Alive /\ observer # 0
  <2>1. DOMAIN thread = 1..Len(thread)
    BY LenProperties DEF RunnerInv, TypeOK
  <2>2. QED  BY <1>1, <2>1 DEF RunnerInv, StartInv, Alive
<1>4. TypeOK'
  <2>1. {stopped', running', late'} \subseteq BOOLEAN
    BY <1>1, <1>2 DEF RunnerInv, TypeOK
  <2>2. QED  BY <1>1, <1>2, <1>3, <2>1 DEF RunnerInv, TypeOK
<1>5. StartInv' /\ ObserverInv'
  BY <1>1, <1>2, <1>3 DEF RunnerInv, StartInv, ObserverInv, NoObserverLost
<1>6. StopInv'
  BY <1>1, <1>2 DEF RunnerInv, StopInv, Starting
<1>7. QED  BY <1>4, <1>5, <1>6 DEF RunnerInv

LEMMA EndKeepsInv ==
  ASSUME RunnerInv, ObserverEnds
  PROVE  RunnerInv'
<1> DEFINE States == {"made", "failed", "alive", "halting", "dead"}
<1>1. UNCHANGED <<pc, stopped, running, observer, handlers, signals, late>>
  BY DEF ObserverEnds
<1>2. PICK o \in DOMAIN thread : /\ thread[o] = "halting"
                                 /\ thread' = [thread EXCEPT ![o] = "dead"]
  BY DEF ObserverEnds
<1>3. thread \in Seq(States) /\ DOMAIN thread = 1..Len(thread)
  BY LenProperties DEF RunnerInv, TypeOK
<1>4. /\ thread' \in Seq(States) /\ Len(thread') = Len(thread)
      /\ DOMAIN thread' = DOMAIN thread
      /\ \A i \in 1..Len(thread) : thread'[i] = IF i = o THEN "dead" ELSE thread[i]
  BY <1>2, <1>3, ExceptSeq
<1>5. Alive' = Alive
  BY <1>2, <1>3, <1>4 DEF Alive
<1>6. \A S : HandlerAt(S)' <=> HandlerAt(S)
  BY <1>1 DEF HandlerAt
<1>7. TypeOK'
  BY <1>1, <1>4 DEF RunnerInv, TypeOK
<1>8. StartInv'
  <2>1. pc = "launch" => thread'[observer] = "made" /\ observer = Len(thread')
    BY <1>2, <1>3, <1>4, LenProperties DEF RunnerInv, StartInv
  <2>2. QED  BY <1>1, <1>4, <1>5, <1>6, <2>1 DEF RunnerInv, StartInv
<1>9. ObserverInv' /\ StopInv'
  BY <1>1, <1>5, <1>6 DEF RunnerInv, ObserverInv, NoObserverLost, StopInv
<1>10. QED  BY <1>7, <1>8, <1>9 DEF RunnerInv

-----------------------------------------------------------------------------
(* Theorems *)

(* At every moment, whatever handlers are active: a start is undisturbed,  *)
(* a watcher that runs without an observer has a handler about to clear    *)
(* the flag, no observer is lost, and a stop in time stops the rest.       *)
THEOREM InvariantHolds == Spec => []RunnerInv
<1>1. Init => RunnerInv
  <2> SUFFICES ASSUME Init PROVE RunnerInv
    OBVIOUS
  <2>1. Len(thread) = 0 /\ Len(handlers) = 0 /\ handlers \in Seq(Points)
        /\ thread \in Seq({"made", "failed", "alive", "halting", "dead"})
    BY EmptySeq DEF Init
  <2>2. \A S : ~HandlerAt(S)
    BY EmptySeq DEF Init, HandlerAt
  <2>3. Alive = {}
    BY EmptySeq DEF Init, Alive
  <2>4. TypeOK
    <3>1. {stopped, running, late} \subseteq BOOLEAN
      BY DEF Init
    <3>2. observer \in 0..Len(thread) /\ signals \in 0..MaxSignals /\ Len(handlers) <= signals
      BY <2>1 DEF Init
    <3>3. QED  BY <2>1, <3>1, <3>2 DEF Init, TypeOK
  <2>5. QED  BY <2>2, <2>3, <2>4 DEF Init, RunnerInv, StartInv, ObserverInv,
                                     NoObserverLost, StopInv, Starting
<1>2. RunnerInv /\ [Next]_vars => RunnerInv'
  <2> SUFFICES ASSUME RunnerInv, [Next]_vars PROVE RunnerInv'
    OBVIOUS
  <2>1. CASE Main
    BY <2>1, WatcherUntouched, CreateKeepsInv, LaunchKeepsInv, MarkKeepsInv DEF Main
  <2>2. CASE Handler
    BY <2>2, RequestStopKeepsInv, CheckRunningKeepsInv, TestObserverKeepsInv,
       HaltObserverKeepsInv, JoinKeepsInv, ForgetKeepsInv, ClearKeepsInv DEF Handler
  <2>3. CASE UNCHANGED vars
    BY <2>3 DEF vars, RunnerInv, TypeOK, StartInv, ObserverInv, StopInv, NoObserverLost,
                HandlerAt, Alive
  <2>4. QED
    BY <2>1, <2>2, <2>3, SignalKeepsInv, EndKeepsInv DEF Next, Terminated
<1>3. QED  BY <1>1, <1>2, PTL DEF Spec

(* The types of the variables of run, start and stop.                      *)
THEOREM TypeCorrect == Spec => []TypeOK
<1>1. RunnerInv => TypeOK
  BY DEF RunnerInv
<1>2. QED  BY <1>1, InvariantHolds, PTL

(* Unless a handler is at work, a watcher that says it is running has a    *)
(* live observer, so that run_cycle never skips a start that is needed.    *)
THEOREM RunningIsObservedHolds == Spec => []RunningIsObserved
<1>1. RunnerInv => RunningIsObserved
  BY NoHandler DEF RunnerInv, ObserverInv, RunningIsObserved
<1>2. QED  BY <1>1, InvariantHolds, PTL

(* There is never more than one live observer, and stop() would find it.   *)
THEOREM NoObserverLostHolds == Spec => []NoObserverLost
<1>1. RunnerInv => NoObserverLost
  BY DEF RunnerInv, ObserverInv
<1>2. QED  BY <1>1, InvariantHolds, PTL

(* A daemon that was asked to stop at any moment but that of the start of  *)
(* its watcher ends without a live observer.                               *)
THEOREM CleanUnlessLateHolds == Spec => []CleanUnlessLate
<1>1. RunnerInv => CleanUnlessLate
  <2> SUFFICES ASSUME RunnerInv, pc = "done", ~late PROVE Alive = {}
    BY DEF CleanUnlessLate
  <2>1. stopped /\ handlers = <<>>
    BY DEF RunnerInv, StopInv
  <2>2. ~running
    BY <2>1, NoHandler DEF RunnerInv, StopInv
  <2>3. QED  BY <2>2 DEF RunnerInv, ObserverInv, NoObserverLost
<1>2. QED  BY <1>1, InvariantHolds, PTL
=============================================================================
