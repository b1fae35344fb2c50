------------------------ MODULE WriteDetectorProofs ------------------------
(***************************************************************************)
(* For any interval, number of checks and bound on a writer's pauses: if   *)
(* the pauses are shorter than the stability window, no file is dispatched *)
(* while it is being written.                                              *)
(***************************************************************************)
EXTENDS WriteDetector, TLAPS

(* Types, and that the count stays below the threshold, for every value of *)
(* the constants.                                                          *)
THEOREM TypeCorrect == Spec => []TypeOK
<1>1. Init => TypeOK
  <2>1. 0 \in Nat /\ 0 < Checks
    BY TimingAssumption
  <2>2. QED  BY <2>1 DEF Init, TypeOK
<1>2. TypeOK /\ [Next]_vars => TypeOK'
  <2> SUFFICES ASSUME TypeOK, [Next]_vars PROVE TypeOK'
    OBVIOUS
  <2> USE TimingAssumption DEF TypeOK
  <2>1. CASE Tick  BY <2>1 DEF Tick, file, record
  <2>2. CASE OpenFile  BY <2>2 DEF OpenFile, record
  <2>3. CASE Remove  BY <2>3 DEF Remove, record
  <2>4. ASSUME NEW last \in BOOLEAN, WriteMore(last) PROVE TypeOK'
    BY <2>4 DEF WriteMore, record
  <2>5. ASSUME NEW s \in 0..MaxSize, NEW t \in 0..now, RenameInto(s, t)
        PROVE  TypeOK'
    <3>1. s \in Nat /\ t \in Nat  BY <2>5
    <3>2. QED  BY <2>5, <3>1 DEF RenameInto, record
  <2>6. CASE SkipSample  BY <2>6 DEF SkipSample, file, record
  <2>7. CASE FirstSample  BY <2>7 DEF FirstSample, file
  <2>8. CASE EarlySample  BY <2>8 DEF EarlySample, file, record
  <2>9. CASE ChangedSample  BY <2>9 DEF ChangedSample, file
  <2>10. CASE StableSample  BY <2>10 DEF StableSample, ThresholdReached, file
  <2>11. CASE Dispatch
    <3>1. 0 \in Nat /\ 0 < Checks  OBVIOUS
    <3>2. dispatched' \in {"nothing", "whole", "partial"}
      BY <2>11 DEF Dispatch
    <3>3. QED  BY <2>11, <3>1, <3>2 DEF Dispatch
  <2>12. CASE UNCHANGED vars  BY <2>12 DEF vars, file, record
  <2>13. QED
    BY <2>1, <2>2, <2>3, <2>4, <2>5, <2>6, <2>7, <2>8, <2>9, <2>10, <2>11,
       <2>12 DEF Next
<1>3. QED  BY <1>1, <1>2, PTL DEF Spec

(* One more unchanged sample adds one more interval to the quiet time the  *)
(* record stands for.                                                      *)
LEMMA OneMoreInterval ==
  ASSUME TypeOK, DetectorInv, tracked, now >= lastCheck + Interval
  PROVE  /\ (count + 1) * Interval \in Nat
         /\ rmtime + (count + 1) * Interval <= now
<1>1. (count + 1) * Interval = count * Interval + Interval
  BY TimingAssumption DEF TypeOK
<1>2. count * Interval \in Nat
  BY TimingAssumption DEF TypeOK
<1>3. QED  BY <1>1, <1>2, TimingAssumption DEF TypeOK, DetectorInv

(* The inductive invariant, whatever the writer's pauses.                  *)
THEOREM DetectorInvHolds == Spec => []DetectorInv
<1>1. Init => DetectorInv
  BY TimingAssumption DEF Init, DetectorInv
<1>2. TypeOK /\ DetectorInv /\ [Next]_vars => DetectorInv'
  <2> SUFFICES ASSUME TypeOK, DetectorInv, [Next]_vars PROVE DetectorInv'
    OBVIOUS
  <2> USE TimingAssumption DEF TypeOK, DetectorInv
  <2>0. count * Interval \in Nat  OBVIOUS
  <2>1. CASE Tick  BY <2>0, <2>1 DEF Tick, file, record
  <2>2. CASE OpenFile  BY <2>0, <2>2 DEF OpenFile, record
  <2>3. CASE Remove  BY <2>0, <2>3 DEF Remove, record
  <2>4. ASSUME NEW last \in BOOLEAN, WriteMore(last) PROVE DetectorInv'
    BY <2>0, <2>4 DEF WriteMore, record
  <2>5. ASSUME NEW s \in 0..MaxSize, NEW t \in 0..now, RenameInto(s, t)
        PROVE  DetectorInv'
    BY <2>0, <2>5 DEF RenameInto, record
  <2>6. CASE SkipSample  BY <2>6 DEF SkipSample, file, record
  <2>7. CASE FirstSample
    <3>1. 0 * Interval = 0  OBVIOUS
    <3>2. QED  BY <2>7, <3>1 DEF FirstSample, file
  <2>8. CASE EarlySample  BY <2>8 DEF EarlySample, file, record
  <2>9. CASE ChangedSample
    <3>1. 0 * Interval = 0  OBVIOUS
    <3>2. QED  BY <2>9, <3>1 DEF ChangedSample, file
  <2>10. CASE StableSample
    <3>1. rmtime + (count + 1) * Interval <= now
      BY <2>10, OneMoreInterval DEF StableSample
    <3>2. QED  BY <2>10, <3>1 DEF StableSample, file
  <2>11. CASE Dispatch  BY <2>11 DEF Dispatch
  <2>12. CASE UNCHANGED vars  BY <2>12 DEF vars, file, record
  <2>13. QED
    BY <2>1, <2>2, <2>3, <2>4, <2>5, <2>6, <2>7, <2>8, <2>9, <2>10, <2>11,
       <2>12 DEF Next
<1>3. QED  BY <1>1, <1>2, TypeCorrect, PTL DEF Spec

(* A dispatch finds the writer done: the file has been quiet for the whole *)
(* stability window, longer than any pause.                                *)
LEMMA DispatchIsRight ==
  ASSUME PausesAreShort, TypeOK, DetectorInv, Dispatch
  PROVE  ~writing
<1>1. rmtime + (count + 1) * Interval <= now /\ (count + 1) * Interval \in Nat
  BY OneMoreInterval DEF Dispatch
<1>2. count + 1 = Checks
  BY TimingAssumption DEF TypeOK, Dispatch, ThresholdReached
<1>3. mtime + Checks * Interval <= now /\ Checks * Interval \in Nat
  BY <1>1, <1>2 DEF Dispatch, Unchanged
<1>4. SUFFICES ASSUME writing PROVE FALSE
  OBVIOUS
<1>5. now <= mtime + MaxPause
  BY <1>4 DEF DetectorInv
<1>6. QED
  BY <1>3, <1>5, TimingAssumption DEF PausesAreShort, TypeOK

(* No file is dispatched while it is being written.                        *)
THEOREM OnlyWholeFilesAreDispatched ==
  ASSUME PausesAreShort
  PROVE  Spec => []OnlyWholeFilesDispatched
<1>1. Init => OnlyWholeFilesDispatched
  BY DEF Init, OnlyWholeFilesDispatched
<1>2. TypeOK /\ DetectorInv /\ OnlyWholeFilesDispatched /\ [Next]_vars
        => OnlyWholeFilesDispatched'
  <2> SUFFICES ASSUME TypeOK, DetectorInv, OnlyWholeFilesDispatched, [Next]_vars
               PROVE  OnlyWholeFilesDispatched'
    OBVIOUS
  <2>1. CASE Dispatch
    BY <2>1, DispatchIsRight, PausesAreShort DEF Dispatch, OnlyWholeFilesDispatched
  <2>2. CASE ~Dispatch
    <3>1. dispatched' = dispatched
      BY <2>2 DEF Next, vars, Tick, OpenFile, Remove, WriteMore, RenameInto,
           SkipSample, FirstSample, EarlySample, ChangedSample, StableSample
    <3>2. QED  BY <3>1 DEF OnlyWholeFilesDispatched
  <2>3. QED  BY <2>1, <2>2
<1>3. QED  BY <1>1, <1>2, TypeCorrect, DetectorInvHolds, PTL DEF Spec

-----------------------------------------------------------------------------
(* In time *)

(* The bound on the time of the n-th accepted sample, step by step.        *)
LEMMA Deadlines ==
  ASSUME NEW n \in Nat
  PROVE  /\ n * (Interval + Period) \in Nat
         /\ (n + 1) * (Interval + Period) = n * (Interval + Period) + Interval + Period
         /\ \A m \in Nat : m <= n => m * (Interval + Period) <= n * (Interval + Period)
<1>1. Interval + Period \in Nat /\ Interval \in Nat /\ Period \in Nat
  BY TimingAssumption
<1> DEFINE D == Interval + Period
<1>2. D \in Nat /\ D = Interval + Period
  BY <1>1
<1> HIDE DEF D
<1>3. n * D \in Nat /\ (n + 1) * D = n * D + D
  BY <1>2
<1>4. ASSUME NEW m \in Nat, m <= n PROVE m * D <= n * D
  <2>1. PICK k \in Nat : n = m + k
    <3>1. n - m \in Nat /\ n = m + (n - m)
      BY <1>4
    <3>2. QED  BY <3>1
  <2>2. n * D = m * D + k * D /\ k * D \in Nat /\ m * D \in Nat
    BY <1>2, <2>1
  <2>3. QED  BY <2>2
<1>5. QED  BY <1>1, <1>2, <1>3, <1>4

(* The accepted samples come at most an interval and a period apart.       *)
LEMMA StableInTime ==
  ASSUME TypeOK, TimeInv, StableSample
  PROVE  TimeInv'
<1>1. /\ exists /\ size > 0 /\ tracked /\ Unchanged /\ count' = count + 1
      /\ lastCheck' = now /\ lastSweep' = now
      /\ UNCHANGED <<now, file, tracked, rsize, rmtime, dispatched, touched>>
  BY DEF StableSample
<1>2. UNCHANGED <<exists, size, mtime, writing>>
  BY <1>1 DEF file
<1>3. ASSUME ~writing
      PROVE  now <= touched + (count + 1 + 1) * (Interval + Period)
  <2>1. /\ (count + 1) * (Interval + Period) \in Nat
        /\ (count + 1 + 1) * (Interval + Period)
             = (count + 1) * (Interval + Period) + Interval + Period
    BY Deadlines DEF TypeOK
  <2>2. CASE lastCheck <= touched
    BY <1>1, <1>3, <2>1, <2>2, TimingAssumption DEF TimeInv, TypeOK
  <2>3. CASE lastCheck > touched
    BY <1>1, <1>3, <2>1, <2>3, TimingAssumption DEF TimeInv, TypeOK
  <2>4. QED  BY <2>2, <2>3 DEF TypeOK
<1>4. QED
  BY <1>1, <1>2, <1>3, TimingAssumption DEF TimeInv, TypeOK, Unchanged

(* A first or a changed sample makes the record that of the file.          *)
LEMMA RecordInTime ==
  ASSUME TypeOK, TimeInv, FirstSample \/ ChangedSample
  PROVE  TimeInv'
<1>1. /\ exists /\ size > 0 /\ tracked' = TRUE /\ rsize' = size /\ rmtime' = mtime
      /\ lastCheck' = now /\ count' = 0 /\ lastSweep' = now
      /\ UNCHANGED <<now, exists, size, mtime, writing, touched>>
  BY DEF FirstSample, ChangedSample, file, TypeOK
<1>2. (0 + 1) * (Interval + Period) = Interval + Period
  BY TimingAssumption
<1>3. ASSUME ~writing, now > touched PROVE now <= touched + (0 + 1) * (Interval + Period)
  <2>1. CASE ~tracked
    BY <1>1, <1>2, <1>3, <2>1, TimingAssumption DEF TimeInv, TypeOK
  <2>2. CASE tracked
    <3>1. ~Unchanged
      BY <2>2 DEF FirstSample, ChangedSample
    <3>2. QED
      BY <1>1, <1>2, <1>3, <2>2, <3>1, TimingAssumption DEF TimeInv, TypeOK
  <2>3. QED  BY <2>1, <2>2
<1>4. QED
  BY <1>1, <1>3, TimingAssumption DEF TimeInv, TypeOK, Unchanged

(* Whatever touches the file starts the count of its deadline anew.        *)
LEMMA TouchInTime ==
  ASSUME TypeOK, TimeInv, UNCHANGED <<now, record, lastSweep>>, touched' = now
  PROVE  TimeInv'
BY TimingAssumption DEF TimeInv, TypeOK, record

THEOREM TimeInvHolds == Spec => []TimeInv
<1>1. Init => TimeInv
  BY TimingAssumption DEF Init, TimeInv
<1>2. TypeOK /\ TimeInv /\ [Next]_vars => TimeInv'
  <2> SUFFICES ASSUME TypeOK, TimeInv, [Next]_vars PROVE TimeInv'
    OBVIOUS
  <2>1. CASE Tick
    BY <2>1, TimingAssumption DEF Tick, file, record, TimeInv, TypeOK, Unchanged
  <2>2. CASE OpenFile  BY <2>2, TouchInTime DEF OpenFile
  <2>3. CASE Remove  BY <2>3, TouchInTime DEF Remove
  <2>4. ASSUME NEW last \in BOOLEAN, WriteMore(last) PROVE TimeInv'
    BY <2>4, TouchInTime DEF WriteMore
  <2>5. ASSUME NEW s \in 0..MaxSize, NEW t \in 0..now, RenameInto(s, t)
        PROVE  TimeInv'
    BY <2>5, TouchInTime DEF RenameInto
  <2>6. CASE SkipSample
    BY <2>6, TimingAssumption DEF SkipSample, file, record, TimeInv, TypeOK, Unchanged
  <2>7. CASE FirstSample \/ ChangedSample  BY <2>7, RecordInTime
  <2>8. CASE EarlySample
    BY <2>8, TimingAssumption DEF EarlySample, file, record, TimeInv, TypeOK, Unchanged
  <2>9. CASE StableSample  BY <2>9, StableInTime
  <2>10. CASE Dispatch
    BY <2>10, TimingAssumption DEF Dispatch, TimeInv, TypeOK
  <2>11. CASE UNCHANGED vars
    BY <2>11 DEF vars, file, record, TimeInv, Unchanged
  <2>12. QED
    BY <2>1, <2>2, <2>3, <2>4, <2>5, <2>6, <2>7, <2>8, <2>9, <2>10, <2>11 DEF Next
<1>3. QED  BY <1>1, <1>2, TypeCorrect, PTL DEF Spec

(* A finished, non-empty file is not kept waiting: it goes within Checks + 1 *)
(* accepted samples, each at most an interval and a period after another.    *)
THEOREM DispatchedInTimeHolds == Spec => []DispatchedInTime
<1>1. TypeOK /\ TimeInv => DispatchedInTime
  <2> SUFFICES ASSUME TypeOK, TimeInv, exists, ~writing, size > 0
               PROVE  now <= touched + (Checks + 1) * (Interval + Period)
    BY DEF DispatchedInTime
  <2>1. /\ count + 1 \in Nat /\ Checks + 1 \in Nat /\ count + 1 + 1 <= Checks + 1
        /\ 1 <= Checks + 1 /\ count + 1 + 1 \in Nat
    BY TimingAssumption DEF TypeOK
  <2> DEFINE D == Interval + Period
  <2>2. /\ (count + 1 + 1) * D = (count + 1) * D + Interval + Period
        /\ (count + 1 + 1) * D <= (Checks + 1) * D /\ 1 * D <= (Checks + 1) * D
        /\ (count + 1) * D \in Nat /\ (Checks + 1) * D \in Nat
    BY <2>1, Deadlines
  <2>3. 1 * D = Interval + Period /\ Interval \in Nat /\ Period \in Nat
    BY TimingAssumption
  <2> HIDE DEF D
  <2>4. now <= touched + 1 * D \/ now <= touched + (count + 1 + 1) * D
    <3>1. CASE ~tracked \/ lastCheck <= touched
      BY <2>3, <3>1 DEF TimeInv, TypeOK
    <3>2. CASE tracked /\ lastCheck > touched
      <4>1. lastCheck <= touched + (count + 1) * D /\ now <= lastCheck + Interval + Period
        BY <3>2, <2>3 DEF TimeInv, TypeOK, D
      <4>2. QED  BY <2>2, <2>3, <4>1 DEF TypeOK
    <3>3. QED  BY <3>1, <3>2 DEF TypeOK
  <2>5. QED  BY <2>2, <2>3, <2>4 DEF TypeOK, D
<1>2. QED  BY <1>1, TypeCorrect, TimeInvHolds, PTL
=============================================================================
