--------------------------- MODULE WriteDetector ---------------------------
(***************************************************************************)
(* CompleteWriteDetector on one path of incoming, against a writer that    *)
(* writes the file in place (SecFetcher, cp, a network share) and a daemon *)
(* that samples it now and then.  Time is in ticks.  A file has a size and *)
(* an mtime, the time of its last write; whether its writer is done is     *)
(* known to the model only.                                                *)
(***************************************************************************)
EXTENDS Naturals

CONSTANTS
  Interval,    (* write_detection_interval_seconds                          *)
  Checks,      (* stability_checks                                          *)
  Period,      (* a sweep samples the path at least this often              *)
  MaxPause,    (* the longest a writer pauses between two writes            *)
  MaxSize, MaxTime  (* bounds: size of a file, length of the run            *)

ASSUME TimingAssumption ==
  /\ Interval \in Nat \ {0} /\ Checks \in Nat \ {0} /\ Period \in Nat \ {0}
  /\ MaxPause \in Nat /\ MaxSize \in Nat /\ MaxTime \in Nat

(* Under this condition the detector is right.                             *)
PausesAreShort == MaxPause < Checks * Interval

VARIABLES
  now,
  exists, size, mtime,  (* what stat returns                                *)
  writing,              (* the writer has the file open                     *)
  tracked, rsize, rmtime, lastCheck, count,  (* the record in _tracked      *)
  lastSweep,
  dispatched,           (* what the last dispatched file was                *)
  touched               (* history: when the path last changed              *)

file   == <<exists, size, mtime, writing>>
record == <<tracked, rsize, rmtime, lastCheck, count>>
vars   == <<now, file, record, lastSweep, dispatched, touched>>

TypeOK ==
  /\ now \in Nat /\ lastSweep \in Nat /\ touched \in Nat
  /\ exists \in BOOLEAN /\ size \in Nat /\ mtime \in Nat /\ writing \in BOOLEAN
  /\ tracked \in BOOLEAN /\ rsize \in Nat /\ rmtime \in Nat /\ lastCheck \in Nat
  /\ count \in Nat /\ count < Checks
  /\ dispatched \in {"nothing", "whole", "partial"}

Init ==
  /\ now = 0 /\ lastSweep = 0 /\ touched = 0 /\ dispatched = "nothing"
  /\ exists = FALSE /\ size = 0 /\ mtime = 0 /\ writing = FALSE
  /\ tracked = FALSE /\ rsize = 0 /\ rmtime = 0 /\ lastCheck = 0 /\ count = 0

-----------------------------------------------------------------------------
(* The clock stops for no one but the deadlines of the writer and of the   *)
(* daemon's sweep.                                                         *)
Tick ==
  /\ now < MaxTime /\ now' = now + 1
  /\ writing => now < mtime + MaxPause
  /\ now < lastSweep + Period
  /\ UNCHANGED <<file, record, lastSweep, dispatched, touched>>

(* open(path, "wb"): a new file, or the old one truncated.                 *)
OpenFile ==
  /\ ~writing
  /\ exists' = TRUE /\ size' = 0 /\ mtime' = now /\ writing' = TRUE
  /\ touched' = now
  /\ UNCHANGED <<now, record, lastSweep, dispatched>>

WriteMore(last) ==
  /\ writing /\ size < MaxSize
  /\ size' = size + 1 /\ mtime' = now /\ writing' = ~last
  /\ touched' = now
  /\ UNCHANGED <<now, exists, record, lastSweep, dispatched>>

(* A finished file renamed into place, or back: its mtime is its own.      *)
RenameInto(s, t) ==
  /\ ~writing
  /\ exists' = TRUE /\ size' = s /\ mtime' = t /\ writing' = FALSE
  /\ touched' = now
  /\ UNCHANGED <<now, record, lastSweep, dispatched>>

(* A finished file removed by someone else.                                *)
Remove ==
  /\ exists /\ ~writing
  /\ exists' = FALSE /\ size' = 0 /\ mtime' = 0
  /\ touched' = now
  /\ UNCHANGED <<now, writing, record, lastSweep, dispatched>>

-----------------------------------------------------------------------------
(* One evaluation of process_pending for the path.                         *)
Unchanged == size = rsize /\ mtime = rmtime

(* Mutant of ThresholdReached: off by one.                                  *)
ReachedOneEarly == count + 2 >= Checks

(* This sample makes stability_checks unchanged ones.                       *)
ThresholdReached == count + 1 >= Checks

(* Not there: the sweep drops the candidate before it asks the detector,   *)
(* whose record of the path stays.  Empty: rejected without a trace.       *)
SkipSample ==
  /\ ~exists \/ size = 0
  /\ lastSweep' = now
  /\ UNCHANGED <<now, file, record, dispatched, touched>>

FirstSample ==
  /\ exists /\ size > 0 /\ ~tracked
  /\ tracked' = TRUE /\ rsize' = size /\ rmtime' = mtime /\ lastCheck' = now
  /\ count' = 0 /\ lastSweep' = now
  /\ UNCHANGED <<now, file, dispatched, touched>>

(* Mutant of EarlySample: the sampling time is noted all the same.          *)
EarlySampleRestartsInterval ==
  /\ exists /\ size > 0 /\ tracked /\ now < lastCheck + Interval
  /\ lastSweep' = now /\ lastCheck' = now
  /\ UNCHANGED <<now, file, tracked, rsize, rmtime, count, dispatched, touched>>

EarlySample ==
  /\ exists /\ size > 0 /\ tracked /\ now < lastCheck + Interval
  /\ lastSweep' = now
  /\ UNCHANGED <<now, file, record, dispatched, touched>>

(* Mutant of ChangedSample: the count survives the change.                  *)
ChangedSampleKeepsCount ==
  /\ exists /\ size > 0 /\ tracked /\ now >= lastCheck + Interval /\ ~Unchanged
  /\ rsize' = size /\ rmtime' = mtime /\ lastCheck' = now /\ count' = count
  /\ lastSweep' = now
  /\ UNCHANGED <<now, file, tracked, dispatched, touched>>

ChangedSample ==
  /\ exists /\ size > 0 /\ tracked /\ now >= lastCheck + Interval /\ ~Unchanged
  /\ rsize' = size /\ rmtime' = mtime /\ lastCheck' = now /\ count' = 0
  /\ lastSweep' = now
  /\ UNCHANGED <<now, file, tracked, dispatched, touched>>

StableSample ==
  /\ exists /\ size > 0 /\ tracked /\ now >= lastCheck + Interval /\ Unchanged
  /\ ~ThresholdReached
  /\ count' = count + 1 /\ lastCheck' = now /\ lastSweep' = now
  /\ UNCHANGED <<now, file, tracked, rsize, rmtime, dispatched, touched>>

(* The threshold is reached: the record goes, and handle_file moves the    *)
(* file away (from under its writer, if it still has one).                 *)
Dispatch ==
  /\ exists /\ size > 0 /\ tracked /\ now >= lastCheck + Interval /\ Unchanged
  /\ ThresholdReached
  /\ dispatched' = IF writing THEN "partial" ELSE "whole"
  /\ tracked' = FALSE /\ rsize' = 0 /\ rmtime' = 0 /\ lastCheck' = 0 /\ count' = 0
  /\ exists' = FALSE /\ size' = 0 /\ mtime' = 0 /\ writing' = FALSE
  /\ lastSweep' = now
  /\ UNCHANGED <<now, touched>>

Next == \/ Tick \/ OpenFile \/ Remove
        \/ \E last \in BOOLEAN : WriteMore(last)
        \/ \E s \in 0..MaxSize, t \in 0..now : RenameInto(s, t)
        \/ SkipSample \/ FirstSample \/ EarlySample \/ ChangedSample
        \/ StableSample \/ Dispatch

Spec == Init /\ [][Next]_vars

-----------------------------------------------------------------------------
(* No file is dispatched while it is being written, when no writer pauses   *)
(* for as long as the stability window.                                     *)
OnlyWholeFilesDispatched == dispatched # "partial"

(* The invariant behind it: what the record says was last changed at least  *)
(* count intervals before the last check, and an open file was written to   *)
(* at most MaxPause ago.                                                    *)
DetectorInv ==
  /\ tracked => rmtime + count * Interval <= lastCheck
  /\ lastCheck <= now /\ mtime <= now
  /\ writing => now <= mtime + MaxPause

(* A finished, non-empty file is not kept waiting: it goes within Checks + 1 *)
(* accepted samples, each at most an interval and a sweep period after the  *)
(* one before; samples that come too early do not put the next one off.     *)
DispatchedInTime ==
  exists /\ ~writing /\ size > 0 =>
    now <= touched + (Checks + 1) * (Interval + Period)

(* The invariant behind that: a sweep is never late; after the file was     *)
(* last touched the sweep that follows is accepted within an interval, and  *)
(* from then on the record is the file's and the accepted samples count.    *)
TimeInv ==
  /\ touched <= now /\ lastSweep <= now /\ now <= lastSweep + Period /\ lastCheck <= now
  /\ exists /\ ~writing /\ size > 0 =>
       /\ ~tracked => lastSweep <= touched
       /\ tracked /\ lastCheck <= touched => lastSweep <= touched + Interval
       /\ tracked /\ lastCheck > touched =>
            /\ Unchanged /\ lastSweep <= lastCheck + Interval
            /\ lastCheck <= touched + (count + 1) * (Interval + Period)
=============================================================================
