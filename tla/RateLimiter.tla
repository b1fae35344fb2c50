---------------------------- MODULE RateLimiter ----------------------------
(***************************************************************************)
(* TokenBucketRateLimiter: callers of acquire share a bucket of tokens     *)
(* that fills with time.  Tokens are counted in units small enough that a  *)
(* tick adds Rate of them and a request takes Cost of them.                *)
(***************************************************************************)
EXTENDS Integers

CONSTANTS
  Callers,   (* threads calling acquire() on one limiter                    *)
  Rate, Capacity, Cost,
  Timeout,   (* of acquire(), in ticks                                      *)
  MaxSleep,  (* the 50 ms cap of one sleep, in ticks                        *)
  MaxTime    (* bound: length of the run                                    *)

ASSUME LimiterAssumption ==
  /\ Rate \in Nat \ {0} /\ Capacity \in Nat /\ Cost \in Nat \ {0}
  /\ Timeout \in Nat /\ MaxSleep \in Nat \ {0}
  /\ MaxTime \in Nat

VARIABLES
  now, tokens, lastUpdate,
  at, start, need, wake, (* per caller: point reached, start_wait,          *)
                         (* sleep_time, end of its time.sleep               *)
  delay,                 (* history: ticks the caller waited for a processor *)
                         (* or for the lock during its call                 *)
  window, granted        (* history: a moment, and the requests since then  *)

callers == <<at, start, need, wake, delay>>
bucket  == <<tokens, lastUpdate>>
vars    == <<now, bucket, callers, window, granted>>

TypeOK ==
  /\ now \in 0..MaxTime
  /\ tokens \in 0..Capacity
  /\ lastUpdate \in 0..now /\ window \in 0..now
  /\ at \in [Callers -> {"idle", "locking", "short", "patient", "sleeping"}]
  /\ \A f \in {start, need, wake, delay} : f \in [Callers -> Nat]
  /\ \A c \in Callers : start[c] <= now
  /\ granted \in Nat

Nobody == [c \in Callers |-> 0]

Init ==
  /\ now = 0 /\ tokens = Capacity /\ lastUpdate = 0
  /\ at = [c \in Callers |-> "idle"]
  /\ start = Nobody /\ need = Nobody /\ wake = Nobody /\ delay = Nobody
  /\ window = 0 /\ granted = 0

(* A caller is held up if it could go on: it is neither out of acquire nor  *)
(* in a sleep that is not over.                                             *)
HeldUp(c) == at[c] # "idle" /\ (at[c] = "sleeping" => wake[c] <= now)

Tick ==
  /\ now < MaxTime /\ now' = now + 1
  /\ delay' = [c \in Callers |-> IF HeldUp(c) THEN delay[c] + 1 ELSE delay[c]]
  /\ UNCHANGED <<bucket, at, start, need, wake, window, granted>>

(* Counting starts anew, at any moment. *)
OpenWindow ==
  /\ window' = now /\ granted' = 0
  /\ UNCHANGED <<now, bucket, callers>>

(* Out of acquire(), its locals are gone.                                   *)
Return(c) ==
  /\ at' = [at EXCEPT ![c] = "idle"]
  /\ start' = [start EXCEPT ![c] = 0] /\ need' = [need EXCEPT ![c] = 0]
  /\ delay' = [delay EXCEPT ![c] = 0]
  /\ UNCHANGED wake

Call(c) ==
  /\ at[c] = "idle"
  /\ at' = [at EXCEPT ![c] = "locking"]
  /\ start' = [start EXCEPT ![c] = now]
  /\ UNCHANGED <<now, bucket, need, wake, delay, window, granted>>

-----------------------------------------------------------------------------
(* Under the lock *)

(* Mutant of Filled: without min(capacity, ...).                           *)
FilledWithoutCap == tokens + (now - lastUpdate) * Rate

(* What is in the bucket once it is brought up to date. *)
Filled == LET sum == tokens + (now - lastUpdate) * Rate
          IN  IF sum > Capacity THEN Capacity ELSE sum

(* Ticks until the missing tokens are there, rounded up. *)
SleepTime == (Cost - Filled + Rate - 1) \div Rate

(* The caller finds its tokens ... *)
Grant(c) ==
  /\ at[c] = "locking" /\ Filled >= Cost
  /\ tokens' = Filled - Cost /\ lastUpdate' = now
  /\ granted' = granted + 1
  /\ Return(c)
  /\ UNCHANGED <<now, window>>

(* ... or computes how long they will take, and leaves the lock.           *)
ComeShort(c) ==
  /\ at[c] = "locking" /\ Filled < Cost
  /\ tokens' = Filled /\ lastUpdate' = now
  /\ need' = [need EXCEPT ![c] = SleepTime]
  /\ at' = [at EXCEPT ![c] = "short"]
  /\ UNCHANGED <<now, start, wake, delay, window, granted>>

-----------------------------------------------------------------------------
(* Without the lock: each step may come later than the one before          *)

(* Mutant of TooLong: the wait alone is compared with the timeout.         *)
TooLongByItself(c) == need[c] > Timeout

(* The clock is read again. *)
TooLong(c) == now - start[c] + need[c] > Timeout

Refuse(c) ==
  /\ at[c] = "short" /\ TooLong(c)
  /\ Return(c)
  /\ UNCHANGED <<now, bucket, window, granted>>

Stay(c) ==
  /\ at[c] = "short" /\ ~TooLong(c)
  /\ at' = [at EXCEPT ![c] = "patient"]
  /\ UNCHANGED <<now, bucket, start, need, wake, delay, window, granted>>

(* At most MaxSleep at a time, from when the sleep begins. *)
Sleep(c) ==
  /\ at[c] = "patient"
  /\ at' = [at EXCEPT ![c] = "sleeping"]
  /\ wake' = [wake EXCEPT ![c] = now + (IF need[c] < MaxSleep THEN need[c] ELSE MaxSleep)]
  /\ need' = [need EXCEPT ![c] = 0]
  /\ UNCHANGED <<now, bucket, start, delay, window, granted>>

(* The sleeper goes for the lock when its time is up, or later. *)
Wake(c) ==
  /\ at[c] = "sleeping" /\ now >= wake[c]
  /\ at' = [at EXCEPT ![c] = "locking"]
  /\ wake' = [wake EXCEPT ![c] = 0]
  /\ UNCHANGED <<now, bucket, start, need, delay, window, granted>>

Next == \/ Tick \/ OpenWindow
        \/ \E c \in Callers : \/ Call(c) \/ Grant(c) \/ ComeShort(c) \/ Refuse(c)
                              \/ Stay(c) \/ Sleep(c) \/ Wake(c)

Spec == Init /\ [][Next]_vars

-----------------------------------------------------------------------------
(* From any moment on, the requests let through are at most a full bucket   *)
(* and what has flowed in since, however the callers' checks, sleeps and    *)
(* refills interleave.                                                      *)
BurstPlusRate == Cost * granted <= Capacity + Rate * (now - window)

(* The same including what is still in the bucket, up to its last refill.   *)
Budget ==
  IF lastUpdate >= window
    THEN Cost * granted + tokens <= Capacity + Rate * (lastUpdate - window)
    ELSE granted = 0

(* acquire() blocks "up to timeout", which is no longer and no less.  A     *)
(* call lasts no longer than its timeout and the time it was held up,       *)
(* however often others take the tokens it slept for: the wait is compared  *)
(* after the lock is left, and the sleep begins later still.  And it is     *)
(* refused only if the tokens there and those to come by its timeout are    *)
(* too few, but for the time it was held up: the wait it computed before    *)
(* others came still tells.                                                 *)
TimeoutIsKept ==
  [][\A c \in Callers :
       /\ at'[c] # "idle" => now' <= start'[c] + Timeout + delay'[c]
       /\ at[c] = "short" /\ at'[c] = "idle" =>
            Filled + Rate * (start[c] + Timeout - now - delay[c]) < Cost]_vars
=============================================================================
