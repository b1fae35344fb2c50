------------------------- MODULE RateLimiterProofs -------------------------
(***************************************************************************)
(* For any number of callers, rate, capacity, cost and timeout: what the   *)
(* limiter lets through, and how long it keeps a caller.                   *)
(***************************************************************************)
EXTENDS RateLimiter, TLAPS

(* The refilled bucket is within its capacity, and gains at most what the  *)
(* rate gives (the min(capacity, ...) of acquire).                         *)
LEMMA FilledBounds ==
  ASSUME TypeOK
  PROVE  /\ Filled \in 0..Capacity
         /\ Filled <= tokens + Rate * (now - lastUpdate)
<1>1. (now - lastUpdate) * Rate \in Nat
  BY LimiterAssumption DEF TypeOK
<1>2. QED  BY <1>1, LimiterAssumption DEF TypeOK, Filled

(* A caller that finds too few tokens sleeps for a positive time.          *)
LEMMA SleepTimeIsPositive ==
  ASSUME TypeOK, Filled < Cost
  PROVE  SleepTime \in Nat \ {0}
<1>1. Cost - Filled \in Nat \ {0}
  BY FilledBounds, LimiterAssumption
<1> DEFINE m == Cost - Filled + Rate - 1
<1>2. m \in Nat /\ m >= Rate
  BY <1>1, LimiterAssumption
<1> HIDE DEF m
<1>3. m \div Rate \in Int /\ m \div Rate >= 1
  BY <1>2, LimiterAssumption, Z3
<1>4. QED  BY <1>3 DEF SleepTime, m

(* Types, for every value of the constants. *)
THEOREM TypeCorrect == Spec => []TypeOK
<1>1. Init => TypeOK
  BY LimiterAssumption DEF Init, TypeOK, Nobody
<1>2. TypeOK /\ [Next]_vars => TypeOK'
  <2> SUFFICES ASSUME TypeOK, [Next]_vars PROVE TypeOK'
    OBVIOUS
  <2> USE LimiterAssumption DEF TypeOK
  <2>1. CASE Tick  BY <2>1 DEF Tick, bucket
  <2>2. CASE OpenWindow  BY <2>2 DEF OpenWindow, callers, bucket
  <2>3. ASSUME NEW c \in Callers, Call(c) PROVE TypeOK'
    BY <2>3 DEF Call, bucket
  <2>4. ASSUME NEW c \in Callers, Grant(c) PROVE TypeOK'
    <3>1. Filled \in 0..Capacity /\ Filled - Cost \in 0..Capacity
      BY <2>4, FilledBounds DEF Grant
    <3>2. QED  BY <2>4, <3>1 DEF Grant, Return
  <2>5. ASSUME NEW c \in Callers, ComeShort(c) PROVE TypeOK'
    <3>1. Filled \in 0..Capacity /\ SleepTime \in Nat
      BY <2>5, FilledBounds, SleepTimeIsPositive DEF ComeShort
    <3>2. QED  BY <2>5, <3>1 DEF ComeShort
  <2>6. ASSUME NEW c \in Callers, Refuse(c) \/ Stay(c) PROVE TypeOK'
    BY <2>6 DEF Refuse, Stay, Return, bucket
  <2>7. ASSUME NEW c \in Callers, Sleep(c) PROVE TypeOK'
    BY <2>7 DEF Sleep, bucket
  <2>8. ASSUME NEW c \in Callers, Wake(c) PROVE TypeOK'
    BY <2>8 DEF Wake, bucket
  <2>9. CASE UNCHANGED vars  BY <2>9 DEF vars, callers, bucket
  <2>10. QED
    BY <2>1, <2>2, <2>3, <2>4, <2>5, <2>6, <2>7, <2>8, <2>9 DEF Next
<1>3. QED  BY <1>1, <1>2, PTL DEF Spec

(* One refill and possibly one request keep the budget: the arithmetic of  *)
(* Grant and ComeShort, which update the bucket in the same way.           *)
LEMMA UpdateKeepsBudget ==
  ASSUME TypeOK, Budget, lastUpdate' = now, UNCHANGED <<now, window>>,
         \/ tokens' = Filled /\ granted' = granted
         \/ Filled >= Cost /\ tokens' = Filled - Cost /\ granted' = granted + 1
  PROVE  Budget'
<1>1. Cost * granted' + tokens' = Cost * granted + Filled
  <2>1. Filled \in Int  BY FilledBounds
  <2>2. Cost * (granted + 1) = Cost * granted + Cost
    BY LimiterAssumption DEF TypeOK
  <2>3. Cost * granted \in Int  BY LimiterAssumption DEF TypeOK
  <2>4. QED  BY <2>1, <2>2, <2>3, LimiterAssumption
<1>2. CASE lastUpdate >= window
  <2>1. Cost * granted + tokens <= Capacity + Rate * (lastUpdate - window)
    BY <1>2 DEF Budget
  <2>2. Rate * (lastUpdate - window) + Rate * (now - lastUpdate) = Rate * (now - window)
    BY LimiterAssumption DEF TypeOK
  <2>3. /\ Cost * granted \in Int /\ Rate * (lastUpdate - window) \in Int
        /\ Rate * (now - lastUpdate) \in Int /\ Filled \in Int
    BY FilledBounds, LimiterAssumption DEF TypeOK
  <2>4. Cost * granted + Filled <= Capacity + Rate * (now - window)
    BY <2>1, <2>2, <2>3, FilledBounds, LimiterAssumption DEF TypeOK
  <2>5. QED  BY <1>1, <2>4 DEF Budget, TypeOK
<1>3. CASE lastUpdate < window
  <2>1. granted = 0 /\ Cost * granted = 0
    BY <1>3, LimiterAssumption DEF Budget, TypeOK
  <2>2. Rate * (now - window) \in Nat
    BY LimiterAssumption DEF TypeOK
  <2>3. Cost * granted + Filled <= Capacity + Rate * (now - window)
    BY <2>1, <2>2, FilledBounds, LimiterAssumption DEF TypeOK
  <2>4. QED  BY <1>1, <2>3 DEF Budget, TypeOK
<1>4. QED  BY <1>2, <1>3 DEF TypeOK

(* The inductive invariant: what was let through and what is left in the   *)
(* bucket never exceed what there was and what has flowed in.              *)
THEOREM BudgetKept == Spec => []Budget
<1>1. Init => Budget
  BY LimiterAssumption DEF Init, Budget
<1>2. TypeOK /\ Budget /\ [Next]_vars => Budget'
  <2> SUFFICES ASSUME TypeOK, Budget, [Next]_vars PROVE Budget'
    OBVIOUS
  <2>1. CASE Tick  BY <2>1 DEF Tick, Budget, bucket
  <2>2. CASE OpenWindow
    <3>1. lastUpdate >= now => lastUpdate = now  BY DEF TypeOK
    <3>2. tokens <= Capacity /\ Cost * 0 = 0 /\ Rate * 0 = 0 /\ now - now = 0
      BY LimiterAssumption DEF TypeOK
    <3>3. QED
      BY <2>2, <3>1, <3>2, LimiterAssumption DEF OpenWindow, Budget, TypeOK, bucket
  <2>3. ASSUME NEW c \in Callers, Call(c) PROVE Budget'
    BY <2>3 DEF Call, Budget, bucket
  <2>4. ASSUME NEW c \in Callers, Grant(c) PROVE Budget'
    BY <2>4, UpdateKeepsBudget DEF Grant
  <2>5. ASSUME NEW c \in Callers, ComeShort(c) PROVE Budget'
    BY <2>5, UpdateKeepsBudget DEF ComeShort
  <2>6. ASSUME NEW c \in Callers, Refuse(c) \/ Stay(c) \/ Sleep(c) \/ Wake(c) PROVE Budget'
    BY <2>6 DEF Refuse, Stay, Sleep, Wake, Budget, bucket
  <2>7. CASE UNCHANGED vars  BY <2>7 DEF vars, Budget, bucket
  <2>8. QED
    BY <2>1, <2>2, <2>3, <2>4, <2>5, <2>6, <2>7 DEF Next
<1>3. QED  BY <1>1, <1>2, TypeCorrect, PTL DEF Spec

(* From any moment on, at most a full bucket and what has flowed in since  *)
(* is let through.                                                         *)
THEOREM BurstPlusRateHolds == Spec => []BurstPlusRate
<1>1. TypeOK /\ Budget => BurstPlusRate
  <2> SUFFICES ASSUME TypeOK, Budget PROVE BurstPlusRate
    OBVIOUS
  <2>1. Rate * (now - window) \in Nat /\ Cost * granted \in Nat
    BY LimiterAssumption DEF TypeOK
  <2>2. CASE lastUpdate >= window
    <3>1. /\ Rate * (now - lastUpdate) \in Nat
          /\ Rate * (lastUpdate - window) \in Nat
          /\ Rate * (lastUpdate - window) + Rate * (now - lastUpdate)
               = Rate * (now - window)
      BY <2>2, LimiterAssumption DEF TypeOK
    <3>2. Cost * granted + tokens <= Capacity + Rate * (lastUpdate - window)
      BY <2>2 DEF Budget
    <3>3. QED
      BY <2>1, <3>1, <3>2, LimiterAssumption DEF TypeOK, BurstPlusRate
  <2>3. CASE lastUpdate < window
    <3>1. granted = 0 /\ Cost * 0 = 0
      BY <2>3, LimiterAssumption DEF TypeOK, Budget
    <3>2. QED  BY <2>1, <3>1, LimiterAssumption DEF BurstPlusRate
  <2>4. QED  BY <2>2, <2>3 DEF TypeOK
<1>2. QED  BY <1>1, TypeCorrect, BudgetKept, PTL

(* Where each caller stands against its timeout.  Once it has found the     *)
(* wait short enough, the rest of the wait ends in time, but for the time   *)
(* it is held up; and of one that was told how long to wait, the wait is    *)
(* still the right one: the others only took.                               *)
Deadline(c) == start[c] + Timeout + delay[c]

WaitTells(c) ==
  tokens + Rate * (now - lastUpdate) + Rate * (need[c] - 1) < Cost + Rate * delay[c]

TimeoutInv ==
  \A c \in Callers :
    /\ at[c] # "idle" => now <= Deadline(c)
    /\ at[c] = "short" => WaitTells(c)
    /\ at[c] = "patient" => now + need[c] <= Deadline(c)
    /\ at[c] = "sleeping" => wake[c] <= Deadline(c)

(* The wait computed under the lock is the shortest in which the tokens     *)
(* that are missing flow in.                                                *)
LEMMA SleepTimeIsShortest ==
  ASSUME TypeOK, Filled < Cost
  PROVE  Filled + Rate * (SleepTime - 1) < Cost
<1> DEFINE m == Cost - Filled + Rate - 1
<1>1. Cost - Filled \in Nat \ {0} /\ Filled \in Nat
  BY FilledBounds, LimiterAssumption
<1>2. m \in Nat /\ Rate \in Nat \ {0}
  BY <1>1, LimiterAssumption
<1>3. m = Cost - Filled + Rate - 1
  OBVIOUS
<1> HIDE DEF m
<1>4. m \div Rate \in Int /\ Rate * (m \div Rate) <= m
  BY <1>2, Z3
<1> DEFINE q == m \div Rate
<1>5. SleepTime = q
  BY DEF SleepTime, m
<1> HIDE DEF q
<1>6. q \in Int /\ Rate * q <= m
  BY <1>4 DEF q
<1>7. Rate * (q - 1) = Rate * q - Rate /\ Rate * q \in Int
  BY <1>2, <1>6
<1> QED BY <1>1, <1>2, <1>3, <1>5, <1>6, <1>7, LimiterAssumption

(* A request of another caller leaves the wait what it was.                 *)
LEMMA OthersOnlyTake ==
  ASSUME TypeOK, NEW c \in Callers, WaitTells(c), lastUpdate' = now, now' = now,
         need'[c] = need[c], delay'[c] = delay[c],
         \/ tokens' = Filled
         \/ Filled >= Cost /\ tokens' = Filled - Cost
  PROVE  WaitTells(c)'
<1>1. tokens' \in Int /\ tokens' <= tokens + Rate * (now - lastUpdate)
  BY FilledBounds, LimiterAssumption DEF TypeOK
<1>2. Rate * (now' - lastUpdate') = 0
  BY LimiterAssumption DEF TypeOK
<1>3. /\ Rate * (now - lastUpdate) \in Int /\ Rate * (need[c] - 1) \in Int
      /\ Rate * delay[c] \in Int /\ Cost \in Int /\ tokens \in Int
  BY LimiterAssumption DEF TypeOK
<1> QED BY <1>1, <1>2, <1>3 DEF WaitTells

(* The tick of a caller that is held up counts for it.                      *)
LEMMA TickKeepsTimeout ==
  ASSUME TypeOK, TimeoutInv, Tick PROVE TimeoutInv'
<1> SUFFICES ASSUME NEW c \in Callers
             PROVE  /\ at'[c] # "idle" => now' <= Deadline(c)'
                    /\ at'[c] = "short" => WaitTells(c)'
                    /\ at'[c] = "patient" => now' + need'[c] <= Deadline(c)'
                    /\ at'[c] = "sleeping" => wake'[c] <= Deadline(c)'
  BY DEF TimeoutInv
<1>1. /\ now' = now + 1 /\ at' = at /\ start' = start /\ need' = need /\ wake' = wake
      /\ tokens' = tokens /\ lastUpdate' = lastUpdate
      /\ delay'[c] = IF HeldUp(c) THEN delay[c] + 1 ELSE delay[c]
  BY DEF Tick, bucket
<1>2. /\ {start[c], need[c], wake[c], delay[c]} \subseteq Nat /\ now \in Nat
      /\ tokens \in Nat /\ lastUpdate \in Nat
      /\ Timeout \in Nat /\ Rate \in Nat /\ Cost \in Nat
  BY LimiterAssumption DEF TypeOK
<1>3. CASE at[c] = "idle"
  BY <1>1, <1>3
<1>4. CASE at[c] # "idle" /\ HeldUp(c)
  <2>1. WaitTells(c) => WaitTells(c)'
    <3>1. Rate * (now' - lastUpdate') = Rate * (now - lastUpdate) + Rate
      BY <1>1, <1>2
    <3>2. Rate * delay'[c] = Rate * delay[c] + Rate
      BY <1>1, <1>2, <1>4
    <3>3. /\ Rate * (now - lastUpdate) \in Int /\ Rate * delay[c] \in Int
          /\ Rate * (need[c] - 1) \in Int
      BY <1>2
    <3> QED BY <1>1, <1>2, <3>1, <3>2, <3>3 DEF WaitTells
  <2> QED BY <1>1, <1>2, <1>4, <2>1 DEF TimeoutInv, Deadline
<1>5. CASE at[c] # "idle" /\ ~HeldUp(c)
  BY <1>1, <1>2, <1>5 DEF TimeoutInv, Deadline, HeldUp
<1> QED BY <1>3, <1>4, <1>5

LEMMA TimeoutNextKeeps ==
  ASSUME TypeOK, TimeoutInv, [Next]_vars PROVE TimeoutInv'
<1> USE LimiterAssumption DEF TypeOK
<1>1. CASE Tick  BY <1>1, TickKeepsTimeout
<1>2. CASE OpenWindow
  BY <1>2 DEF OpenWindow, bucket, callers, TimeoutInv, Deadline, WaitTells
<1>3. ASSUME NEW c \in Callers, Call(c) PROVE TimeoutInv'
  BY <1>3 DEF Call, bucket, TimeoutInv, Deadline, WaitTells
<1>4. ASSUME NEW c \in Callers, Grant(c) PROVE TimeoutInv'
  <2>1. \A d \in Callers : d # c => /\ at'[d] = at[d] /\ start'[d] = start[d] /\ wake'[d] = wake[d]
                                    /\ need'[d] = need[d] /\ delay'[d] = delay[d]
    BY <1>4 DEF Grant, Return
  <2>2. at'[c] = "idle" /\ now' = now
    BY <1>4 DEF Grant, Return
  <2>3. \A d \in Callers : d # c /\ WaitTells(d) => WaitTells(d)'
    BY <1>4, <2>1, OthersOnlyTake DEF Grant
  <2> QED BY <2>1, <2>2, <2>3 DEF TimeoutInv, Deadline
<1>5. ASSUME NEW c \in Callers, ComeShort(c) PROVE TimeoutInv'
  <2>1. /\ start' = start /\ wake' = wake /\ delay' = delay /\ now' = now
        /\ \A d \in Callers : d # c => at'[d] = at[d] /\ need'[d] = need[d]
        /\ at'[c] = "short" /\ at[c] = "locking"
    BY <1>5 DEF ComeShort
  <2>2. \A d \in Callers : d # c /\ WaitTells(d) => WaitTells(d)'
    BY <1>5, <2>1, OthersOnlyTake DEF ComeShort
  <2>3. WaitTells(c)'
    <3>1. tokens' = Filled /\ lastUpdate' = now /\ need'[c] = SleepTime /\ Filled < Cost
      BY <1>5 DEF ComeShort
    <3>2. Filled + Rate * (SleepTime - 1) < Cost
      BY <3>1, SleepTimeIsShortest
    <3>3. Filled \in Nat /\ SleepTime \in Nat
      BY <3>1, FilledBounds, SleepTimeIsPositive
    <3>4. /\ Rate * (now' - lastUpdate') = 0 /\ Rate * (SleepTime - 1) \in Int
          /\ Rate * delay[c] \in Nat
      BY <2>1, <3>1, <3>3
    <3>5. Cost + Rate * delay'[c] = Cost + Rate * delay[c]
      BY <2>1
    <3>6. Filled + 0 + Rate * (SleepTime - 1) < Cost + Rate * delay[c]
      BY <3>2, <3>3, <3>4
    <3>7. tokens' + Rate * (now' - lastUpdate') + Rate * (need'[c] - 1) < Cost + Rate * delay'[c]
      BY <3>1, <3>4, <3>5, <3>6
    <3> QED BY <3>7 DEF WaitTells
  <2>4. \A d \in Callers : Deadline(d)' = Deadline(d)
    BY <2>1 DEF Deadline
  <2>5. \A d \in Callers : at'[d] # "idle" => at[d] # "idle"
    BY <2>1
  <2> QED BY <2>1, <2>2, <2>3, <2>4, <2>5 DEF TimeoutInv
<1>6. ASSUME NEW c \in Callers, Refuse(c) PROVE TimeoutInv'
  BY <1>6 DEF Refuse, Return, bucket, TimeoutInv, Deadline, WaitTells
<1>7. ASSUME NEW c \in Callers, Stay(c) PROVE TimeoutInv'
  <2>1. now - start[c] + need[c] <= Timeout
    BY <1>7 DEF Stay, TooLong
  <2>2. now + need[c] <= Deadline(c)
    BY <2>1 DEF Deadline
  <2> QED BY <1>7, <2>2 DEF Stay, bucket, TimeoutInv, Deadline, WaitTells
<1>8. ASSUME NEW c \in Callers, Sleep(c) PROVE TimeoutInv'
  <2>1. now + (IF need[c] < MaxSleep THEN need[c] ELSE MaxSleep) <= Deadline(c)
    BY <1>8 DEF Sleep, TimeoutInv, Deadline
  <2> QED BY <1>8, <2>1 DEF Sleep, bucket, TimeoutInv, Deadline, WaitTells
<1>9. ASSUME NEW c \in Callers, Wake(c) PROVE TimeoutInv'
  BY <1>9 DEF Wake, bucket, TimeoutInv, Deadline, WaitTells
<1>10. CASE UNCHANGED vars
  BY <1>10 DEF vars, bucket, callers, TimeoutInv, Deadline, WaitTells
<1> QED BY <1>1, <1>2, <1>3, <1>4, <1>5, <1>6, <1>7, <1>8, <1>9, <1>10 DEF Next

(* A call of acquire() ends in time, and is refused only if its tokens      *)
(* would not have come in time, but for the time it was held up: for any    *)
(* number of callers that take each other's tokens.                         *)
THEOREM TimeoutHolds == Spec => TimeoutIsKept
<1>1. Init => TimeoutInv
  BY DEF Init, TimeoutInv
<1>2. TypeOK /\ TimeoutInv /\ [Next]_vars => TimeoutInv'
  BY TimeoutNextKeeps
<1>3. ASSUME TypeOK, TypeOK', TimeoutInv, TimeoutInv', [Next]_vars
      PROVE  [\A c \in Callers :
                /\ at'[c] # "idle" => now' <= start'[c] + Timeout + delay'[c]
                /\ at[c] = "short" /\ at'[c] = "idle" =>
                     Filled + Rate * (start[c] + Timeout - now - delay[c]) < Cost]_vars
  <2> SUFFICES ASSUME Next, NEW c \in Callers
               PROVE  /\ at'[c] # "idle" => now' <= start'[c] + Timeout + delay'[c]
                      /\ at[c] = "short" /\ at'[c] = "idle" =>
                           Filled + Rate * (start[c] + Timeout - now - delay[c]) < Cost
    BY <1>3
  <2>1. at'[c] # "idle" => now' <= start'[c] + Timeout + delay'[c]
    BY <1>3 DEF TimeoutInv, Deadline
  <2>2. ASSUME at[c] = "short", at'[c] = "idle"
        PROVE  Filled + Rate * (start[c] + Timeout - now - delay[c]) < Cost
    <3>1. TooLong(c)
      BY <1>3, <2>2 DEF Next, Tick, OpenWindow, callers, Call, Grant, ComeShort, Refuse, Stay, Sleep,
        Wake, Return, TypeOK
    <3> DEFINE left == start[c] + Timeout - now
    <3> DEFINE n == need[c] - 1
    <3>2. left <= n /\ left \in Int /\ n \in Int /\ delay[c] \in Nat /\ Rate \in Nat /\ Cost \in Nat
      BY <1>3, <3>1, LimiterAssumption DEF TooLong, TypeOK
    <3>3. tokens + Rate * (now - lastUpdate) + Rate * n < Cost + Rate * delay[c]
      BY <1>3, <2>2 DEF TimeoutInv, WaitTells
    <3>4. Filled <= tokens + Rate * (now - lastUpdate) /\ Filled \in Int
      BY <1>3, FilledBounds
    <3>5. tokens + Rate * (now - lastUpdate) \in Int
      BY <1>3, LimiterAssumption DEF TypeOK
    <3> HIDE DEF left, n
    <3>6. Rate * left <= Rate * n /\ Rate * left \in Int /\ Rate * n \in Int /\ Rate * delay[c] \in Int
      BY <3>2
    <3>7. Rate * (left - delay[c]) = Rate * left - Rate * delay[c]
      BY <3>2
    <3>8. Filled + Rate * (left - delay[c]) < Cost
      BY <3>2, <3>3, <3>4, <3>5, <3>6, <3>7
    <3>9. start[c] + Timeout - now - delay[c] = left - delay[c]
      BY <1>3, <3>2, LimiterAssumption DEF left, TypeOK
    <3> QED BY <3>8, <3>9
  <2> QED BY <2>1, <2>2
<1> QED BY <1>1, <1>2, <1>3, TypeCorrect, PTL DEF Spec, TimeoutIsKept
=============================================================================
