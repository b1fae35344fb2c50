---------------------------- MODULE ParserProofs ----------------------------
(***************************************************************************)
(* What is proved of Parser and of the Splitter it calls: for every text,  *)
(* hierarchy of delimiters, limit and overlap the splitter loses nothing,  *)
(* never repeats a chunk and exceeds its limit by a bounded number of      *)
(* tokens; for every document, partitioner and outcome the chunks keep the *)
(* text, its sections, their order and their rows.                         *)
(***************************************************************************)
EXTENDS Parser, SequenceTheorems, FiniteSetTheorems, WellFoundedInduction, TLAPS

-----------------------------------------------------------------------------
(* The inductive invariant of the splitter *)

Text == Seq(Word) \ {<<>>}

CallRecord ==
  [level : Levels \union {0}, rest : Seq(Word), units : Seq(Text),
   window : Seq(Word), cuts : SUBSET Nat, done : Seq(Text)]

End(t) == t[Len(t)].last

Rising(ts) == \A i, j \in DOMAIN ts : i < j => End(ts[i]) < End(ts[j])

Covered(ts) == UNION {Characters(ts[i]) : i \in DOMAIN ts}

Content(c) ==
  Characters(c.rest) \union Covered(c.units) \union Characters(c.window) \union Covered(c.done)

(* What was cut is merged in its order: the units end one after the other, *)
(* after the window, which ends after the chunks done.                     *)
CallOrder(c) ==
  /\ Ascending(c.rest) /\ Rising(c.units) /\ Rising(c.done)
  /\ \A j \in DOMAIN c.units :
       /\ c.window # <<>> => End(c.window) < End(c.units[j])
       /\ c.level # 0 => \A x \in Characters(c.rest) : End(c.units[j]) < x
  /\ \A i \in DOMAIN c.done :
       /\ c.level # 0 => c.window # <<>> /\ End(c.done[i]) < End(c.window)
       /\ c.level = 0 /\ c.rest # <<>> =>
            End(c.done[i]) < c.rest[1].last /\ End(c.done[i]) < c.rest[1].first + Step - 1

(* The loops of a call: cutting or slicing, then merging.                  *)
CallPhase(c) ==
  /\ c.cuts \subseteq 1..Len(c.window) /\ Len(c.window) \in c.cuts \union {0}
  /\ IF c.level = 0 THEN c.units = <<>> /\ c.window = <<>> /\ Len(c.rest) <= 1
     ELSE c.rest # <<>> => c.window = <<>> /\ c.done = <<>>

(* A call waits for the one it made, which works on what comes after its   *)
(* units and before the rest of its text.                                  *)
Waiting(c) == c.level # 0 /\ c.window = <<>> /\ c.done = <<>>

Between(c, x) ==
  /\ \A j \in DOMAIN c.units : End(c.units[j]) < x
  /\ \A y \in Characters(c.rest) : x < y

Nested == \A i, j \in DOMAIN calls : i < j =>
            Waiting(calls[i]) /\ \A x \in Content(calls[j]) : Between(calls[i], x)

InCalls == UNION {Content(calls[i]) : i \in DOMAIN calls}

SplitterTypeOK ==
  /\ overlap \in Overlaps
  /\ text \in Texts \union {<<>>}
  /\ calls \in Seq(CallRecord)
  /\ chunks \in Seq(Text)

SplitterInv ==
  /\ SplitterTypeOK
  /\ \A i \in DOMAIN calls : CallOrder(calls[i]) /\ CallPhase(calls[i])
  /\ Nested
  /\ text = <<>> => calls = <<>> /\ chunks = <<>>
  /\ calls # <<>> => Characters(text) = InCalls /\ chunks = <<>>
  /\ NothingLost /\ Rising(chunks)

-----------------------------------------------------------------------------
(* Numbers *)

(* A set of numbers that is not empty has a least one.                     *)
LEMMA LeastExists ==
  ASSUME NEW S, S \subseteq Nat, S # {}
  PROVE  Least(S) \in S /\ \A m \in S : Least(S) <= m
<1>1. PICK n \in S : \A m \in S : ~(<<m, n>> \in OpToRel(<, Nat))
  <2>1. IsWellFoundedOn(OpToRel(<, Nat), Nat)
    BY NatLessThanWellFounded
  <2> QED BY <2>1, WFMin
<1>2. \A m \in S : n <= m
  <2> SUFFICES ASSUME NEW m \in S, m < n PROVE FALSE
    BY SMT
  <2>1. <<m, n>> \in Nat \X Nat
    OBVIOUS
  <2>2. <<m, n>> \in OpToRel(<, Nat)
    BY <2>1 DEF OpToRel
  <2> QED BY <1>1, <2>2
<1> QED BY <1>1, <1>2 DEF Least

LEMMA SettingsAreNumbers ==
  /\ MaxChunkTokens \in Nat \ {0} /\ MaxCharacters \in Nat \ {0}
  /\ Levels \subseteq Nat \ {0}
  /\ Step \in Nat \ {0}
  /\ overlap \in Overlaps => Advance \in 1..Step
<1>1. MaxChunkTokens \in Nat \ {0} /\ MaxCharacters \in Nat \ {0}
  BY SettingsAssumption
<1>2. Levels \subseteq Nat \ {0}
  BY SettingsAssumption, LenProperties DEF Levels
<1>3. Step \in Nat \ {0}
  BY <1>1 DEF Step, Smaller
<1>4. overlap \in Overlaps => Advance \in 1..Step
  BY <1>3, SettingsAssumption DEF Advance
<1> QED BY <1>1, <1>2, <1>3, <1>4

-----------------------------------------------------------------------------
(* Sums *)

(* The sums of the first n, as a function that refers to itself.           *)
SumsTo(s, n, g) == g = [k \in 0..n |-> IF k = 0 THEN 0 ELSE g[k - 1] + s[k]]

LEMMA SumsExist ==
  ASSUME NEW s, NEW N \in Nat
  PROVE  \E g : SumsTo(s, N, g)
<1> DEFINE S == {n \in Nat : ~\E g : SumsTo(s, n, g)}
<1> SUFFICES ASSUME S # {} PROVE FALSE
  OBVIOUS
<1> DEFINE n == Least(S)
<1>1. n \in Nat /\ n \in S /\ \A m \in S : n <= m
  BY LeastExists
<1> HIDE DEF n
<1>2. CASE n = 0
  <2> DEFINE g == [k \in 0..0 |-> 0]
  <2>1. g = [k \in 0..0 |-> IF k = 0 THEN 0 ELSE g[k - 1] + s[k]]
    OBVIOUS
  <2>2. SumsTo(s, 0, g)
    BY <2>1 DEF SumsTo
  <2> QED BY <1>1, <1>2, <2>2
<1>3. CASE n # 0
  <2>1. n - 1 \in Nat /\ ~(n <= n - 1)
    BY <1>1, <1>3
  <2>2. PICK h : SumsTo(s, n - 1, h)
    BY <1>1, <2>1
  <2> DEFINE g == [k \in 0..n |-> IF k = n THEN h[n - 1] + s[n] ELSE h[k]]
  <2>3. \A k \in 0..(n - 1) : h[k] = IF k = 0 THEN 0 ELSE h[k - 1] + s[k]
    BY <2>2 DEF SumsTo
  <2>4. \A k \in 0..n : g[k] = IF k = 0 THEN 0 ELSE g[k - 1] + s[k]
    <3> SUFFICES ASSUME NEW k \in 0..n PROVE g[k] = IF k = 0 THEN 0 ELSE g[k - 1] + s[k]
      OBVIOUS
    <3>1. CASE k = n
      <4>1. n - 1 \in 0..n /\ n - 1 # n
        BY <1>1, <1>3
      <4> QED BY <1>3, <3>1, <4>1
    <3>2. CASE k # n
      <4>1. k \in 0..(n - 1) /\ (k # 0 => k - 1 \in 0..n /\ k - 1 # n)
        BY <1>1, <3>2
      <4> QED BY <2>3, <3>2, <4>1
    <3> QED BY <3>1, <3>2
  <2>5. g = [k \in 0..n |-> IF k = 0 THEN 0 ELSE g[k - 1] + s[k]]
    BY <2>4
  <2>6. SumsTo(s, n, g)
    BY <2>5 DEF SumsTo
  <2> QED BY <1>1, <2>6
<1> QED BY <1>2, <1>3

LEMMA UpToIs ==
  ASSUME NEW s, Len(s) \in Nat
  PROVE  /\ UpTo(s)[0] = 0
         /\ \A k \in 1..Len(s) : UpTo(s)[k] = UpTo(s)[k - 1] + s[k]
<1> DEFINE f == CHOOSE f : SumsTo(s, Len(s), f)
<1>1. SumsTo(s, Len(s), f)
  BY SumsExist
<1>2. UpTo(s) = f
  BY DEF UpTo, SumsTo
<1> HIDE DEF f
<1>3. \A k \in 0..Len(s) : f[k] = IF k = 0 THEN 0 ELSE f[k - 1] + s[k]
  BY <1>1 DEF SumsTo
<1>4. 0 \in 0..Len(s) /\ \A k \in 1..Len(s) : k \in 0..Len(s) /\ k # 0
  OBVIOUS
<1> QED BY <1>2, <1>3, <1>4

(* Induction, for a set of numbers. *)
LEMMA Climb ==
  ASSUME NEW N \in Nat, NEW S, 0 \in S, \A n \in 0..N : n \in S /\ n # N => n + 1 \in S
  PROVE  \A n \in 0..N : n \in S
<1> DEFINE M == {n \in 0..N : n \notin S}
<1> SUFFICES ASSUME M # {} PROVE FALSE
  OBVIOUS
<1> DEFINE n == Least(M)
<1>1. n \in 0..N /\ n \notin S /\ \A m \in M : n <= m
  <2>1. M \subseteq Nat
    OBVIOUS
  <2>2. n \in M /\ \A m \in M : n <= m
    <3> HIDE DEF M
    <3> QED BY <2>1, LeastExists
  <2> QED BY <2>2
<1> HIDE DEF n
<1>2. n # 0 /\ n - 1 \in 0..N /\ n - 1 # N /\ n - 1 + 1 = n
  BY <1>1
<1>3. n - 1 \notin S
  BY <1>1, <1>2
<1>4. n - 1 \in M
  BY <1>2, <1>3
<1> QED BY <1>1, <1>4

LEMMA SumsAreNumbers ==
  ASSUME NEW s \in Seq(Nat)
  PROVE  /\ Len(s) \in Nat /\ SumSeq(s) \in Nat
         /\ \A k \in 0..Len(s) : UpTo(s)[k] \in Nat
         /\ UpTo(s)[0] = 0
         /\ \A k \in 1..Len(s) : UpTo(s)[k] = UpTo(s)[k - 1] + s[k]
<1>1. Len(s) \in Nat /\ \A k \in 1..Len(s) : s[k] \in Nat
  BY LenProperties, ElementOfSeq
<1>2. UpTo(s)[0] = 0 /\ \A k \in 1..Len(s) : UpTo(s)[k] = UpTo(s)[k - 1] + s[k]
  BY <1>1, UpToIs
<1> DEFINE S == {k \in Nat : UpTo(s)[k] \in Nat}
<1>3. 0 \in S
  BY <1>2
<1>4. ASSUME NEW n \in 0..Len(s), n \in S, n # Len(s) PROVE n + 1 \in S
  <2>1. n + 1 \in 1..Len(s) /\ n + 1 - 1 = n /\ n + 1 \in Nat
    BY <1>1, <1>4
  <2>2. UpTo(s)[n + 1] = UpTo(s)[n] + s[n + 1]
    BY <1>2, <2>1
  <2> QED BY <1>1, <1>4, <2>1, <2>2
<1>5. \A k \in 0..Len(s) : k \in S
  <2> HIDE DEF S
  <2> QED BY <1>1, <1>3, <1>4, Climb
<1> QED BY <1>1, <1>2, <1>5 DEF SumSeq

(* The sums grow. *)
LEMMA SumsGrow ==
  ASSUME NEW s \in Seq(Nat), NEW i \in 0..Len(s), NEW j \in 0..Len(s), i <= j
  PROVE  UpTo(s)[i] <= UpTo(s)[j]
<1> DEFINE S == {k \in Nat : i <= k => UpTo(s)[i] <= UpTo(s)[k]}
<1>1. /\ Len(s) \in Nat /\ \A k \in 1..Len(s) : s[k] \in Nat
  BY LenProperties, ElementOfSeq
<1>2. 0 \in S
  BY <1>1, SumsAreNumbers
<1>3. ASSUME NEW n \in 0..Len(s), n \in S, n # Len(s) PROVE n + 1 \in S
  <2>1. n + 1 \in 1..Len(s) /\ n + 1 - 1 = n /\ n + 1 \in Nat
    BY <1>1, <1>3
  <2>2. UpTo(s)[n + 1] = UpTo(s)[n] + s[n + 1] /\ s[n + 1] \in Nat
    BY <1>1, <2>1, SumsAreNumbers
  <2>3. UpTo(s)[n] \in Nat /\ UpTo(s)[i] \in Nat /\ UpTo(s)[n + 1] \in Nat
    BY <1>1, <2>1, SumsAreNumbers
  <2>4. CASE i <= n
    BY <1>3, <2>1, <2>2, <2>3, <2>4
  <2>5. CASE ~(i <= n)
    <3>1. i <= n + 1 => i = n + 1
      BY <1>1, <2>5
    <3> QED BY <2>1, <2>3, <3>1
  <2> QED BY <2>4, <2>5
<1>4. \A k \in 0..Len(s) : k \in S
  <2> HIDE DEF S
  <2> QED BY <1>1, <1>2, <1>3, Climb
<1> QED BY <1>4

(* They depend on nothing but what is summed. *)
LEMMA SumsAgree ==
  ASSUME NEW s \in Seq(Nat), NEW t \in Seq(Nat), NEW n \in Nat, n <= Len(s), n <= Len(t),
         \A k \in 1..n : s[k] = t[k]
  PROVE  UpTo(s)[n] = UpTo(t)[n]
<1> DEFINE S == {k \in Nat : UpTo(s)[k] = UpTo(t)[k]}
<1>1. Len(s) \in Nat /\ Len(t) \in Nat
  BY LenProperties
<1>2. 0 \in S
  BY SumsAreNumbers
<1>3. ASSUME NEW k \in 0..n, k \in S, k # n PROVE k + 1 \in S
  <2>1. k + 1 \in 1..n /\ k + 1 \in 1..Len(s) /\ k + 1 \in 1..Len(t) /\ k + 1 - 1 = k /\ k + 1 \in Nat
    BY <1>1, <1>3
  <2>2. UpTo(s)[k + 1] = UpTo(s)[k] + s[k + 1] /\ UpTo(t)[k + 1] = UpTo(t)[k] + t[k + 1]
    BY <2>1, SumsAreNumbers
  <2> QED BY <1>3, <2>1, <2>2
<1>4. \A k \in 0..n : k \in S
  <2> HIDE DEF S
  <2> QED BY <1>2, <1>3, Climb
<1> QED BY <1>4

(* What follows is added. *)
LEMMA SumsFollow ==
  ASSUME NEW s \in Seq(Nat), NEW t \in Seq(Nat), NEW d \in Nat, Len(s) = d + Len(t),
         \A k \in 1..Len(t) : s[d + k] = t[k]
  PROVE  SumSeq(s) = UpTo(s)[d] + SumSeq(t)
<1> DEFINE S == {k \in Nat : UpTo(s)[d + k] = UpTo(s)[d] + UpTo(t)[k]}
<1>1. Len(s) \in Nat /\ Len(t) \in Nat /\ d \in 0..Len(s)
  <2>1. Len(s) \in Nat /\ Len(t) \in Nat
    BY LenProperties
  <2> QED BY <2>1
<1>2. 0 \in S
  <2>1. UpTo(s)[d] \in Nat /\ UpTo(t)[0] = 0
    BY <1>1, SumsAreNumbers
  <2> QED BY <2>1
<1>3. ASSUME NEW k \in 0..Len(t), k \in S, k # Len(t) PROVE k + 1 \in S
  <2>1. /\ k + 1 \in 1..Len(t) /\ d + (k + 1) \in 1..Len(s) /\ k + 1 - 1 = k
        /\ d + (k + 1) - 1 = d + k /\ k + 1 \in Nat
    BY <1>1, <1>3
  <2>2. UpTo(t)[k + 1] = UpTo(t)[k] + t[k + 1]
    BY <2>1, SumsAreNumbers
  <2>5. UpTo(s)[d + (k + 1)] = UpTo(s)[d + k] + s[d + (k + 1)]
    <3>1. \A m \in 1..Len(s) : UpTo(s)[m] = UpTo(s)[m - 1] + s[m]
      BY SumsAreNumbers
    <3> DEFINE m == d + (k + 1)
    <3>2. m \in 1..Len(s) /\ m - 1 = d + k
      BY <2>1
    <3> HIDE DEF m
    <3>3. UpTo(s)[m] = UpTo(s)[d + k] + s[m]
      BY <3>1, <3>2
    <3> QED BY <3>3 DEF m
  <2>3. UpTo(s)[d] \in Nat /\ UpTo(t)[k] \in Nat /\ t[k + 1] \in Nat
    BY <1>1, <2>1, SumsAreNumbers, ElementOfSeq
  <2>4. s[d + (k + 1)] = t[k + 1]
    BY <2>1
  <2>6. UpTo(s)[d + k] = UpTo(s)[d] + UpTo(t)[k]
    BY <1>3
  <2>7. UpTo(s)[d + (k + 1)] = UpTo(s)[d] + UpTo(t)[k + 1]
    BY <2>2, <2>3, <2>4, <2>5, <2>6
  <2> QED BY <2>1, <2>7
<1>4. \A k \in 0..Len(t) : k \in S
  <2> HIDE DEF S
  <2> QED BY <1>1, <1>2, <1>3, Climb
<1>5. Len(t) \in S
  <2> HIDE DEF S
  <2>1. Len(t) \in 0..Len(t)
    BY <1>1
  <2> QED BY <1>4, <2>1
<1> QED BY <1>5 DEF SumSeq

-----------------------------------------------------------------------------
(* Texts *)

LEMMA WordIs ==
  ASSUME NEW t \in Seq(Word), NEW k \in 1..Len(t)
  PROVE  /\ t[k] \in Word /\ t[k].first \in Nat /\ t[k].last \in Nat
         /\ t[k].first <= t[k].last
<1>1. t[k] \in Word
  BY ElementOfSeq
<1> QED BY <1>1 DEF Word

(* A character of a text is in one of its words.                           *)
LEMMA InCharacters ==
  ASSUME NEW t \in Seq(Word), NEW x
  PROVE  x \in Characters(t) <=>
           x \in Nat /\ \E k \in 1..Len(t) : t[k].first <= x /\ x <= t[k].last
<1>1. DOMAIN t = 1..Len(t)
  BY LenProperties
<1>2. x \in Characters(t) <=> \E k \in 1..Len(t) : x \in t[k].first .. t[k].last
  BY <1>1 DEF Characters
<1>3. ASSUME NEW k \in 1..Len(t)
      PROVE  x \in t[k].first .. t[k].last <=> x \in Nat /\ t[k].first <= x /\ x <= t[k].last
  BY WordIs
<1> QED BY <1>2, <1>3

LEMMA EndIsCharacter ==
  ASSUME NEW t \in Text
  PROVE  End(t) \in Characters(t) /\ End(t) \in Nat
<1>1. Len(t) \in 1..Len(t)
  BY EmptySeq, LenProperties DEF Text
<1>2. t[Len(t)].first <= End(t) /\ End(t) \in Nat
  BY <1>1, WordIs DEF Text, End
<1> QED BY <1>1, <1>2, InCharacters DEF Text, End

LEMMA CharactersOfConcat ==
  ASSUME NEW s \in Seq(Word), NEW t \in Seq(Word)
  PROVE  /\ s \o t \in Seq(Word)
         /\ Characters(s \o t) = Characters(s) \union Characters(t)
<1>1. /\ s \o t \in Seq(Word) /\ Len(s \o t) = Len(s) + Len(t)
      /\ \A i \in 1..(Len(s) + Len(t)) : (s \o t)[i] = IF i <= Len(s) THEN s[i] ELSE t[i - Len(s)]
  BY ConcatProperties
<1>2. Len(s) \in Nat /\ Len(t) \in Nat
  BY LenProperties
<1>3. ASSUME NEW x \in Characters(s \o t) PROVE x \in Characters(s) \union Characters(t)
  <2>1. PICK i \in 1..(Len(s) + Len(t)) : (s \o t)[i].first <= x /\ x <= (s \o t)[i].last
    BY <1>1, <1>3, InCharacters
  <2>2. CASE i <= Len(s)
    <3>1. i \in 1..Len(s) /\ (s \o t)[i] = s[i]
      BY <1>1, <1>2, <2>2
    <3> QED BY <1>1, <1>3, <2>1, <3>1, InCharacters
  <2>3. CASE ~(i <= Len(s))
    <3>1. i - Len(s) \in 1..Len(t) /\ (s \o t)[i] = t[i - Len(s)]
      BY <1>1, <1>2, <2>3
    <3> QED BY <1>1, <1>3, <2>1, <3>1, InCharacters
  <2> QED BY <2>2, <2>3
<1>4. ASSUME NEW x \in Characters(s) PROVE x \in Characters(s \o t)
  <2>1. PICK i \in 1..Len(s) : s[i].first <= x /\ x <= s[i].last
    BY <1>4, InCharacters
  <2>2. i \in 1..Len(s \o t) /\ (s \o t)[i] = s[i]
    BY <1>1, <1>2
  <2> QED BY <1>1, <1>4, <2>1, <2>2, InCharacters
<1>5. ASSUME NEW x \in Characters(t) PROVE x \in Characters(s \o t)
  <2>1. PICK i \in 1..Len(t) : t[i].first <= x /\ x <= t[i].last
    BY <1>5, InCharacters
  <2>2. i + Len(s) \in 1..Len(s \o t) /\ (s \o t)[i + Len(s)] = t[i]
    BY <1>1, <1>2
  <2> QED BY <1>1, <1>5, <2>1, <2>2, InCharacters
<1> QED BY <1>1, <1>3, <1>4, <1>5

(* A text joined to another keeps its characters, and ends where the       *)
(* second ends.                                                            *)
LEMMA GlueJoins ==
  ASSUME NEW t \in Seq(Word), NEW level \in Levels, NEW u \in Text
  PROVE  /\ Glue(t, level, u) \in Text
         /\ Characters(Glue(t, level, u)) = Characters(t) \union Characters(u)
         /\ End(Glue(t, level, u)) = End(u)
         /\ Len(Glue(t, level, u)) = Len(t) + Len(u)
<1>1. Len(t) \in Nat /\ Len(u) \in Nat \ {0} /\ u \in Seq(Word)
  BY EmptySeq, LenProperties DEF Text
<1>2. CASE t = <<>>
  <2>1. Characters(t) = {} /\ Len(t) = 0
    BY <1>2, EmptySeq DEF Characters
  <2> QED BY <1>1, <1>2, <2>1 DEF Glue
<1>3. CASE t # <<>>
  <2> DEFINE n == Len(t)
  <2> DEFINE w == [t[n] EXCEPT !.sep = level]
  <2> DEFINE r == [t EXCEPT ![n] = w]
  <2>1. n \in 1..Len(t)
    BY <1>1, <1>3, EmptySeq
  <2>2. w \in Word /\ w.first = t[n].first /\ w.last = t[n].last
    <3>1. t[n] \in Word
      BY <2>1, WordIs
    <3> QED BY <3>1 DEF Word
  <2>3. r \in Seq(Word) /\ Len(r) = n /\ \A j \in 1..n : r[j] = IF j = n THEN w ELSE t[j]
    <3> HIDE DEF w
    <3> QED BY <2>1, <2>2, ExceptSeq
  <2>4. \A x : x \in Characters(r) <=> x \in Characters(t)
    <3> TAKE x
    <3>1. \A j \in 1..n : r[j].first = t[j].first /\ r[j].last = t[j].last
      <4> HIDE DEF w, r
      <4> QED BY <2>2, <2>3
    <3> HIDE DEF r, w
    <3> QED BY <2>3, <3>1, InCharacters
  <2>5. Glue(t, level, u) = r \o u
    BY <1>3 DEF Glue
  <2> HIDE DEF r, w
  <2>6. /\ r \o u \in Seq(Word) /\ Characters(r \o u) = Characters(t) \union Characters(u)
    BY <1>1, <2>3, <2>4, CharactersOfConcat
  <2>7. /\ Len(r \o u) = n + Len(u)
        /\ \A i \in 1..(n + Len(u)) : (r \o u)[i] = IF i <= n THEN r[i] ELSE u[i - n]
    <3>1. r \in Seq(Word) /\ u \in Seq(Word) /\ Len(r) = n
      BY <1>1, <2>3
    <3>2. /\ Len(r \o u) = Len(r) + Len(u)
          /\ \A i \in 1..(Len(r) + Len(u)) :
               (r \o u)[i] = IF i <= Len(r) THEN r[i] ELSE u[i - Len(r)]
      BY <3>1, ConcatProperties
    <3> QED BY <3>1, <3>2
  <2>8. r \o u # <<>> /\ (r \o u)[Len(r \o u)] = u[Len(u)]
    <3>1. Len(r \o u) \in 1..(n + Len(u)) /\ ~(Len(r \o u) <= n) /\ Len(r \o u) - n = Len(u)
      BY <1>1, <2>7
    <3> QED BY <1>1, <2>7, <3>1, EmptySeq
  <2> QED BY <2>5, <2>6, <2>7, <2>8 DEF End, Text
<1> QED BY <1>2, <1>3

(* A text cut in two keeps its characters.                                 *)
LEMMA CutKeeps ==
  ASSUME NEW t \in Seq(Word), NEW k \in 0..Len(t)
  PROVE  /\ SubSeq(t, 1, k) \in Seq(Word) /\ Len(SubSeq(t, 1, k)) = k
         /\ From(t, k) \in Seq(Word) /\ Len(From(t, k)) = Len(t) - k
         /\ \A i \in 1..k : SubSeq(t, 1, k)[i] = t[i]
         /\ \A i \in 1..(Len(t) - k) : From(t, k)[i] = t[k + i]
         /\ Characters(t) = Characters(SubSeq(t, 1, k)) \union Characters(From(t, k))
<1>1. Len(t) \in Nat /\ \A i \in 1..Len(t) : t[i] \in Word
  BY LenProperties, ElementOfSeq
<1>2. k \in Nat /\ k <= Len(t) /\ k + 1 \in Int
  BY <1>1
<1>3. /\ SubSeq(t, 1, k) \in Seq(Word)
      /\ Len(SubSeq(t, 1, k)) = IF 1 <= k THEN k - 1 + 1 ELSE 0
      /\ \A i \in 1..(k - 1 + 1) : SubSeq(t, 1, k)[i] = t[1 + i - 1]
  <2>1. \A i \in 1..k : t[i] \in Word
    BY <1>1, <1>2
  <2> QED BY <1>2, <2>1, SubSeqProperties
<1>4. /\ From(t, k) \in Seq(Word)
      /\ Len(From(t, k)) = IF k + 1 <= Len(t) THEN Len(t) - (k + 1) + 1 ELSE 0
      /\ \A i \in 1..(Len(t) - (k + 1) + 1) : From(t, k)[i] = t[(k + 1) + i - 1]
  <2>1. \A i \in (k + 1)..Len(t) : t[i] \in Word
    BY <1>1, <1>2
  <2> QED BY <1>1, <1>2, <2>1, SubSeqProperties DEF From
<1>5. Len(SubSeq(t, 1, k)) = k /\ \A i \in 1..k : SubSeq(t, 1, k)[i] = t[i]
  BY <1>2, <1>3
<1>6. Len(From(t, k)) = Len(t) - k /\ \A i \in 1..(Len(t) - k) : From(t, k)[i] = t[k + i]
  BY <1>1, <1>2, <1>4
<1>7. ASSUME NEW x \in Characters(t)
      PROVE  x \in Characters(SubSeq(t, 1, k)) \union Characters(From(t, k))
  <2>1. PICK i \in 1..Len(t) : t[i].first <= x /\ x <= t[i].last
    BY <1>7, InCharacters
  <2>2. x \in Nat
    BY <1>7, InCharacters
  <2>3. CASE i <= k
    <3>1. i \in 1..k /\ SubSeq(t, 1, k)[i] = t[i]
      BY <1>2, <1>5, <2>3
    <3> QED BY <1>3, <1>5, <2>1, <2>2, <3>1, InCharacters
  <2>4. CASE k < i
    <3>1. i - k \in 1..(Len(t) - k) /\ From(t, k)[i - k] = t[i]
      BY <1>1, <1>2, <1>6, <2>4
    <3> QED BY <1>4, <1>6, <2>1, <2>2, <3>1, InCharacters
  <2> QED BY <1>2, <2>3, <2>4
<1>8. ASSUME NEW x \in Characters(SubSeq(t, 1, k)) PROVE x \in Characters(t)
  <2>1. PICK i \in 1..k : SubSeq(t, 1, k)[i].first <= x /\ x <= SubSeq(t, 1, k)[i].last
    BY <1>3, <1>5, <1>8, InCharacters
  <2>2. i \in 1..Len(t) /\ x \in Nat
    <3>1. x \in Nat
      BY <1>3, <1>8, InCharacters
    <3> QED BY <1>1, <1>2, <3>1
  <2> QED BY <1>5, <2>1, <2>2, InCharacters
<1>9. ASSUME NEW x \in Characters(From(t, k)) PROVE x \in Characters(t)
  <2>1. PICK i \in 1..(Len(t) - k) : From(t, k)[i].first <= x /\ x <= From(t, k)[i].last
    BY <1>4, <1>6, <1>9, InCharacters
  <2>2. k + i \in 1..Len(t) /\ x \in Nat
    BY <1>1, <1>2, <1>4, <1>9, InCharacters
  <2> QED BY <1>6, <2>1, <2>2, InCharacters
<1> QED BY <1>3, <1>4, <1>5, <1>6, <1>7, <1>8, <1>9

(* What comes first in an ascending text ends before what comes after.     *)
LEMMA CutAscends ==
  ASSUME NEW t \in Seq(Word), Ascending(t), NEW k \in 0..Len(t)
  PROVE  /\ Ascending(SubSeq(t, 1, k)) /\ Ascending(From(t, k))
         /\ \A x \in Characters(SubSeq(t, 1, k)), y \in Characters(From(t, k)) : x < y
<1>1. Len(t) \in Nat /\ k \in Nat /\ k <= Len(t) /\ DOMAIN t = 1..Len(t)
  BY LenProperties
<1>2. /\ SubSeq(t, 1, k) \in Seq(Word) /\ Len(SubSeq(t, 1, k)) = k
      /\ From(t, k) \in Seq(Word) /\ Len(From(t, k)) = Len(t) - k
      /\ \A i \in 1..k : SubSeq(t, 1, k)[i] = t[i]
      /\ \A i \in 1..(Len(t) - k) : From(t, k)[i] = t[k + i]
  BY CutKeeps
<1>3. DOMAIN SubSeq(t, 1, k) = 1..k /\ DOMAIN From(t, k) = 1..(Len(t) - k)
  BY <1>2, LenProperties
<1>4. Ascending(SubSeq(t, 1, k))
  <2> SUFFICES ASSUME NEW i \in 1..k, NEW j \in 1..k, i < j
               PROVE  SubSeq(t, 1, k)[i].last < SubSeq(t, 1, k)[j].first
    BY <1>3 DEF Ascending
  <2>1. i \in 1..Len(t) /\ j \in 1..Len(t)
    BY <1>1
  <2> QED BY <1>1, <1>2, <2>1 DEF Ascending
<1>5. Ascending(From(t, k))
  <2> SUFFICES ASSUME NEW i \in 1..(Len(t) - k), NEW j \in 1..(Len(t) - k), i < j
               PROVE  From(t, k)[i].last < From(t, k)[j].first
    BY <1>3 DEF Ascending
  <2>1. k + i \in 1..Len(t) /\ k + j \in 1..Len(t) /\ k + i < k + j
    BY <1>1
  <2> QED BY <1>1, <1>2, <2>1 DEF Ascending
<1>6. ASSUME NEW x \in Characters(SubSeq(t, 1, k)), NEW y \in Characters(From(t, k))
      PROVE  x < y
  <2>1. PICK i \in 1..k : x <= t[i].last
    BY <1>2, InCharacters
  <2>2. PICK j \in 1..(Len(t) - k) : t[k + j].first <= y
    BY <1>2, InCharacters
  <2>3. i \in 1..Len(t) /\ k + j \in 1..Len(t) /\ i < k + j
    BY <1>1
  <2>4. t[i].last < t[k + j].first /\ t[i].last \in Nat /\ t[k + j].first \in Nat
    BY <1>1, <2>3, WordIs DEF Ascending
  <2>5. x \in Nat /\ y \in Nat
    BY <1>2, InCharacters
  <2> QED BY <2>1, <2>2, <2>4, <2>5
<1> QED BY <1>4, <1>5, <1>6

-----------------------------------------------------------------------------
(* Measures of texts *)

(* Of a word and the delimiter after it.                                   *)
Worth(t) == [k \in DOMAIN t |-> WordTokens(t[k]) + Gap(t, k, SepTokens)]

LEMMA WordIsWorth ==
  ASSUME NEW w \in Word
  PROVE  /\ WordTokens(w) \in Nat \ {0} /\ WordLength(w) \in Nat \ {0}
         /\ SepTokens[w.sep] \in Nat
<1>1. w.first \in Nat /\ w.last \in Nat /\ w.first <= w.last /\ w.sep \in Levels
  BY DEF Word
<1>2. WordLength(w) \in Nat \ {0}
  BY <1>1 DEF WordLength
<1>3. SepTokens[w.sep] \in Nat
  <2>1. w.sep \in 1..Len(SepTokens) /\ SepTokens \in Seq(Nat)
    BY <1>1, SettingsAssumption, LenProperties DEF Levels
  <2> QED BY <2>1, ElementOfSeq
<1> QED BY <1>2, <1>3 DEF WordTokens

LEMMA WorthIs ==
  ASSUME NEW t \in Seq(Word)
  PROVE  /\ Worth(t) \in Seq(Nat) /\ Len(Worth(t)) = Len(t) /\ Len(t) \in Nat
         /\ \A k \in 1..Len(t) :
              Worth(t)[k] = WordTokens(t[k]) + IF k = Len(t) THEN 0 ELSE SepTokens[t[k].sep]
         /\ Tokens(t) = SumSeq(Worth(t))
<1>1. DOMAIN t = 1..Len(t) /\ Len(t) \in Nat
  BY LenProperties
<1>2. \A k \in 1..Len(t) : t[k] \in Word
  BY WordIs
<1>3. \A k \in 1..Len(t) :
        Worth(t)[k] = WordTokens(t[k]) + IF k = Len(t) THEN 0 ELSE SepTokens[t[k].sep]
  BY <1>1 DEF Worth, Gap
<1>4. Worth(t) \in [1..Len(t) -> Nat]
  <2>1. ASSUME NEW k \in 1..Len(t) PROVE WordTokens(t[k]) + Gap(t, k, SepTokens) \in Nat
    <3>1. WordTokens(t[k]) \in Nat /\ SepTokens[t[k].sep] \in Nat
      BY <1>2, WordIsWorth
    <3> QED BY <3>1 DEF Gap
  <2> QED BY <1>1, <2>1 DEF Worth
<1>5. Worth(t) \in Seq(Nat)
  BY <1>1, <1>4, SeqDef
<1>6. Len(Worth(t)) = Len(t)
  <2>1. DOMAIN Worth(t) = 1..Len(t)
    BY <1>4
  <2> QED BY <1>1, <1>5, <2>1, LenProperties
<1> QED BY <1>1, <1>3, <1>5, <1>6 DEF Tokens, Worth

LEMMA TokensOfText ==
  /\ Tokens(<<>>) = 0
  /\ \A t \in Seq(Word) : Tokens(t) \in Nat
  /\ \A t \in Text : Tokens(t) >= 1
<1>1. ASSUME NEW t \in Seq(Word) PROVE Tokens(t) \in Nat
  BY WorthIs, SumsAreNumbers
<1>2. Tokens(<<>>) = 0
  <2>1. <<>> \in Seq(Word) /\ Len(<<>>) = 0
    BY EmptySeq
  <2>2. Worth(<<>>) \in Seq(Nat) /\ Len(Worth(<<>>)) = 0 /\ Tokens(<<>>) = SumSeq(Worth(<<>>))
    BY <2>1, WorthIs
  <2> QED BY <2>2, SumsAreNumbers DEF SumSeq
<1>3. ASSUME NEW t \in Text PROVE Tokens(t) >= 1
  <2> DEFINE n == Len(t)
  <2>1. t \in Seq(Word) /\ n \in Nat \ {0}
    BY EmptySeq DEF Text
  <2>2. /\ Worth(t) \in Seq(Nat) /\ Len(Worth(t)) = n /\ Tokens(t) = SumSeq(Worth(t))
        /\ Worth(t)[n] = WordTokens(t[n])
    <3>1. n \in 1..n /\ t[n] \in Word
      BY <2>1, WordIs
    <3>2. WordTokens(t[n]) \in Nat
      BY <3>1, WordIsWorth
    <3> QED BY <2>1, <3>1, <3>2, WorthIs
  <2>3. UpTo(Worth(t))[n] = UpTo(Worth(t))[n - 1] + Worth(t)[n] /\ UpTo(Worth(t))[n - 1] \in Nat
    <3>1. n \in 1..n /\ n - 1 \in 0..n
      BY <2>1
    <3> QED BY <2>2, <3>1, SumsAreNumbers
  <2>4. WordTokens(t[n]) \in Nat \ {0}
    BY <2>1, WordIs, WordIsWorth
  <2> QED BY <2>2, <2>3, <2>4 DEF SumSeq
<1> QED BY <1>1, <1>2, <1>3

(* Texts that are joined are worth both and the delimiter between them.    *)
LEMMA TokensOfGlue ==
  ASSUME NEW t \in Text, NEW level \in Levels, NEW u \in Text
  PROVE  Tokens(Glue(t, level, u)) = Tokens(t) + SepTokens[level] + Tokens(u)
<1> DEFINE n == Len(t)
<1> DEFINE m == Len(u)
<1> DEFINE g == Glue(t, level, u)
<1>1. t \in Seq(Word) /\ u \in Seq(Word) /\ t # <<>> /\ n \in Nat \ {0} /\ m \in Nat \ {0}
  BY EmptySeq DEF Text
<1>2. g \in Seq(Word) /\ Len(g) = n + m
  BY <1>1, GlueJoins DEF Text
<1>3. /\ \A i \in 1..(n - 1) : g[i] = t[i]
      /\ g[n] = [t[n] EXCEPT !.sep = level]
      /\ \A i \in 1..m : g[n + i] = u[i]
  <2> DEFINE w == [t[n] EXCEPT !.sep = level]
  <2> DEFINE r == [t EXCEPT ![n] = w]
  <2>1. n \in 1..n /\ t[n] \in Word
    BY <1>1, WordIs
  <2>2. w \in Word
    BY <2>1 DEF Word
  <2>3. r \in Seq(Word) /\ Len(r) = n /\ \A j \in 1..n : r[j] = IF j = n THEN w ELSE t[j]
    <3> HIDE DEF w
    <3> QED BY <1>1, <2>1, <2>2, ExceptSeq
  <2>4. g = r \o u
    BY <1>1 DEF Glue
  <2> HIDE DEF r, w, g, n, m
  <2>5. /\ \A i \in 1..(n + m) : g[i] = IF i <= n THEN r[i] ELSE u[i - n]
    BY <1>1, <2>3, <2>4, ConcatProperties DEF m
  <2>6. ASSUME NEW i \in 1..(n - 1) PROVE g[i] = t[i]
    <3>1. i \in 1..(n + m) /\ i <= n /\ i \in 1..n /\ i # n
      BY <1>1
    <3> QED BY <2>3, <2>5, <3>1
  <2>7. g[n] = w
    <3>1. n \in 1..(n + m) /\ n <= n
      BY <1>1
    <3> QED BY <2>1, <2>3, <2>5, <3>1
  <2>8. ASSUME NEW i \in 1..m PROVE g[n + i] = u[i]
    <3> DEFINE j == n + i
    <3>1. j \in 1..(n + m) /\ ~(j <= n) /\ j - n = i
      BY <1>1
    <3> HIDE DEF j
    <3>2. g[j] = u[i]
      BY <2>5, <3>1
    <3> QED BY <3>2 DEF j
  <2> QED BY <2>6, <2>7, <2>8 DEF w
<1> HIDE DEF g
<1>4. /\ Worth(g) \in Seq(Nat) /\ Len(Worth(g)) = n + m /\ Tokens(g) = SumSeq(Worth(g))
      /\ \A k \in 1..(n + m) :
           Worth(g)[k] = WordTokens(g[k]) + IF k = n + m THEN 0 ELSE SepTokens[g[k].sep]
  BY <1>2, WorthIs
<1>5. /\ Worth(t) \in Seq(Nat) /\ Len(Worth(t)) = n /\ Tokens(t) = SumSeq(Worth(t))
      /\ \A k \in 1..n :
           Worth(t)[k] = WordTokens(t[k]) + IF k = n THEN 0 ELSE SepTokens[t[k].sep]
  BY <1>1, WorthIs
<1>6. /\ Worth(u) \in Seq(Nat) /\ Len(Worth(u)) = m /\ Tokens(u) = SumSeq(Worth(u))
      /\ \A k \in 1..m :
           Worth(u)[k] = WordTokens(u[k]) + IF k = m THEN 0 ELSE SepTokens[u[k].sep]
  BY <1>1, WorthIs
<1> HIDE DEF n, m
<1>7. SumSeq(Worth(g)) = UpTo(Worth(g))[n] + SumSeq(Worth(u))
  <2>1. ASSUME NEW k \in 1..m PROVE Worth(g)[n + k] = Worth(u)[k]
    <3> DEFINE j == n + k
    <3>1. j \in 1..(n + m) /\ (j = n + m <=> k = m)
      BY <1>1
    <3>2. g[j] = u[k]
      BY <1>3
    <3> HIDE DEF j
    <3>3. Worth(g)[j] = Worth(u)[k]
      BY <1>4, <1>6, <3>1, <3>2
    <3> QED BY <3>3 DEF j
  <2> QED BY <1>1, <1>4, <1>6, <2>1, SumsFollow
<1>8. UpTo(Worth(g))[n - 1] = UpTo(Worth(t))[n - 1]
  <2>1. ASSUME NEW k \in 1..(n - 1) PROVE Worth(g)[k] = Worth(t)[k]
    <3>1. k \in 1..(n + m) /\ k \in 1..n /\ k # n + m /\ k # n
      BY <1>1
    <3> QED BY <1>3, <1>4, <1>5, <3>1
  <2>2. n - 1 \in Nat /\ n - 1 <= n + m /\ n - 1 <= n
    BY <1>1
  <2> QED BY <1>4, <1>5, <2>1, <2>2, SumsAgree
<1>9. /\ UpTo(Worth(g))[n] = UpTo(Worth(g))[n - 1] + Worth(g)[n]
      /\ UpTo(Worth(t))[n] = UpTo(Worth(t))[n - 1] + Worth(t)[n]
      /\ UpTo(Worth(t))[n - 1] \in Nat /\ SumSeq(Worth(u)) \in Nat
  <2>1. n \in 1..(n + m) /\ n \in 1..n /\ n - 1 \in 0..n
    BY <1>1
  <2> QED BY <1>4, <1>5, <1>6, <2>1, SumsAreNumbers
<1>10. /\ Worth(g)[n] = WordTokens(t[n]) + SepTokens[level] /\ Worth(t)[n] = WordTokens(t[n])
       /\ WordTokens(t[n]) \in Nat /\ SepTokens[level] \in Nat
  <2>1. n \in 1..(n + m) /\ n \in 1..n /\ n # n + m
    BY <1>1
  <2>2. t[n] \in Word
    BY <1>1, <2>1, WordIs DEF n
  <2>3. /\ g[n].sep = level /\ g[n] \in Word
        /\ g[n].first = t[n].first /\ g[n].last = t[n].last /\ g[n].marks = t[n].marks
    BY <1>3, <2>2 DEF Word
  <2>4. WordTokens(g[n]) = WordTokens(t[n])
    BY <2>3 DEF WordTokens, WordLength
  <2>5. WordTokens(t[n]) \in Nat /\ SepTokens[level] \in Nat
    BY <2>2, <2>3, WordIsWorth
  <2>6. Worth(g)[n] = WordTokens(g[n]) + SepTokens[g[n].sep]
    BY <1>4, <2>1
  <2>7. Worth(t)[n] = WordTokens(t[n])
    BY <1>5, <2>1, <2>5
  <2> QED BY <2>3, <2>4, <2>5, <2>6, <2>7
<1>11. SumSeq(Worth(t)) = UpTo(Worth(t))[n]
  BY <1>5 DEF SumSeq
<1> QED BY <1>4, <1>5, <1>6, <1>7, <1>8, <1>9, <1>10, <1>11 DEF g

(* A text of one word is worth the word.                                   *)
LEMMA MeasuresOfWord ==
  ASSUME NEW w \in Word
  PROVE  Tokens(<<w>>) = WordTokens(w) /\ Length(<<w>>) = WordLength(w)
<1> DEFINE t == <<w>>
<1>1. t \in Seq(Word) /\ Len(t) = 1 /\ t[1] = w
  OBVIOUS
<1> HIDE DEF t
<1>2. DOMAIN t = {1} /\ DOMAIN t = 1..1
  BY <1>1, LenProperties
<1>3. ASSUME NEW s \in Seq(Nat), Len(s) = 1 PROVE SumSeq(s) = s[1]
  <2>1. UpTo(s)[0] = 0 /\ UpTo(s)[1] = UpTo(s)[1 - 1] + s[1]
    <3>1. 1 \in 1..Len(s)
      BY <1>3
    <3> QED BY <3>1, SumsAreNumbers
  <2>2. s[1] \in Nat
    BY <1>3, ElementOfSeq
  <2> QED BY <1>3, <2>1, <2>2 DEF SumSeq
<1>4. WordTokens(w) \in Nat /\ WordLength(w) \in Nat
  BY WordIsWorth
<1>5. ASSUME NEW x \in Nat, NEW s, s = [k \in DOMAIN t |-> x] PROVE SumSeq(s) = x
  <2>1. s \in [1..1 -> Nat] /\ s[1] = x /\ DOMAIN s = 1..1
    BY <1>2, <1>5
  <2>2. s \in Seq(Nat)
    BY <2>1, SeqDef
  <2>3. Len(s) = 1
    BY <2>1, <2>2, LenProperties
  <2> QED BY <1>3, <2>1, <2>2, <2>3
<1>6. Tokens(t) = WordTokens(w)
  <2>1. [k \in DOMAIN t |-> WordTokens(t[k]) + Gap(t, k, SepTokens)] = [k \in DOMAIN t |-> WordTokens(w)]
    BY <1>1, <1>2, <1>4 DEF Gap
  <2> QED BY <1>4, <1>5, <2>1 DEF Tokens
<1>7. Length(t) = WordLength(w)
  <2>1. [k \in DOMAIN t |-> WordLength(t[k]) + Gap(t, k, SepLength)] = [k \in DOMAIN t |-> WordLength(w)]
    BY <1>1, <1>2, <1>4 DEF Gap
  <2> QED BY <1>4, <1>5, <2>1 DEF Length
<1> QED BY <1>6, <1>7 DEF t

-----------------------------------------------------------------------------
(* Sequences of texts *)

LEMMA InCovered ==
  ASSUME NEW ts \in Seq(Text), NEW x
  PROVE  x \in Covered(ts) <=> \E i \in 1..Len(ts) : x \in Characters(ts[i])
BY LenProperties DEF Covered

LEMMA EndIsCovered ==
  ASSUME NEW ts \in Seq(Text), NEW i \in 1..Len(ts)
  PROVE  ts[i] \in Text /\ End(ts[i]) \in Nat /\ End(ts[i]) \in Covered(ts)
<1>1. ts[i] \in Text
  BY ElementOfSeq
<1> QED BY <1>1, EndIsCharacter, InCovered

LEMMA NoTexts ==
  /\ <<>> \in Seq(Text) /\ <<>> \in Seq(Word) /\ Len(<<>>) = 0 /\ DOMAIN <<>> = {}
  /\ Covered(<<>>) = {} /\ Characters(<<>>) = {}
  /\ Rising(<<>>) /\ Ascending(<<>>)
<1>1. <<>> \in Seq(Text) /\ <<>> \in Seq(Word) /\ Len(<<>>) = 0
  BY EmptySeq
<1>2. DOMAIN <<>> = {}
  BY <1>1, LenProperties
<1> QED BY <1>1, <1>2 DEF Covered, Characters, Rising, Ascending

LEMMA CoveredByConcat ==
  ASSUME NEW ss \in Seq(Text), NEW ts \in Seq(Text)
  PROVE  ss \o ts \in Seq(Text) /\ Covered(ss \o ts) = Covered(ss) \union Covered(ts)
<1>1. /\ ss \o ts \in Seq(Text) /\ Len(ss \o ts) = Len(ss) + Len(ts)
      /\ \A i \in 1..(Len(ss) + Len(ts)) :
           (ss \o ts)[i] = IF i <= Len(ss) THEN ss[i] ELSE ts[i - Len(ss)]
  BY ConcatProperties
<1>2. Len(ss) \in Nat /\ Len(ts) \in Nat
  BY LenProperties
<1>3. ASSUME NEW x \in Covered(ss \o ts) PROVE x \in Covered(ss) \union Covered(ts)
  <2>1. PICK i \in 1..(Len(ss) + Len(ts)) : x \in Characters((ss \o ts)[i])
    BY <1>1, <1>3, InCovered
  <2>2. CASE i <= Len(ss)
    <3>1. i \in 1..Len(ss) /\ (ss \o ts)[i] = ss[i]
      BY <1>1, <1>2, <2>2
    <3> QED BY <2>1, <3>1, InCovered
  <2>3. CASE ~(i <= Len(ss))
    <3>1. i - Len(ss) \in 1..Len(ts) /\ (ss \o ts)[i] = ts[i - Len(ss)]
      BY <1>1, <1>2, <2>3
    <3> QED BY <2>1, <3>1, InCovered
  <2> QED BY <2>2, <2>3
<1>4. ASSUME NEW x \in Covered(ss) PROVE x \in Covered(ss \o ts)
  <2>1. PICK i \in 1..Len(ss) : x \in Characters(ss[i])
    BY <1>4, InCovered
  <2>2. i \in 1..Len(ss \o ts) /\ (ss \o ts)[i] = ss[i]
    BY <1>1, <1>2
  <2> QED BY <1>1, <2>1, <2>2, InCovered
<1>5. ASSUME NEW x \in Covered(ts) PROVE x \in Covered(ss \o ts)
  <2>1. PICK i \in 1..Len(ts) : x \in Characters(ts[i])
    BY <1>5, InCovered
  <2>2. i + Len(ss) \in 1..Len(ss \o ts) /\ (ss \o ts)[i + Len(ss)] = ts[i]
    BY <1>1, <1>2
  <2> QED BY <1>1, <2>1, <2>2, InCovered
<1> QED BY <1>1, <1>3, <1>4, <1>5

(* Two rising sequences, the second after the first, make one.             *)
LEMMA RisingConcat ==
  ASSUME NEW ss \in Seq(Text), NEW ts \in Seq(Text), Rising(ss), Rising(ts),
         \A i \in DOMAIN ss, j \in DOMAIN ts : End(ss[i]) < End(ts[j])
  PROVE  Rising(ss \o ts)
<1>1. /\ ss \o ts \in Seq(Text) /\ Len(ss \o ts) = Len(ss) + Len(ts)
      /\ \A i \in 1..(Len(ss) + Len(ts)) :
           (ss \o ts)[i] = IF i <= Len(ss) THEN ss[i] ELSE ts[i - Len(ss)]
  BY ConcatProperties
<1>2. /\ Len(ss) \in Nat /\ Len(ts) \in Nat /\ DOMAIN ss = 1..Len(ss) /\ DOMAIN ts = 1..Len(ts)
      /\ DOMAIN (ss \o ts) = 1..(Len(ss) + Len(ts))
  BY <1>1, LenProperties
<1> SUFFICES ASSUME NEW i \in 1..(Len(ss) + Len(ts)), NEW j \in 1..(Len(ss) + Len(ts)), i < j
             PROVE  End((ss \o ts)[i]) < End((ss \o ts)[j])
  BY <1>2 DEF Rising
<1>3. CASE j <= Len(ss)
  <2>1. i \in 1..Len(ss) /\ j \in 1..Len(ss)
    BY <1>2, <1>3
  <2>2. (ss \o ts)[i] = ss[i] /\ (ss \o ts)[j] = ss[j]
    BY <1>1, <2>1, <1>2
  <2> QED BY <1>2, <2>1, <2>2 DEF Rising
<1>4. CASE ~(j <= Len(ss)) /\ i <= Len(ss)
  <2>1. i \in 1..Len(ss) /\ j - Len(ss) \in 1..Len(ts)
    BY <1>2, <1>4
  <2>2. (ss \o ts)[i] = ss[i] /\ (ss \o ts)[j] = ts[j - Len(ss)]
    BY <1>1, <1>4
  <2> QED BY <1>2, <2>1, <2>2
<1>5. CASE ~(i <= Len(ss))
  <2>1. i - Len(ss) \in 1..Len(ts) /\ j - Len(ss) \in 1..Len(ts) /\ i - Len(ss) < j - Len(ss)
    BY <1>2, <1>5
  <2>2. (ss \o ts)[i] = ts[i - Len(ss)] /\ (ss \o ts)[j] = ts[j - Len(ss)]
    BY <1>1, <1>2, <1>5
  <2> QED BY <1>2, <2>1, <2>2 DEF Rising
<1> QED BY <1>3, <1>4, <1>5

LEMMA OneText ==
  ASSUME NEW t \in Text
  PROVE  /\ <<t>> \in Seq(Text) /\ Len(<<t>>) = 1 /\ <<t>>[1] = t /\ DOMAIN <<t>> = {1}
         /\ Covered(<<t>>) = Characters(t) /\ Rising(<<t>>)
<1>1. <<t>> \in Seq(Text) /\ Len(<<t>>) = 1 /\ <<t>>[1] = t
  OBVIOUS
<1>2. DOMAIN <<t>> = {1}
  BY <1>1, LenProperties
<1> QED BY <1>1, <1>2 DEF Covered, Rising

LEMMA TextAppended ==
  ASSUME NEW ts \in Seq(Text), NEW t \in Text
  PROVE  /\ Append(ts, t) \in Seq(Text) /\ Len(Append(ts, t)) = Len(ts) + 1
         /\ \A i \in 1..Len(ts) : Append(ts, t)[i] = ts[i]
         /\ Append(ts, t)[Len(ts) + 1] = t
         /\ DOMAIN Append(ts, t) = DOMAIN ts \union {Len(ts) + 1}
         /\ Covered(Append(ts, t)) = Covered(ts) \union Characters(t)
         /\ Rising(ts) /\ (\A i \in DOMAIN ts : End(ts[i]) < End(t)) => Rising(Append(ts, t))
<1>1. /\ Append(ts, t) \in Seq(Text) /\ Len(Append(ts, t)) = Len(ts) + 1
      /\ \A i \in 1..Len(ts) : Append(ts, t)[i] = ts[i]
      /\ Append(ts, t)[Len(ts) + 1] = t
  BY AppendProperties
<1>2. DOMAIN Append(ts, t) = 1..(Len(ts) + 1) /\ DOMAIN ts = 1..Len(ts) /\ Len(ts) \in Nat
  BY <1>1, LenProperties
<1>3. Append(ts, t) = ts \o <<t>>
  BY AppendIsConcat
<1>4. Covered(Append(ts, t)) = Covered(ts) \union Characters(t)
  BY <1>3, OneText, CoveredByConcat
<1>5. Rising(ts) /\ (\A i \in DOMAIN ts : End(ts[i]) < End(t)) => Rising(Append(ts, t))
  BY <1>3, OneText, RisingConcat
<1>6. DOMAIN Append(ts, t) = DOMAIN ts \union {Len(ts) + 1}
  BY <1>2
<1> QED BY <1>1, <1>4, <1>5, <1>6

LEMMA FirstTaken ==
  ASSUME NEW ts \in Seq(Text), ts # <<>>
  PROVE  /\ Head(ts) \in Text /\ Tail(ts) \in Seq(Text)
         /\ Head(ts) = ts[1] /\ 1 \in DOMAIN ts
         /\ \A i \in DOMAIN Tail(ts) : i + 1 \in DOMAIN ts /\ 1 < i + 1 /\ Tail(ts)[i] = ts[i + 1]
         /\ Covered(ts) = Characters(Head(ts)) \union Covered(Tail(ts))
         /\ Rising(ts) => Rising(Tail(ts))
<1>1. /\ Head(ts) \in Text /\ Tail(ts) \in Seq(Text) /\ Len(Tail(ts)) = Len(ts) - 1
      /\ \A i \in 1..Len(Tail(ts)) : Tail(ts)[i] = ts[i + 1]
  BY HeadTailProperties
<1>2. /\ Len(ts) \in Nat \ {0} /\ DOMAIN ts = 1..Len(ts) /\ DOMAIN Tail(ts) = 1..(Len(ts) - 1)
  BY <1>1, LenProperties, EmptySeq
<1>3. Head(ts) = ts[1]
  OBVIOUS
<1>4. 1 \in DOMAIN ts /\ \A i \in DOMAIN Tail(ts) : i + 1 \in DOMAIN ts /\ 1 < i + 1 /\ Tail(ts)[i] = ts[i + 1]
  BY <1>1, <1>2
<1>5. ASSUME NEW x PROVE x \in Covered(ts) <=> x \in Characters(ts[1]) \/ x \in Covered(Tail(ts))
  <2>1. x \in Covered(ts) <=> \E i \in 1..Len(ts) : x \in Characters(ts[i])
    BY InCovered
  <2>2. x \in Covered(Tail(ts)) <=> \E i \in 1..(Len(ts) - 1) : x \in Characters(ts[i + 1])
    BY <1>1, InCovered
  <2>3. \A i \in 1..Len(ts) : i = 1 \/ (i - 1 \in 1..(Len(ts) - 1) /\ (i - 1) + 1 = i)
    BY <1>2
  <2> QED BY <1>2, <1>4, <2>1, <2>2, <2>3
<1>6. Rising(ts) => Rising(Tail(ts))
  <2> SUFFICES ASSUME Rising(ts), NEW i \in DOMAIN Tail(ts), NEW j \in DOMAIN Tail(ts), i < j
               PROVE  End(Tail(ts)[i]) < End(Tail(ts)[j])
    BY DEF Rising
  <2>1. i + 1 < j + 1
    BY <1>2
  <2> QED BY <1>4, <2>1 DEF Rising
<1> QED BY <1>1, <1>3, <1>4, <1>5, <1>6

-----------------------------------------------------------------------------
(* Calls *)

LEMMA CallHas ==
  ASSUME NEW c \in CallRecord
  PROVE  /\ c.level \in Levels \union {0} /\ c.rest \in Seq(Word) /\ c.units \in Seq(Text)
         /\ c.window \in Seq(Word) /\ c.cuts \subseteq Nat /\ c.done \in Seq(Text)
BY DEF CallRecord

LEMMA ContentIsNumbers ==
  ASSUME NEW c \in CallRecord
  PROVE  Content(c) \subseteq Nat
<1>1. ASSUME NEW t \in Seq(Word) PROVE Characters(t) \subseteq Nat
  BY InCharacters
<1>2. ASSUME NEW ts \in Seq(Text) PROVE Covered(ts) \subseteq Nat
  <2>1. \A i \in 1..Len(ts) : ts[i] \in Seq(Word)
    BY ElementOfSeq DEF Text
  <2> QED BY <1>1, <2>1, InCovered
<1> QED BY <1>1, <1>2, CallHas DEF Content

(* The innermost call is one of those at work.                             *)
LEMMA InnermostCall ==
  ASSUME SplitterInv, calls # <<>>
  PROVE  /\ Len(calls) \in Nat \ {0} /\ Len(calls) \in DOMAIN calls
         /\ DOMAIN calls = 1..Len(calls)
         /\ \A i \in DOMAIN calls : calls[i] \in CallRecord
         /\ Call \in CallRecord /\ CallOrder(Call) /\ CallPhase(Call)
<1>1. calls \in Seq(CallRecord)
  BY DEF SplitterInv, SplitterTypeOK
<1>2. Len(calls) \in Nat \ {0} /\ DOMAIN calls = 1..Len(calls)
  BY <1>1, EmptySeq, LenProperties
<1>3. \A i \in DOMAIN calls : calls[i] \in CallRecord
  BY <1>1, <1>2, ElementOfSeq
<1>4. Len(calls) \in DOMAIN calls
  BY <1>2
<1> QED BY <1>2, <1>3, <1>4 DEF SplitterInv, Call

LEMMA NewCallIs ==
  ASSUME NEW t \in Text, Ascending(t)
  PROVE  /\ NewCall(t) \in CallRecord /\ CallOrder(NewCall(t)) /\ CallPhase(NewCall(t))
         /\ Content(NewCall(t)) = Characters(t)
<1> DEFINE c == NewCall(t)
<1>1. t \in Seq(Word) /\ Len(t) \in Nat \ {0}
  BY EmptySeq DEF Text
<1>2. Len(t) - 1 \in Nat /\ (Len(t) # 1 => 1 \in 1..(Len(t) - 1))
  <2>1. \A n \in Nat \ {0} : n - 1 \in Nat /\ (n # 1 => 1 \in 1..(n - 1))
    OBVIOUS
  <2> QED BY <1>1, <2>1
<1>3. ASSUME Len(t) # 1 PROVE ChosenDelimiter(t) \in Levels
  <2> DEFINE S == {t[k].sep : k \in 1..(Len(t) - 1)}
  <2>1. 1 \in 1..(Len(t) - 1)
    BY <1>2, <1>3
  <2>2. S # {}
    BY <2>1
  <2>3. S \subseteq Levels
    <3>1. \A k \in 1..(Len(t) - 1) : t[k] \in Word
      BY <1>1, WordIs
    <3> QED BY <3>1 DEF Word
  <2>4. S \subseteq Nat
    BY <2>3, SettingsAreNumbers
  <2>5. Least(S) \in S
    BY <2>2, <2>4, LeastExists
  <2> QED BY <1>3, <2>3, <2>5 DEF ChosenDelimiter
<1>4. /\ c.level = ChosenDelimiter(t) /\ c.rest = t /\ c.units = <<>> /\ c.window = <<>>
      /\ c.cuts = {} /\ c.done = <<>>
  BY DEF NewCall
<1>5. ChosenDelimiter(t) \in Levels \union {0} /\ (ChosenDelimiter(t) = 0 => Len(t) <= 1)
  <2>1. CASE Len(t) = 1
    BY <2>1 DEF ChosenDelimiter
  <2>2. CASE Len(t) # 1
    BY <1>3, <2>2, SettingsAreNumbers
  <2> QED BY <2>1, <2>2
<1>6. c \in CallRecord
  BY <1>1, <1>5, NoTexts DEF NewCall, CallRecord
<1> HIDE DEF c
<1>7. CallOrder(c)
  BY <1>4, NoTexts DEF CallOrder
<1>8. CallPhase(c)
  BY <1>4, <1>5, NoTexts DEF CallPhase
<1>9. Content(c) = Characters(t)
  BY <1>4, NoTexts DEF Content
<1> QED BY <1>6, <1>7, <1>8, <1>9 DEF c

LEMMA Becoming ==
  ASSUME SplitterInv, calls # <<>>, NEW c \in CallRecord
  PROVE  /\ Become(c) \in Seq(CallRecord) /\ Len(Become(c)) = Len(calls)
         /\ DOMAIN Become(c) = DOMAIN calls
         /\ \A i \in DOMAIN calls : Become(c)[i] = IF i = Len(calls) THEN c ELSE calls[i]
<1>1. calls \in Seq(CallRecord) /\ Len(calls) \in 1..Len(calls) /\ DOMAIN calls = 1..Len(calls)
  BY InnermostCall DEF SplitterInv, SplitterTypeOK
<1>2. /\ Become(c) \in Seq(CallRecord) /\ Len(Become(c)) = Len(calls)
      /\ \A i \in 1..Len(calls) : Become(c)[i] = IF i = Len(calls) THEN c ELSE calls[i]
  BY <1>1, ExceptSeq DEF Become
<1> QED BY <1>1, <1>2, LenProperties

(* The innermost call goes on with the text it has.                        *)
LEMMA CallGoesOn ==
  ASSUME SplitterInv, Working, NEW c \in CallRecord, CallOrder(c), CallPhase(c),
         Content(c) = Content(Call), calls' = Become(c), UNCHANGED chunks
  PROVE  SplitterInv'
<1> DEFINE n == Len(calls)
<1>1. calls # <<>> /\ UNCHANGED <<overlap, text, chunks>>
  BY DEF Working
<1>2. /\ n \in Nat \ {0} /\ DOMAIN calls = 1..n /\ n \in DOMAIN calls
      /\ Call = calls[n]
  BY <1>1, InnermostCall DEF Call
<1>3. /\ calls' \in Seq(CallRecord) /\ DOMAIN calls' = DOMAIN calls /\ Len(calls') = n
      /\ \A i \in DOMAIN calls : calls'[i] = IF i = n THEN c ELSE calls[i]
  BY <1>1, Becoming
<1> HIDE DEF n
<1>4. calls' # <<>>
  BY <1>2, <1>3, EmptySeq
<1>5. SplitterTypeOK'
  BY <1>1, <1>3 DEF SplitterInv, SplitterTypeOK
<1>6. \A i \in DOMAIN calls' : CallOrder(calls'[i]) /\ CallPhase(calls'[i])
  BY <1>3 DEF SplitterInv
<1>7. \A i \in DOMAIN calls : Content(calls'[i]) = Content(calls[i])
  BY <1>2, <1>3
<1>8. Nested'
  <2> SUFFICES ASSUME NEW i \in DOMAIN calls, NEW j \in DOMAIN calls, i < j
               PROVE  /\ Waiting(calls'[i])
                      /\ \A x \in Content(calls'[j]) : Between(calls'[i], x)
    BY <1>3 DEF Nested
  <2>1. calls'[i] = calls[i]
    BY <1>2, <1>3
  <2> QED BY <1>7, <2>1 DEF SplitterInv, Nested
<1>9. InCalls' = InCalls
  BY <1>3, <1>7 DEF InCalls
<1>10. NothingLost' /\ Rising(chunks)'
  BY <1>1 DEF SplitterInv, NothingLost
<1> QED BY <1>1, <1>4, <1>5, <1>6, <1>8, <1>9, <1>10 DEF SplitterInv

(* It calls with a piece of its text, and waits.                           *)
LEMMA CallIsMade ==
  ASSUME SplitterInv, Working, NEW c \in CallRecord, CallOrder(c), CallPhase(c), Waiting(c),
         NEW t \in Text, Ascending(t), \A x \in Characters(t) : Between(c, x),
         Content(c) \union Characters(t) = Content(Call),
         calls' = Append(Become(c), NewCall(t)), UNCHANGED chunks
  PROVE  SplitterInv'
<1> DEFINE n == Len(calls)
<1> DEFINE new == NewCall(t)
<1>1. calls # <<>> /\ UNCHANGED <<overlap, text, chunks>>
  BY DEF Working
<1>2. /\ n \in Nat \ {0} /\ DOMAIN calls = 1..n /\ n \in DOMAIN calls
      /\ Call = calls[n]
  BY <1>1, InnermostCall DEF Call
<1>3. /\ Become(c) \in Seq(CallRecord) /\ DOMAIN Become(c) = DOMAIN calls /\ Len(Become(c)) = n
      /\ \A i \in DOMAIN calls : Become(c)[i] = IF i = n THEN c ELSE calls[i]
  BY <1>1, Becoming
<1>4. new \in CallRecord /\ CallOrder(new) /\ CallPhase(new) /\ Content(new) = Characters(t)
  BY NewCallIs
<1> HIDE DEF new
<1>5. calls' = Append(Become(c), new)
  BY DEF new
<1>6. /\ calls' \in Seq(CallRecord) /\ Len(calls') = n + 1 /\ calls' # <<>>
      /\ \A i \in 1..n : calls'[i] = Become(c)[i]
      /\ calls'[n + 1] = new
  BY <1>3, <1>4, <1>5, AppendProperties
<1> HIDE DEF n
<1>7. /\ DOMAIN calls' = 1..(n + 1)
      /\ \A i \in 1..(n - 1) : calls'[i] = calls[i]
      /\ calls'[n] = c
  BY <1>2, <1>3, <1>6, LenProperties
<1>8. SplitterTypeOK'
  BY <1>1, <1>6 DEF SplitterInv, SplitterTypeOK
<1>9. \A i \in DOMAIN calls' : i \in 1..(n - 1) \/ i = n \/ i = n + 1
  BY <1>2, <1>7
<1>10. \A i \in 1..(n - 1) : i \in DOMAIN calls /\ i < n
  BY <1>2
<1>11. \A i \in DOMAIN calls' : CallOrder(calls'[i]) /\ CallPhase(calls'[i])
  BY <1>4, <1>6, <1>7, <1>9, <1>10 DEF SplitterInv
<1>12. Nested'
  <2> SUFFICES ASSUME NEW i \in DOMAIN calls', NEW j \in DOMAIN calls', i < j
               PROVE  /\ Waiting(calls'[i])
                      /\ \A x \in Content(calls'[j]) : Between(calls'[i], x)
    BY DEF Nested
  <2>1. CASE i \in 1..(n - 1)
    <3>1. calls'[i] = calls[i] /\ i \in DOMAIN calls /\ i < n
      BY <1>7, <1>10, <2>1
    <3>2. Waiting(calls[i]) /\ \A x \in Content(Call) : Between(calls[i], x)
      BY <1>2, <3>1 DEF SplitterInv, Nested
    <3>3. CASE j \in 1..(n - 1)
      BY <1>7, <1>10, <3>1, <3>3 DEF SplitterInv, Nested
    <3>4. CASE j = n
      BY <1>7, <3>1, <3>2, <3>4
    <3>5. CASE j = n + 1
      BY <1>4, <1>6, <3>1, <3>2, <3>5
    <3> QED BY <1>9, <3>3, <3>4, <3>5
  <2>2. CASE i = n
    <3>1. j = n + 1
      BY <1>2, <1>7, <2>2
    <3> QED BY <1>4, <1>6, <1>7, <2>2, <3>1
  <2>3. CASE i = n + 1
    BY <1>2, <1>7, <2>3
  <2> QED BY <1>9, <2>1, <2>2, <2>3
<1>13. InCalls' = InCalls
  <2>1. ASSUME NEW x \in InCalls' PROVE x \in InCalls
    <3>1. PICK i \in DOMAIN calls' : x \in Content(calls'[i])
      BY <2>1 DEF InCalls
    <3>2. CASE i \in 1..(n - 1)
      BY <1>7, <1>10, <3>1, <3>2 DEF InCalls
    <3>3. CASE i = n \/ i = n + 1
      <4>1. x \in Content(calls[n])
        BY <1>2, <1>4, <1>6, <1>7, <3>1, <3>3
      <4> QED BY <1>2, <4>1 DEF InCalls
    <3> QED BY <1>9, <3>2, <3>3
  <2>2. ASSUME NEW x \in InCalls PROVE x \in InCalls'
    <3>1. PICK i \in DOMAIN calls : x \in Content(calls[i])
      BY <2>2 DEF InCalls
    <3>2. n \in DOMAIN calls' /\ n + 1 \in DOMAIN calls' /\ i \in DOMAIN calls'
      BY <1>2, <1>7
    <3>3. CASE i = n
      <4>1. x \in Content(calls'[n]) \/ x \in Content(calls'[n + 1])
        BY <1>2, <1>4, <1>6, <1>7, <3>1, <3>3
      <4> QED BY <3>2, <4>1 DEF InCalls
    <3>4. CASE i # n
      <4>1. calls'[i] = calls[i]
        BY <1>2, <1>7, <3>4
      <4> QED BY <3>1, <3>2, <4>1 DEF InCalls
    <3> QED BY <3>3, <3>4
  <2> QED BY <2>1, <2>2
<1>14. NothingLost' /\ Rising(chunks)'
  BY <1>1 DEF SplitterInv, NothingLost
<1> QED BY <1>1, <1>6, <1>8, <1>11, <1>12, <1>13, <1>14 DEF SplitterInv

LEMMA CutPieceKeeps ==
  ASSUME SplitterInv, CutPiece PROVE SplitterInv'
<1> DEFINE t == Call.rest
<1> DEFINE S == {i \in DOMAIN t : t[i].sep = Call.level \/ i = Len(t)}
<1> DEFINE k == Least(S)
<1> DEFINE piece == SubSeq(t, 1, k)
<1> DEFINE rest == From(t, k)
<1>1. /\ Working /\ calls # <<>> /\ Call.level # 0 /\ t # <<>> /\ UNCHANGED chunks
      /\ calls' = IF Fits(piece)
                  THEN Become([[Call EXCEPT !.rest = SubSeq(t, k + 1, Len(t))]
                                 EXCEPT !.units = Append(@, piece)])
                  ELSE Append(Become([Call EXCEPT !.rest = SubSeq(t, k + 1, Len(t))]), NewCall(piece))
  BY DEF CutPiece, Working
<1>2. Call \in CallRecord /\ CallOrder(Call) /\ CallPhase(Call)
  BY <1>1, InnermostCall
<1>3. t \in Seq(Word) /\ Ascending(t)
  BY <1>2, CallHas DEF CallOrder
<1>4. Len(t) \in Nat \ {0} /\ DOMAIN t = 1..Len(t)
  BY <1>1, <1>3, EmptySeq, LenProperties
<1>5. k \in 1..Len(t)
  <2>1. Len(t) \in S /\ S \subseteq 1..Len(t) /\ S \subseteq Nat
    BY <1>4
  <2> HIDE DEF S
  <2> QED BY <2>1, LeastExists
<1>6. Call.window = <<>> /\ Call.done = <<>>
  BY <1>1, <1>2 DEF CallPhase
<1> HIDE DEF k, S
<1>7. /\ piece \in Seq(Word) /\ Len(piece) = k /\ rest \in Seq(Word)
      /\ Characters(t) = Characters(piece) \union Characters(rest)
  BY <1>3, <1>4, <1>5, CutKeeps
<1>8. piece \in Text
  BY <1>5, <1>7, EmptySeq DEF Text
<1>9. /\ Ascending(piece) /\ Ascending(rest)
      /\ \A x \in Characters(piece), y \in Characters(rest) : x < y
  BY <1>3, <1>4, <1>5, CutAscends
<1>10. /\ Call.units \in Seq(Text) /\ Rising(Call.units)
       /\ \A j \in DOMAIN Call.units : \A x \in Characters(t) : End(Call.units[j]) < x
  BY <1>1, <1>2, CallHas DEF CallOrder
<1>11. End(piece) \in Characters(piece)
  BY <1>8, EndIsCharacter
<1>12. SubSeq(t, k + 1, Len(t)) = rest
  BY DEF From
<1>13. /\ DOMAIN Call.units = 1..Len(Call.units) /\ Len(Call.units) \in Nat
  BY <1>10, LenProperties
<1>14. Call.cuts = {}
  <2>1. Len(Call.window) = 0
    BY <1>6, NoTexts
  <2> QED BY <1>2, <2>1 DEF CallPhase
<1>15. CASE Fits(piece)
  <2> DEFINE us == Append(Call.units, piece)
  <2> DEFINE c == [[Call EXCEPT !.rest = rest] EXCEPT !.units = Append(@, piece)]
  <2>1. calls' = Become(c)
    BY <1>1, <1>12, <1>15
  <2>2. /\ us \in Seq(Text) /\ Covered(us) = Covered(Call.units) \union Characters(piece)
        /\ \A i \in 1..Len(Call.units) : us[i] = Call.units[i]
        /\ us[Len(Call.units) + 1] = piece
        /\ DOMAIN us = DOMAIN Call.units \union {Len(Call.units) + 1}
    BY <1>8, <1>10, TextAppended
  <2>3. Rising(us)
    <3>1. \A i \in DOMAIN Call.units : End(Call.units[i]) < End(piece)
      BY <1>7, <1>10, <1>11
    <3> QED BY <1>8, <1>10, <3>1, TextAppended
  <2>4. \A j \in DOMAIN us : \A x \in Characters(rest) : End(us[j]) < x
    <3> SUFFICES ASSUME NEW j \in DOMAIN us, NEW x \in Characters(rest) PROVE End(us[j]) < x
      OBVIOUS
    <3>1. CASE j \in DOMAIN Call.units
      BY <1>7, <1>10, <1>13, <2>2, <3>1
    <3>2. CASE j = Len(Call.units) + 1
      BY <1>9, <1>11, <2>2, <3>2
    <3> QED BY <2>2, <3>1, <3>2
  <2>5. /\ c \in CallRecord /\ c.level = Call.level /\ c.rest = rest /\ c.units = us
        /\ c.window = <<>> /\ c.cuts = {} /\ c.done = <<>>
    <3> HIDE DEF rest, piece
    <3> QED BY <1>2, <1>6, <1>7, <1>14, <2>2 DEF CallRecord
  <2> HIDE DEF c, us, rest, piece
  <2>6. CallOrder(c)
    BY <1>9, <2>3, <2>4, <2>5, NoTexts DEF CallOrder
  <2>7. CallPhase(c)
    BY <1>1, <2>5, NoTexts DEF CallPhase
  <2>8. Content(c) = Content(Call)
    BY <1>6, <1>7, <2>2, <2>5 DEF Content
  <2> QED BY <1>1, <2>1, <2>5, <2>6, <2>7, <2>8, CallGoesOn
<1>16. CASE ~Fits(piece)
  <2> DEFINE c == [Call EXCEPT !.rest = rest]
  <2>1. calls' = Append(Become(c), NewCall(piece))
    BY <1>1, <1>12, <1>16
  <2>2. /\ c \in CallRecord /\ c.level = Call.level /\ c.rest = rest /\ c.units = Call.units
        /\ c.window = <<>> /\ c.cuts = {} /\ c.done = <<>>
    <3> HIDE DEF rest
    <3> QED BY <1>2, <1>6, <1>7, <1>14 DEF CallRecord
  <2> HIDE DEF c, rest, piece
  <2>3. CallOrder(c)
    BY <1>7, <1>9, <1>10, <2>2, NoTexts DEF CallOrder
  <2>4. CallPhase(c) /\ Waiting(c)
    BY <1>1, <2>2, NoTexts DEF CallPhase, Waiting
  <2>5. \A x \in Characters(piece) : Between(c, x)
    BY <1>7, <1>9, <1>10, <2>2 DEF Between
  <2>6. Content(c) \union Characters(piece) = Content(Call)
    BY <1>6, <1>7, <2>2 DEF Content
  <2> QED BY <1>1, <1>8, <1>9, <2>1, <2>2, <2>3, <2>4, <2>5, <2>6, CallIsMade
<1> QED BY <1>15, <1>16

LEMMA OneWord ==
  ASSUME NEW w \in Word
  PROVE  /\ <<w>> \in Text /\ <<w>> \in Seq(Word) /\ Len(<<w>>) = 1 /\ <<w>>[1] = w
         /\ Characters(<<w>>) = w.first .. w.last /\ End(<<w>>) = w.last
         /\ Ascending(<<w>>)
<1> DEFINE t == <<w>>
<1>1. t \in Seq(Word) /\ Len(t) = 1 /\ t[1] = w
  OBVIOUS
<1> HIDE DEF t
<1>2. DOMAIN t = {1} /\ t # <<>>
  BY <1>1, LenProperties, EmptySeq
<1>3. Characters(t) = w.first .. w.last
  BY <1>1, <1>2 DEF Characters
<1>4. Ascending(t)
  BY <1>2 DEF Ascending
<1> QED BY <1>1, <1>2, <1>3, <1>4 DEF t, Text, End

(* A slice goes beyond the one before it, and the next begins where it     *)
(* ends or earlier.                                                        *)
LEMMA SliceWordKeeps ==
  ASSUME SplitterInv, SliceWord PROVE SplitterInv'
<1> DEFINE w == Call.rest[1]
<1> DEFINE s == FirstSlice(w)
<1> DEFINE v == [w EXCEPT !.first = @ + Advance]
<1> DEFINE rest == IF s.last = w.last THEN <<>> ELSE <<v>>
<1> DEFINE c == [Call EXCEPT !.done = Append(@, <<s>>), !.rest = rest]
<1>1. /\ Working /\ calls # <<>> /\ Call.level = 0 /\ Call.rest # <<>> /\ UNCHANGED chunks
      /\ calls' = Become(c)
  BY DEF SliceWord, Working
<1>2. Call \in CallRecord /\ CallOrder(Call) /\ CallPhase(Call)
  BY <1>1, InnermostCall
<1>3. /\ Call.rest \in Seq(Word) /\ Len(Call.rest) = 1 /\ Call.done \in Seq(Text)
      /\ Call.units = <<>> /\ Call.window = <<>> /\ Call.cuts = {}
  <2>1. Call.rest \in Seq(Word) /\ Len(Call.rest) <= 1 /\ Call.done \in Seq(Text)
    BY <1>1, <1>2, CallHas DEF CallPhase
  <2>2. Len(Call.rest) \in Nat \ {0}
    BY <1>1, <2>1, EmptySeq
  <2>3. Call.units = <<>> /\ Call.window = <<>>
    BY <1>1, <1>2 DEF CallPhase
  <2>4. Len(Call.window) = 0
    BY <2>3, NoTexts
  <2>5. Call.cuts = {}
    BY <1>2, <2>4 DEF CallPhase
  <2>6. \A n \in Nat \ {0} : n <= 1 => n = 1
    OBVIOUS
  <2> QED BY <2>1, <2>2, <2>3, <2>5, <2>6
<1>4. w \in Word /\ w.first \in Nat /\ w.last \in Nat /\ w.first <= w.last
  BY <1>3, WordIs
<1>5. Step \in Nat \ {0} /\ Advance \in 1..Step
  BY SettingsAreNumbers DEF SplitterInv, SplitterTypeOK
<1>6. Characters(Call.rest) = w.first .. w.last
  BY <1>3, LenProperties DEF Characters
<1> HIDE DEF w
<1>7. /\ s.first = w.first /\ s.last = Smaller(w.last, w.first + Step - 1)
      /\ s \in Word
  <2>1. Smaller(w.last, w.first + Step - 1) \in w.first .. w.last
    BY <1>4, <1>5 DEF Smaller
  <2> QED BY <1>4, <2>1 DEF FirstSlice, Word
<1>8. s.last \in Nat /\ s.last <= w.last /\ s.last <= w.first + Step - 1
      /\ (s.last # w.last => s.last = w.first + Step - 1)
  BY <1>4, <1>5, <1>7 DEF Smaller
<1>9. s.last # w.last => /\ v \in Word /\ v.first = w.first + Advance /\ v.last = w.last
                         /\ v.first <= s.last + 1
  <2> SUFFICES ASSUME s.last # w.last
               PROVE  /\ v \in Word /\ v.first = w.first + Advance /\ v.last = w.last
                      /\ v.first <= s.last + 1
    OBVIOUS
  <2>1. v.first = w.first + Advance /\ v.last = w.last
    BY <1>4 DEF Word
  <2>2. w.first + Advance \in Nat /\ w.first + Advance <= w.last
        /\ w.first + Advance <= s.last + 1
    BY <1>4, <1>5, <1>8
  <2>3. v \in Word
    BY <1>4, <2>1, <2>2 DEF Word
  <2> QED BY <2>1, <2>2, <2>3
<1> HIDE DEF s, v
<1>10. <<s>> \in Text /\ Characters(<<s>>) = s.first .. s.last /\ End(<<s>>) = s.last
  BY <1>7, OneWord
<1>11. /\ rest \in Seq(Word) /\ Ascending(rest) /\ Len(rest) <= 1
       /\ w.first .. w.last = Characters(<<s>>) \union Characters(rest)
       /\ rest # <<>> => s.last # w.last /\ rest[1] = v
  <2>1. CASE s.last = w.last
    BY <1>7, <1>10, <2>1, NoTexts
  <2>2. CASE s.last # w.last
    <3>1. rest = <<v>> /\ rest \in Seq(Word) /\ Len(rest) = 1 /\ Characters(rest) = v.first .. v.last
      BY <1>9, <2>2, OneWord
    <3>2. Ascending(rest)
      BY <1>9, <2>2, OneWord
    <3> HIDE DEF rest
    <3>3. w.first .. w.last = (s.first .. s.last) \union (v.first .. v.last)
      BY <1>4, <1>5, <1>7, <1>8, <1>9, <2>2
    <3>4. w.first .. w.last = Characters(<<s>>) \union Characters(rest)
      BY <1>10, <3>1, <3>3
    <3>5. Len(rest) <= 1
      BY <3>1
    <3>6. rest[1] = v
      BY <3>1
    <3> QED BY <2>2, <3>1, <3>2, <3>4, <3>5, <3>6
  <2> QED BY <2>1, <2>2
<1> DEFINE ds == Append(Call.done, <<s>>)
<1>12. \A i \in DOMAIN Call.done :
         End(Call.done[i]) < w.last /\ End(Call.done[i]) < w.first + Step - 1
  BY <1>1, <1>2 DEF CallOrder, w
<1>13. \A i \in DOMAIN Call.done : End(Call.done[i]) < s.last
  BY <1>7, <1>12 DEF Smaller
<1>14. /\ ds \in Seq(Text) /\ Covered(ds) = Covered(Call.done) \union Characters(<<s>>)
       /\ \A i \in 1..Len(Call.done) : ds[i] = Call.done[i]
       /\ ds[Len(Call.done) + 1] = <<s>>
       /\ DOMAIN ds = DOMAIN Call.done \union {Len(Call.done) + 1}
  BY <1>3, <1>10, TextAppended
<1>15. Rising(ds)
  <2>1. Rising(Call.done)
    BY <1>2 DEF CallOrder
  <2> QED BY <1>3, <1>10, <1>13, <2>1, TextAppended
<1>16. ASSUME NEW i \in DOMAIN ds, rest # <<>>
       PROVE  End(ds[i]) < rest[1].last /\ End(ds[i]) < rest[1].first + Step - 1
  <2>1. End(ds[i]) \in Nat /\ End(ds[i]) <= s.last
    <3>1. DOMAIN ds = 1..Len(ds) /\ DOMAIN Call.done = 1..Len(Call.done)
      BY <1>3, <1>14, LenProperties
    <3>2. End(ds[i]) \in Nat
      BY <1>14, <3>1, EndIsCovered
    <3>3. CASE i \in DOMAIN Call.done
      BY <1>8, <1>13, <1>14, <3>1, <3>2, <3>3
    <3>4. CASE i = Len(Call.done) + 1
      BY <1>8, <1>10, <1>14, <3>4
    <3> QED BY <1>14, <3>2, <3>3, <3>4
  <2>2. /\ rest[1] = v /\ s.last < w.last /\ s.last = w.first + Step - 1
        /\ v.first = w.first + Advance /\ v.last = w.last
    BY <1>4, <1>8, <1>9, <1>11, <1>16
  <2> QED BY <1>4, <1>5, <1>8, <2>1, <2>2
<1>17. /\ c \in CallRecord /\ c.level = 0 /\ c.rest = rest /\ c.units = <<>>
       /\ c.window = <<>> /\ c.cuts = {} /\ c.done = ds
  <2> HIDE DEF rest
  <2> QED BY <1>1, <1>2, <1>3, <1>11, <1>14 DEF CallRecord
<1> HIDE DEF c, ds, rest
<1>18. CallOrder(c)
  BY <1>11, <1>15, <1>16, <1>17, NoTexts DEF CallOrder
<1>19. CallPhase(c)
  BY <1>11, <1>17, NoTexts DEF CallPhase
<1>20. Content(c) = Content(Call)
  BY <1>3, <1>6, <1>11, <1>14, <1>17 DEF Content
<1> QED BY <1>1, <1>17, <1>18, <1>19, <1>20, CallGoesOn

(* A window that is full is emitted whole, and what is kept of it is joined *)
(* to the unit.                                                             *)
LEMMA DroppedIsInWindow ==
  ASSUME NEW c \in CallRecord, CallPhase(c), overlap \in Overlaps
  PROVE  /\ Dropped(c) \in 0..Len(c.window)
         /\ Tokens(From(c.window, Dropped(c))) <= overlap
<1> DEFINE S == {i \in c.cuts \union {0} : Tokens(From(c.window, i)) <= overlap}
<1>1. c.window \in Seq(Word) /\ Len(c.window) \in Nat
  BY CallHas, LenProperties
<1>2. From(c.window, Len(c.window)) = <<>>
  <2>1. Len(c.window) + 1 \in Int /\ Len(c.window) \in Int /\ Len(c.window) < Len(c.window) + 1
    BY <1>1
  <2> QED BY <2>1, SubSeqEmpty DEF From
<1>3. Tokens(<<>>) = 0
  BY TokensOfText
<1>4. 0 <= overlap
  BY SettingsAssumption
<1>5. Len(c.window) \in S
  BY <1>2, <1>3, <1>4 DEF CallPhase
<1>6. S \subseteq 0..Len(c.window)
  BY <1>1 DEF CallPhase
<1>7. S \subseteq Nat
  BY <1>6
<1> HIDE DEF S
<1>8. Least(S) \in S
  BY <1>5, <1>7, LeastExists
<1>9. Dropped(c) \in S
  BY <1>8 DEF Dropped, S
<1> QED BY <1>6, <1>9 DEF S

LEMMA MergeUnitKeeps ==
  ASSUME SplitterInv, MergeUnit PROVE SplitterInv'
<1> DEFINE t == Call.window
<1> DEFINE u == Head(Call.units)
<1> DEFINE full == Overfull(Call, u)
<1> DEFINE k == IF full THEN Dropped(Call) ELSE 0
<1> DEFINE kept == From(t, k)
<1> DEFINE joined == Glue(kept, Call.level, u)
<1> DEFINE cuts == {j - k : j \in {i \in Call.cuts : i > k}} \union {Len(kept) + Len(u)}
<1> DEFINE ds == IF full THEN Append(Call.done, t) ELSE Call.done
<1> DEFINE c == [Call EXCEPT !.units = Tail(@), !.done = ds, !.window = joined, !.cuts = cuts]
<1>1. /\ Working /\ calls # <<>> /\ Call.rest = <<>> /\ Call.units # <<>> /\ UNCHANGED chunks
      /\ calls' = Become(c)
  BY DEF MergeUnit, Working
<1>2. Call \in CallRecord /\ CallOrder(Call) /\ CallPhase(Call) /\ overlap \in Overlaps
  BY <1>1, InnermostCall DEF SplitterInv, SplitterTypeOK
<1>3. /\ t \in Seq(Word) /\ Call.units \in Seq(Text) /\ Call.done \in Seq(Text)
      /\ Call.cuts \subseteq 1..Len(t) /\ Len(t) \in Call.cuts \union {0} /\ Len(t) \in Nat
      /\ Call.level \in Levels /\ Call.level # 0
  <2>1. Call.level # 0
    BY <1>1, <1>2 DEF CallPhase
  <2>2. Call.level \in Levels /\ t \in Seq(Word) /\ Call.units \in Seq(Text) /\ Call.done \in Seq(Text)
    BY <1>2, <2>1, CallHas
  <2> QED BY <1>2, <2>1, <2>2, LenProperties DEF CallPhase
<1>4. /\ u \in Text /\ Tail(Call.units) \in Seq(Text) /\ u = Call.units[1] /\ 1 \in DOMAIN Call.units
      /\ \A i \in DOMAIN Tail(Call.units) :
           i + 1 \in DOMAIN Call.units /\ 1 < i + 1 /\ Tail(Call.units)[i] = Call.units[i + 1]
      /\ Covered(Call.units) = Characters(u) \union Covered(Tail(Call.units))
      /\ Rising(Tail(Call.units))
  <2>1. Rising(Call.units)
    BY <1>2 DEF CallOrder
  <2> QED BY <1>1, <1>3, <2>1, FirstTaken
<1>5. full => t # <<>>
  BY DEF Overfull
<1>6. k \in 0..Len(t)
  BY <1>2, <1>3, DroppedIsInWindow
<1> HIDE DEF full, k
<1>7. /\ kept \in Seq(Word) /\ Len(kept) = Len(t) - k
      /\ Characters(kept) \subseteq Characters(t)
  <2>1. /\ From(t, k) \in Seq(Word) /\ Len(From(t, k)) = Len(t) - k
        /\ Characters(t) = Characters(SubSeq(t, 1, k)) \union Characters(From(t, k))
    BY <1>3, <1>6, CutKeeps
  <2> QED BY <2>1
<1>8. ~full => Characters(kept) = Characters(t)
  <2> SUFFICES ASSUME ~full PROVE Characters(kept) = Characters(t)
    OBVIOUS
  <2>1. k = 0
    BY DEF k
  <2>2. SubSeq(t, 1, 0) = <<>>
    BY SubSeqEmpty
  <2>3. Characters(t) = Characters(SubSeq(t, 1, 0)) \union Characters(kept)
    BY <1>3, <1>6, <2>1, CutKeeps
  <2> QED BY <2>2, <2>3, NoTexts
<1> HIDE DEF kept
<1>9. /\ joined \in Text /\ Characters(joined) = Characters(kept) \union Characters(u)
      /\ End(joined) = End(u) /\ Len(joined) = Len(kept) + Len(u)
  BY <1>3, <1>4, <1>7, GlueJoins
<1>10. Len(u) \in Nat \ {0} /\ joined \in Seq(Word) /\ joined # <<>>
  BY <1>4, <1>9, EmptySeq DEF Text
<1>11. cuts \subseteq 1..Len(joined) /\ Len(joined) \in cuts
  <2> HIDE DEF joined, u
  <2>1. Len(joined) = Len(t) - k + Len(u)
    BY <1>7, <1>9
  <2>2. ASSUME NEW j \in Call.cuts, j > k PROVE j - k \in 1..Len(joined)
    BY <1>3, <1>6, <1>10, <2>1, <2>2
  <2>3. Len(joined) \in 1..Len(joined)
    BY <1>3, <1>6, <1>10, <2>1
  <2> QED BY <1>9, <2>2, <2>3
<1> HIDE DEF joined, cuts, u
(* The ends *)
<1>12. \A i \in DOMAIN Tail(Call.units) : End(u) < End(Tail(Call.units)[i])
  BY <1>2, <1>4 DEF CallOrder, Rising
<1>13. t # <<>> => t \in Text /\ End(t) \in Nat /\ End(t) < End(u)
  <2> SUFFICES ASSUME t # <<>> PROVE t \in Text /\ End(t) \in Nat /\ End(t) < End(u)
    OBVIOUS
  <2>1. t \in Text
    BY <1>3 DEF Text
  <2>2. End(t) < End(Call.units[1])
    BY <1>2, <1>4 DEF CallOrder
  <2> QED BY <1>4, <2>1, <2>2, EndIsCharacter
<1>14. End(u) \in Nat
  BY <1>4, EndIsCharacter
<1>15. \A i \in DOMAIN Call.done : t # <<>> /\ End(Call.done[i]) < End(t)
  BY <1>2, <1>3 DEF CallOrder
<1>16. \A i \in DOMAIN Call.done : End(Call.done[i]) < End(u)
  <2> SUFFICES ASSUME NEW i \in DOMAIN Call.done PROVE End(Call.done[i]) < End(u)
    OBVIOUS
  <2>1. DOMAIN Call.done = 1..Len(Call.done)
    BY <1>3, LenProperties
  <2>2. End(Call.done[i]) \in Nat
    BY <1>3, <2>1, EndIsCovered
  <2> QED BY <1>13, <1>14, <1>15, <2>2
<1>17. Rising(Call.done)
  BY <1>2 DEF CallOrder
<1>18. /\ ds \in Seq(Text) /\ Rising(ds)
       /\ \A i \in DOMAIN ds : End(ds[i]) < End(u)
       /\ Covered(ds) \subseteq Covered(Call.done) \union Characters(t)
       /\ Covered(ds) \union Characters(kept) = Covered(Call.done) \union Characters(t)
  <2>1. CASE ~full
    BY <1>3, <1>8, <1>16, <1>17, <2>1
  <2>2. CASE full
    <3>1. t \in Text /\ t # <<>>
      BY <1>5, <1>13, <2>2
    <3>2. /\ Append(Call.done, t) \in Seq(Text)
          /\ \A i \in 1..Len(Call.done) : Append(Call.done, t)[i] = Call.done[i]
          /\ Append(Call.done, t)[Len(Call.done) + 1] = t
          /\ DOMAIN Append(Call.done, t) = DOMAIN Call.done \union {Len(Call.done) + 1}
          /\ Covered(Append(Call.done, t)) = Covered(Call.done) \union Characters(t)
          /\ Rising(Append(Call.done, t))
      BY <1>3, <1>15, <1>17, <3>1, TextAppended
    <3>3. DOMAIN Call.done = 1..Len(Call.done)
      BY <1>3, LenProperties
    <3>4. \A i \in DOMAIN Append(Call.done, t) : End(Append(Call.done, t)[i]) < End(u)
      BY <1>13, <1>16, <3>1, <3>2, <3>3
    <3>5. ds = Append(Call.done, t)
      BY <2>2
    <3> QED BY <1>7, <3>2, <3>4, <3>5
  <2> QED BY <2>1, <2>2
<1>19. cuts \subseteq Nat
  BY <1>11
<1>20. /\ c \in CallRecord /\ c.level = Call.level /\ c.rest = <<>> /\ c.units = Tail(Call.units)
       /\ c.window = joined /\ c.cuts = cuts /\ c.done = ds
  <2> HIDE DEF ds
  <2> QED BY <1>1, <1>2, <1>4, <1>10, <1>18, <1>19 DEF CallRecord
<1> HIDE DEF c, ds
<1>21. CallOrder(c)
  <2>1. \A j \in DOMAIN c.units : End(c.window) < End(c.units[j]) /\ Characters(c.rest) = {}
    BY <1>9, <1>12, <1>20, NoTexts
  <2>2. \A i \in DOMAIN c.done : c.window # <<>> /\ End(c.done[i]) < End(c.window)
    BY <1>9, <1>10, <1>18, <1>20
  <2> QED BY <1>3, <1>4, <1>18, <1>20, <2>1, <2>2, NoTexts DEF CallOrder
<1>22. CallPhase(c)
  BY <1>3, <1>11, <1>20 DEF CallPhase
<1>23. Content(c) = Content(Call)
  <2>1. Content(c) = Covered(Tail(Call.units)) \union Characters(kept) \union Characters(u)
                       \union Covered(ds)
    BY <1>9, <1>20, NoTexts DEF Content
  <2>2. Content(Call) = Characters(u) \union Covered(Tail(Call.units)) \union Characters(t)
                          \union Covered(Call.done)
    BY <1>1, <1>4, NoTexts DEF Content
  <2> QED BY <1>18, <2>1, <2>2
<1> QED BY <1>1, <1>20, <1>21, <1>22, <1>23, CallGoesOn

(* A call returns all it was made with, in chunks that advance.            *)
LEMMA ResultIs ==
  ASSUME NEW c \in CallRecord, CallOrder(c), CallPhase(c), c.rest = <<>>, c.units = <<>>
  PROVE  /\ Result(c) \in Seq(Text) /\ Rising(Result(c))
         /\ Covered(Result(c)) = Content(c)
<1>1. c.window \in Seq(Word) /\ c.done \in Seq(Text) /\ Rising(c.done)
  BY CallHas DEF CallOrder
<1>2. Content(c) = Characters(c.window) \union Covered(c.done)
  BY NoTexts DEF Content
<1>3. CASE c.window = <<>>
  BY <1>1, <1>2, <1>3, NoTexts DEF Result
<1>4. CASE c.window # <<>>
  <2>1. c.window \in Text /\ c.level # 0
    BY <1>1, <1>4 DEF Text, CallPhase
  <2>2. \A i \in DOMAIN c.done : End(c.done[i]) < End(c.window)
    BY <2>1 DEF CallOrder
  <2>3. /\ Append(c.done, c.window) \in Seq(Text) /\ Rising(Append(c.done, c.window))
        /\ Covered(Append(c.done, c.window)) = Covered(c.done) \union Characters(c.window)
    BY <1>1, <2>1, <2>2, TextAppended
  <2> QED BY <1>2, <1>4, <2>3 DEF Result
<1> QED BY <1>3, <1>4

LEMMA ReturnCallKeeps ==
  ASSUME SplitterInv, ReturnCall PROVE SplitterInv'
<1> DEFINE n == Len(calls)
<1> DEFINE r == Result(Call)
<1>1. /\ Working /\ calls # <<>> /\ Call.rest = <<>> /\ Call.units = <<>>
      /\ UNCHANGED <<overlap, text>>
      /\ IF n = 1 THEN calls' = <<>> /\ chunks' = r
         ELSE /\ calls' = [Front(calls) EXCEPT ![n - 1].units = @ \o r]
              /\ UNCHANGED chunks
  BY DEF ReturnCall, Working
<1>2. /\ n \in Nat \ {0} /\ DOMAIN calls = 1..n /\ n \in DOMAIN calls /\ Call = calls[n]
      /\ \A i \in DOMAIN calls : calls[i] \in CallRecord
      /\ Call \in CallRecord /\ CallOrder(Call) /\ CallPhase(Call)
      /\ calls \in Seq(CallRecord)
  BY <1>1, InnermostCall DEF Call, SplitterInv, SplitterTypeOK
<1>3. r \in Seq(Text) /\ Rising(r) /\ Covered(r) = Content(Call)
  BY <1>1, <1>2, ResultIs
<1> HIDE DEF r
<1>4. text # <<>> /\ Characters(text) = InCalls
  BY <1>1 DEF SplitterInv
<1>5. CASE n = 1
  <2>1. calls' = <<>> /\ chunks' = r
    BY <1>1, <1>5
  <2>2. InCalls = Content(Call)
    <3>1. DOMAIN calls = {1} /\ Call = calls[1]
      BY <1>2, <1>5
    <3> QED BY <3>1 DEF InCalls
  <2>3. Characters(text)' = Covered(chunks')
    BY <1>1, <1>3, <1>4, <2>1, <2>2
  <2>4. NothingLost'
    BY <2>3 DEF NothingLost, Covered
  <2>5. SplitterTypeOK'
    <3>1. calls' \in Seq(CallRecord)
      BY <2>1, EmptySeq
    <3> QED BY <1>1, <1>3, <2>1, <3>1 DEF SplitterInv, SplitterTypeOK
  <2>6. DOMAIN calls' = {}
    BY <2>1, NoTexts
  <2>7. Nested' /\ \A i \in DOMAIN calls' : CallOrder(calls'[i]) /\ CallPhase(calls'[i])
    BY <2>6 DEF Nested
  <2> QED BY <1>1, <1>3, <1>4, <2>1, <2>4, <2>5, <2>7 DEF SplitterInv
<1>6. CASE n # 1
  <2> DEFINE p == calls[n - 1]
  <2> DEFINE c == [p EXCEPT !.units = @ \o r]
  <2>1. n - 1 \in 1..n /\ n - 1 \in Nat \ {0} /\ n - 1 < n
    <3>1. \A m \in Nat \ {0} : m # 1 => m - 1 \in 1..m /\ m - 1 \in Nat \ {0} /\ m - 1 < m
      OBVIOUS
    <3> HIDE DEF n
    <3> QED BY <1>2, <1>6, <3>1
  <2>2. p \in CallRecord /\ CallOrder(p) /\ CallPhase(p)
    BY <1>2, <2>1 DEF SplitterInv
  <2>3. Waiting(p) /\ \A x \in Content(Call) : Between(p, x)
    BY <1>2, <2>1 DEF SplitterInv, Nested
  <2>4. /\ Front(calls) \in Seq(CallRecord) /\ Len(Front(calls)) = n - 1
        /\ \A i \in 1..(n - 1) : Front(calls)[i] = calls[i]
    <3>1. \A i \in 1..(n - 1) : calls[i] \in CallRecord
      BY <1>2, <2>1
    <3>2. 1 \in Int /\ n - 1 \in Int
      BY <2>1
    <3>3. /\ SubSeq(calls, 1, n - 1) \in Seq(CallRecord)
          /\ Len(SubSeq(calls, 1, n - 1)) = IF 1 <= n - 1 THEN n - 1 - 1 + 1 ELSE 0
          /\ \A i \in 1..(n - 1 - 1 + 1) : SubSeq(calls, 1, n - 1)[i] = calls[1 + i - 1]
      <4> HIDE DEF n
      <4> QED BY <3>1, <3>2, SubSeqProperties
    <3>4. Front(calls) = SubSeq(calls, 1, n - 1)
      BY DEF Front
    <3> HIDE DEF n
    <3>5. n - 1 - 1 + 1 = n - 1 /\ 1 <= n - 1 /\ \A i \in 1..(n - 1) : 1 + i - 1 = i
      BY <2>1
    <3> QED BY <3>3, <3>4, <3>5
  <2>5. p.units \in Seq(Text) /\ p.rest \in Seq(Word) /\ p.window = <<>> /\ p.done = <<>> /\ p.level # 0
    BY <2>2, <2>3, CallHas DEF Waiting
  <2>6. p.units \o r \in Seq(Text) /\ Covered(p.units \o r) = Covered(p.units) \union Covered(r)
    BY <1>3, <2>5, CoveredByConcat
  <2>7. /\ c \in CallRecord /\ c.level = p.level /\ c.rest = p.rest /\ c.units = p.units \o r
        /\ c.window = <<>> /\ c.cuts = p.cuts /\ c.done = <<>>
    <3> HIDE DEF p
    <3> QED BY <2>2, <2>5, <2>6 DEF CallRecord
  <2>8. /\ calls' \in Seq(CallRecord) /\ Len(calls') = n - 1 /\ calls' # <<>> /\ UNCHANGED chunks
        /\ \A i \in 1..(n - 1) : calls'[i] = IF i = n - 1 THEN c ELSE calls[i]
    <3>1. n - 1 \in 1..(n - 1)
      BY <2>1
    <3>2. calls' = [Front(calls) EXCEPT ![n - 1] = c]
      BY <1>1, <1>6, <2>4, <3>1
    <3> HIDE DEF c, n
    <3>3. /\ calls' \in Seq(CallRecord) /\ Len(calls') = n - 1
          /\ \A i \in 1..(n - 1) : calls'[i] = IF i = n - 1 THEN c ELSE Front(calls)[i]
      BY <2>4, <2>7, <3>1, <3>2, ExceptSeq
    <3>4. calls' # <<>>
      BY <2>1, <3>3, EmptySeq
    <3> QED BY <1>1, <1>6, <2>4, <3>3, <3>4 DEF n
  <2> HIDE DEF c
  <2>9. DOMAIN calls' = 1..(n - 1)
    BY <2>8, LenProperties
  <2>10. \A i \in DOMAIN r : End(r[i]) \in Content(Call)
    <3>1. DOMAIN r = 1..Len(r)
      BY <1>3, LenProperties
    <3> QED BY <1>3, <3>1, EndIsCovered
  <2>11. CallOrder(c)
    <3>1. Rising(c.units)
      <4>1. \A i \in DOMAIN p.units, j \in DOMAIN r : End(p.units[i]) < End(r[j])
        BY <2>3, <2>10 DEF Between
      <4>2. Rising(p.units)
        BY <2>2 DEF CallOrder
      <4> QED BY <1>3, <2>5, <2>7, <4>1, <4>2, RisingConcat
    <3>2. ASSUME NEW j \in DOMAIN c.units, NEW x \in Characters(c.rest)
          PROVE  End(c.units[j]) < x
      <4>1. /\ Len(p.units) \in Nat /\ Len(r) \in Nat /\ DOMAIN p.units = 1..Len(p.units)
            /\ DOMAIN r = 1..Len(r)
        BY <1>3, <2>5, LenProperties
      <4>2. /\ DOMAIN c.units = 1..(Len(p.units) + Len(r))
            /\ c.units[j] = IF j <= Len(p.units) THEN p.units[j] ELSE r[j - Len(p.units)]
        <5>1. /\ Len(p.units \o r) = Len(p.units) + Len(r)
              /\ \A i \in 1..(Len(p.units) + Len(r)) :
                   (p.units \o r)[i] = IF i <= Len(p.units) THEN p.units[i] ELSE r[i - Len(p.units)]
          BY <1>3, <2>5, ConcatProperties
        <5>2. DOMAIN c.units = 1..(Len(p.units) + Len(r))
          BY <2>6, <2>7, <5>1, LenProperties
        <5> QED BY <2>7, <5>1, <5>2
      <4>3. CASE j <= Len(p.units)
        <5>1. j \in DOMAIN p.units /\ c.units[j] = p.units[j]
          BY <4>1, <4>2, <4>3
        <5> QED BY <2>2, <2>5, <2>7, <3>2, <5>1 DEF CallOrder
      <4>4. CASE ~(j <= Len(p.units))
        <5>1. j - Len(p.units) \in DOMAIN r /\ c.units[j] = r[j - Len(p.units)]
          BY <4>1, <4>2, <4>4
        <5> QED BY <2>3, <2>7, <2>10, <3>2, <5>1 DEF Between
      <4> QED BY <4>3, <4>4
    <3> QED BY <2>2, <2>7, <3>1, <3>2, NoTexts DEF CallOrder
  <2>12. CallPhase(c)
    BY <2>2, <2>5, <2>7 DEF CallPhase
  <2>13. Content(c) = Content(p) \union Content(Call)
    BY <1>3, <2>5, <2>6, <2>7 DEF Content
  <2> HIDE DEF n, p
  <2>14. \A i \in DOMAIN calls' : i \in DOMAIN calls /\ (i # n - 1 => calls'[i] = calls[i] /\ i < n - 1)
    BY <1>2, <2>1, <2>8, <2>9
  <2>15. \A i \in DOMAIN calls' : CallOrder(calls'[i]) /\ CallPhase(calls'[i])
    <3> SUFFICES ASSUME NEW i \in DOMAIN calls' PROVE CallOrder(calls'[i]) /\ CallPhase(calls'[i])
      OBVIOUS
    <3>1. CASE i = n - 1
      BY <2>8, <2>9, <2>11, <2>12, <3>1
    <3>2. CASE i # n - 1
      BY <2>14, <3>2 DEF SplitterInv
    <3> QED BY <3>1, <3>2
  <2>16. n - 1 \in DOMAIN calls' /\ calls'[n - 1] = c /\ p = calls[n - 1]
    BY <2>1, <2>8, <2>9 DEF p
  <2>17. Nested'
    <3> SUFFICES ASSUME NEW i \in DOMAIN calls', NEW j \in DOMAIN calls', i < j
                 PROVE  /\ Waiting(calls'[i])
                        /\ \A x \in Content(calls'[j]) : Between(calls'[i], x)
      BY DEF Nested
    <3>1. i # n - 1 /\ calls'[i] = calls[i] /\ i \in DOMAIN calls /\ i < n
      BY <1>2, <2>1, <2>9, <2>14
    <3>2. Waiting(calls[i]) /\ \A m \in DOMAIN calls : i < m => \A x \in Content(calls[m]) : Between(calls[i], x)
      BY <1>2, <3>1 DEF SplitterInv, Nested
    <3>3. CASE j = n - 1
      <4>1. \A x \in Content(p) \union Content(Call) : Between(calls[i], x)
        BY <1>2, <2>14, <2>16, <3>1, <3>2, <3>3
      <4> QED BY <2>13, <2>16, <3>1, <3>2, <3>3, <4>1
    <3>4. CASE j # n - 1
      <4>1. calls'[j] = calls[j] /\ j \in DOMAIN calls
        BY <2>14, <3>4
      <4> QED BY <3>1, <3>2, <4>1
    <3> QED BY <3>3, <3>4
  <2>18. InCalls' = InCalls
    <3>1. ASSUME NEW x \in InCalls' PROVE x \in InCalls
      <4>1. PICK i \in DOMAIN calls' : x \in Content(calls'[i])
        BY <3>1 DEF InCalls
      <4>2. CASE i = n - 1
        <5>1. x \in Content(calls[n - 1]) \/ x \in Content(calls[n])
          BY <1>2, <2>13, <2>16, <4>1, <4>2
        <5>2. n \in DOMAIN calls /\ n - 1 \in DOMAIN calls
          BY <1>2, <2>14, <2>16
        <5> QED BY <5>1, <5>2 DEF InCalls
      <4>3. CASE i # n - 1
        BY <2>14, <4>1, <4>3 DEF InCalls
      <4> QED BY <4>2, <4>3
    <3>2. ASSUME NEW x \in InCalls PROVE x \in InCalls'
      <4>1. PICK i \in DOMAIN calls : x \in Content(calls[i])
        BY <3>2 DEF InCalls
      <4>2. CASE i = n - 1 \/ i = n
        <5>1. x \in Content(c)
          BY <1>2, <2>13, <2>16, <4>1, <4>2
        <5> QED BY <2>16, <5>1 DEF InCalls
      <4>3. CASE ~(i = n - 1 \/ i = n)
        <5>1. i \in DOMAIN calls'
          BY <1>2, <2>9, <4>3
        <5> QED BY <2>14, <4>1, <4>3, <5>1 DEF InCalls
      <4> QED BY <4>2, <4>3
    <3> QED BY <3>1, <3>2
  <2>19. SplitterTypeOK'
    BY <1>1, <2>8 DEF SplitterInv, SplitterTypeOK
  <2>20. NothingLost' /\ Rising(chunks)' /\ chunks' = <<>>
    BY <1>1, <2>8 DEF SplitterInv, NothingLost
  <2> QED BY <1>1, <1>4, <2>8, <2>15, <2>17, <2>18, <2>19, <2>20 DEF SplitterInv
<1> QED BY <1>5, <1>6

-----------------------------------------------------------------------------
(* The splitter under the steps of the parser *)

LEMMA SplitterStarts == ParserInit => SplitterInv
<1> SUFFICES ASSUME Init PROVE SplitterInv
  BY DEF ParserInit
<1>1. text = <<>> /\ calls = <<>> /\ chunks = <<>> /\ overlap \in Overlaps
  BY DEF Init
<1>2. SplitterTypeOK
  BY <1>1, EmptySeq DEF SplitterTypeOK
<1> QED BY <1>1, <1>2, NoTexts DEF SplitterInv, Nested, NothingLost

LEMMA SplitChunkKeeps ==
  ASSUME SplitterInv, SplitChunk PROVE SplitterInv'
<1>1. text # <<>> /\ calls = <<>> /\ chunks = <<>> /\ UNCHANGED <<overlap, text>>
  BY DEF SplitChunk
<1>2. text \in Text /\ Ascending(text)
  BY <1>1, TextsAssumption DEF SplitterInv, SplitterTypeOK, Text
<1>3. CASE Fits(text)
  <2>1. calls' = <<>> /\ chunks' = <<text>>
    BY <1>1, <1>3 DEF SplitChunk
  <2>2. /\ chunks' \in Seq(Text) /\ Rising(chunks') /\ Covered(chunks') = Characters(text)
    BY <1>2, <2>1, OneText
  <2>3. SplitterTypeOK'
    BY <1>1, <2>1, <2>2, EmptySeq DEF SplitterInv, SplitterTypeOK
  <2>4. NothingLost'
    BY <1>1, <2>2 DEF NothingLost, Covered
  <2>5. DOMAIN calls' = {}
    BY <2>1, NoTexts
  <2> QED BY <1>1, <2>1, <2>2, <2>3, <2>4, <2>5 DEF SplitterInv, Nested
<1>4. CASE ~Fits(text)
  <2> DEFINE c == NewCall(text)
  <2>1. calls' = <<c>> /\ chunks' = <<>>
    BY <1>1, <1>4 DEF SplitChunk
  <2>2. c \in CallRecord /\ CallOrder(c) /\ CallPhase(c) /\ Content(c) = Characters(text)
    BY <1>2, NewCallIs
  <2> HIDE DEF c
  <2>3. calls' \in Seq(CallRecord) /\ Len(calls') = 1 /\ calls'[1] = c
    BY <2>1, <2>2
  <2>4. DOMAIN calls' = {1}
    BY <2>3, LenProperties
  <2>5. SplitterTypeOK'
    BY <1>1, <2>1, <2>3, EmptySeq DEF SplitterInv, SplitterTypeOK
  <2>6. Nested'
    BY <2>4 DEF Nested
  <2>7. InCalls' = Characters(text)
    BY <2>2, <2>3, <2>4 DEF InCalls
  <2>8. NothingLost' /\ Rising(chunks)'
    BY <2>1, NoTexts DEF NothingLost
  <2> QED BY <1>1, <2>1, <2>2, <2>3, <2>4, <2>5, <2>6, <2>7, <2>8 DEF SplitterInv
<1> QED BY <1>3, <1>4

LEMMA SplitterIsFramed ==
  ASSUME SplitterInv, UNCHANGED vars PROVE SplitterInv'
BY DEF vars, SplitterInv, SplitterTypeOK, Nested, InCalls, NothingLost

LEMMA SplitterSteps ==
  ASSUME [ParserNext]_<<splitterVars, parserVars>>
  PROVE  ReadElement \/ EmitChunks \/ SplitStep \/ UNCHANGED vars
<1>1. CASE ParserNext
  BY <1>1 DEF ParserNext, OpenDocument, PartitionJson, LibraryReturns, FastStrategyRaises,
     LibraryRaises, Partitioned, ParseElement, EndOfElements, TakeChunk, Split, EmitPieces,
     EndOfChunks, EmbedChunks, GroupChunks, WritePartition, WriteRaises, ReturnResult,
     splitterVars
<1>2. CASE UNCHANGED <<splitterVars, parserVars>>
  BY <1>2 DEF splitterVars
<1> QED BY <1>1, <1>2

LEMMA SplitterNextKeeps ==
  ASSUME SplitterInv, [ParserNext]_<<splitterVars, parserVars>> PROVE SplitterInv'
<1>1. CASE ReadElement
  <2>1. /\ text' \in Texts /\ text' # <<>> /\ calls = <<>> /\ chunks = <<>>
        /\ UNCHANGED <<overlap, calls, chunks>>
    BY <1>1, TextsAssumption DEF ReadElement, SplitterInv
  <2>2. SplitterTypeOK'
    BY <2>1 DEF SplitterInv, SplitterTypeOK
  <2> QED BY <2>1, <2>2, NoTexts DEF SplitterInv, Nested, NothingLost
<1>2. CASE EmitChunks
  <2>1. text' = <<>> /\ chunks' = <<>> /\ calls' = calls /\ overlap' = overlap /\ calls = <<>>
    BY <1>2 DEF EmitChunks, SplitterInv
  <2>2. SplitterTypeOK'
    BY <2>1, EmptySeq DEF SplitterInv, SplitterTypeOK
  <2> QED BY <2>1, <2>2, NoTexts DEF SplitterInv, Nested, NothingLost
<1>3. CASE SplitStep
  BY <1>3, SplitChunkKeeps, CutPieceKeeps, SliceWordKeeps, MergeUnitKeeps, ReturnCallKeeps
  DEF SplitStep
<1>4. CASE UNCHANGED vars
  BY <1>4, SplitterIsFramed
<1> QED BY <1>1, <1>2, <1>3, <1>4, SplitterSteps

(* Every character of every word of an element is in one of its chunks.    *)
THEOREM SplitterLosesNothing == ParserSpec => []NothingLost
<1>1. SplitterInv => NothingLost
  BY DEF SplitterInv
<1> QED BY <1>1, SplitterStarts, SplitterNextKeeps, PTL DEF ParserSpec

(* Each chunk ends beyond the one before it, whatever the overlap.         *)
THEOREM ChunksAdvance == ParserSpec => []EachChunkAdvances
<1>1. SplitterInv => EachChunkAdvances
  <2> SUFFICES ASSUME SplitterInv, NEW i \in 1..(Len(chunks) - 1)
               PROVE  Last(chunks[i]).last < Last(chunks[i + 1]).last
    BY DEF EachChunkAdvances
  <2>1. chunks \in Seq(Text) /\ Rising(chunks)
    BY DEF SplitterInv, SplitterTypeOK
  <2>2. DOMAIN chunks = 1..Len(chunks) /\ Len(chunks) \in Nat
    BY <2>1, LenProperties
  <2>3. i \in DOMAIN chunks /\ i + 1 \in DOMAIN chunks /\ i < i + 1
    BY <2>2
  <2> QED BY <2>1, <2>3 DEF Rising, End, Last
<1> QED BY <1>1, SplitterStarts, SplitterNextKeeps, PTL DEF ParserSpec

-----------------------------------------------------------------------------
(* How far chunks exceed the limit *)

(* What merging at each level may add: the overlap, and a delimiter.       *)
Allowance(o) == [l \in Levels |-> o + SepTokens[l]]

(* A text merged at the levels beyond l only.                              *)
Bounded(o, t, l) ==
  /\ o = 0 => Fits(t)
  /\ Tokens(t) + UpTo(Allowance(o))[l] <= MaxChunkTokens + SumSeq(Allowance(o))

(* The level of what a call returns: one before its own; slices are not    *)
(* merged at all.                                                          *)
Reach(c) == IF c.level = 0 THEN Len(SepTokens) ELSE c.level - 1

CallBounded(o, c) ==
  /\ Plain(c.rest)
  /\ \A k \in 1..(Len(c.rest) - 1) : c.rest[k].sep >= c.level
  /\ \A j \in DOMAIN c.units : Bounded(o, c.units[j], c.level)
  /\ c.window # <<>> => Bounded(o, c.window, Reach(c))
  /\ \A j \in DOMAIN c.done : Bounded(o, c.done[j], Reach(c))

BoundInv ==
  Plain(text) =>
    /\ \A i \in DOMAIN calls : CallBounded(overlap, calls[i])
    /\ \A i, j \in DOMAIN calls : i < j => calls[i].level <= Reach(calls[j])
    /\ \A i \in DOMAIN chunks : Bounded(overlap, chunks[i], 0)

LEMMA LevelsAre ==
  /\ Len(SepTokens) \in Nat /\ Levels = 1..Len(SepTokens)
  /\ \A l \in Levels : SepTokens[l] \in Nat
<1>1. SepTokens \in Seq(Nat)
  BY SettingsAssumption
<1> QED BY <1>1, LenProperties, ElementOfSeq DEF Levels

LEMMA AllowanceIs ==
  ASSUME NEW o \in Overlaps
  PROVE  /\ Allowance(o) \in Seq(Nat) /\ Len(Allowance(o)) = Len(SepTokens) /\ o \in Nat
         /\ \A l \in 0..Len(SepTokens) : UpTo(Allowance(o))[l] \in Nat
         /\ \A l \in 0..Len(SepTokens) : UpTo(Allowance(o))[l] <= SumSeq(Allowance(o))
         /\ \A l \in Levels : UpTo(Allowance(o))[l] = UpTo(Allowance(o))[l - 1] + o + SepTokens[l]
         /\ UpTo(Allowance(o))[0] = 0 /\ SumSeq(Allowance(o)) \in Nat
<1> DEFINE n == Len(SepTokens)
<1>1. n \in Nat /\ Levels = 1..n /\ \A l \in Levels : SepTokens[l] \in Nat
  BY LevelsAre
<1>2. o \in Nat
  BY SettingsAssumption
<1>3. Allowance(o) \in [1..n -> Nat] /\ DOMAIN Allowance(o) = 1..n
  BY <1>1, <1>2 DEF Allowance
<1>4. Allowance(o) \in Seq(Nat)
  BY <1>1, <1>3, SeqDef
<1>5. Len(Allowance(o)) = n
  BY <1>1, <1>3, <1>4, LenProperties
<1> HIDE DEF n
<1>6. ASSUME NEW l \in 0..n
      PROVE  UpTo(Allowance(o))[l] \in Nat /\ UpTo(Allowance(o))[l] <= SumSeq(Allowance(o))
  <2>1. n \in 0..n /\ l <= n
    BY <1>1
  <2> QED BY <1>4, <1>5, <2>1, SumsAreNumbers, SumsGrow DEF SumSeq
<1>7. ASSUME NEW l \in Levels
      PROVE  UpTo(Allowance(o))[l] = UpTo(Allowance(o))[l - 1] + o + SepTokens[l]
  <2>1. l \in 1..n /\ l - 1 \in 0..n
    BY <1>1
  <2>2. UpTo(Allowance(o))[l] = UpTo(Allowance(o))[l - 1] + Allowance(o)[l]
    BY <1>4, <1>5, <2>1, SumsAreNumbers
  <2>3. Allowance(o)[l] = o + SepTokens[l]
    BY DEF Allowance
  <2>4. UpTo(Allowance(o))[l - 1] \in Nat /\ SepTokens[l] \in Nat
    BY <1>1, <1>6, <2>1
  <2> QED BY <1>2, <2>2, <2>3, <2>4
<1>8. UpTo(Allowance(o))[0] = 0 /\ SumSeq(Allowance(o)) \in Nat
  BY <1>4, SumsAreNumbers
<1> QED BY <1>2, <1>4, <1>5, <1>6, <1>7, <1>8 DEF n

LEMMA FittingIsBounded ==
  ASSUME NEW o \in Overlaps, NEW t \in Seq(Word), Fits(t), NEW l \in 0..Len(SepTokens)
  PROVE  Bounded(o, t, l)
<1>1. Tokens(t) \in Nat /\ Tokens(t) <= MaxChunkTokens /\ MaxChunkTokens \in Nat
  BY TokensOfText, SettingsAssumption DEF Fits
<1>2. UpTo(Allowance(o))[l] \in Nat /\ UpTo(Allowance(o))[l] <= SumSeq(Allowance(o)) /\ SumSeq(Allowance(o)) \in Nat
  BY AllowanceIs
<1> QED BY <1>1, <1>2 DEF Bounded

(* What is bounded at a level is at the coarser ones.                      *)
LEMMA BoundLoosens ==
  ASSUME NEW o \in Overlaps, NEW t \in Seq(Word), NEW l \in 0..Len(SepTokens), Bounded(o, t, l),
         NEW m \in 0..Len(SepTokens), m <= l
  PROVE  Bounded(o, t, m)
<1>1. UpTo(Allowance(o))[m] <= UpTo(Allowance(o))[l]
  <2>1. Allowance(o) \in Seq(Nat) /\ Len(Allowance(o)) = Len(SepTokens)
    BY AllowanceIs
  <2> QED BY <2>1, SumsGrow
<1>2. UpTo(Allowance(o))[m] \in Nat /\ UpTo(Allowance(o))[l] \in Nat /\ SumSeq(Allowance(o)) \in Nat
  BY AllowanceIs
<1>3. Tokens(t) \in Nat /\ MaxChunkTokens \in Nat
  BY TokensOfText, SettingsAssumption
<1> QED BY <1>1, <1>2, <1>3 DEF Bounded

LEMMA ReachIs ==
  ASSUME NEW c \in CallRecord
  PROVE  /\ Reach(c) \in 0..Len(SepTokens) /\ c.level \in 0..Len(SepTokens)
         /\ c.level # 0 => c.level \in Levels /\ Reach(c) <= c.level
<1>1. c.level \in Levels \union {0}
  BY CallHas
<1> QED BY <1>1, LevelsAre DEF Reach

LEMMA NewCallBounded ==
  ASSUME NEW t \in Text, Plain(t)
  PROVE  /\ CallBounded(overlap, NewCall(t))
         /\ Len(t) # 1 => NewCall(t).level \in {t[k].sep : k \in 1..(Len(t) - 1)}
         /\ Len(t) = 1 => NewCall(t).level = 0
<1> DEFINE c == NewCall(t)
<1> DEFINE S == {t[k].sep : k \in 1..(Len(t) - 1)}
<1>1. t \in Seq(Word) /\ Len(t) \in Nat \ {0}
  BY EmptySeq DEF Text
<1>2. /\ c.level = ChosenDelimiter(t) /\ c.rest = t /\ c.units = <<>> /\ c.window = <<>>
      /\ c.done = <<>>
  BY DEF NewCall
<1> HIDE DEF c
<1>3. ASSUME Len(t) # 1 PROVE c.level \in S /\ \A k \in 1..(Len(t) - 1) : t[k].sep >= c.level
  <2>1. 1 \in 1..(Len(t) - 1)
    <3>1. \A n \in Nat \ {0} : n # 1 => 1 \in 1..(n - 1)
      OBVIOUS
    <3> QED BY <1>1, <1>3, <3>1
  <2>2. S # {}
    BY <2>1
  <2>3. S \subseteq Nat
    <3>1. \A k \in 1..(Len(t) - 1) : t[k] \in Word
      BY <1>1, WordIs
    <3> QED BY <3>1, SettingsAreNumbers DEF Word
  <2>4. c.level = Least(S)
    BY <1>2, <1>3 DEF ChosenDelimiter
  <2>5. \A k \in 1..(Len(t) - 1) : t[k].sep \in S
    OBVIOUS
  <2> HIDE DEF S
  <2>6. Least(S) \in S /\ \A m \in S : Least(S) <= m
    BY <2>2, <2>3, LeastExists
  <2> QED BY <2>3, <2>4, <2>5, <2>6
<1>4. Len(t) = 1 => c.level = 0
  BY <1>2 DEF ChosenDelimiter
<1>5. \A k \in 1..(Len(t) - 1) : t[k].sep >= c.level
  <2>1. CASE Len(t) = 1
    <3>1. 1..(Len(t) - 1) = {}
      BY <2>1
    <3> QED BY <3>1
  <2>2. CASE Len(t) # 1
    BY <1>3, <2>2
  <2> QED BY <2>1, <2>2
<1>6. CallBounded(overlap, c)
  BY <1>2, <1>5, NoTexts DEF CallBounded
<1> QED BY <1>3, <1>4, <1>6 DEF c

(* The innermost call goes on.                                             *)
LEMMA BoundsGoOn ==
  ASSUME SplitterInv, BoundInv, Working, NEW c \in CallRecord, c.level = Call.level,
         Plain(text) => CallBounded(overlap, c), calls' = Become(c), UNCHANGED chunks
  PROVE  BoundInv'
<1>1. calls # <<>> /\ UNCHANGED <<overlap, text, chunks>>
  BY DEF Working
<1>2. Call = calls[Len(calls)] /\ Len(calls) \in DOMAIN calls
  BY <1>1, InnermostCall DEF Call
<1>3. /\ DOMAIN calls' = DOMAIN calls
      /\ \A i \in DOMAIN calls : calls'[i] = IF i = Len(calls) THEN c ELSE calls[i]
  BY <1>1, Becoming
<1>4. \A i \in DOMAIN calls : calls'[i].level = calls[i].level /\ Reach(calls'[i]) = Reach(calls[i])
  BY <1>2, <1>3 DEF Reach
<1> SUFFICES ASSUME Plain(text) PROVE BoundInv'
  BY <1>1 DEF BoundInv
<1>5. \A i \in DOMAIN calls' : CallBounded(overlap, calls'[i])
  BY <1>3 DEF BoundInv
<1>6. \A i, j \in DOMAIN calls' : i < j => calls'[i].level <= Reach(calls'[j])
  BY <1>3, <1>4 DEF BoundInv
<1>7. \A i \in DOMAIN chunks' : Bounded(overlap, chunks'[i], 0)
  BY <1>1 DEF BoundInv
<1>8. \A i \in DOMAIN calls' : CallBounded(overlap', calls'[i])
  BY <1>1, <1>5
<1>9. \A i \in DOMAIN chunks' : Bounded(overlap', chunks'[i], 0)
  BY <1>1, <1>7
<1> QED BY <1>6, <1>8, <1>9 DEF BoundInv

(* A piece has only finer delimiters than the one it was cut at.           *)
LEMMA CutPieceBounds ==
  ASSUME SplitterInv, BoundInv, CutPiece PROVE BoundInv'
<1> DEFINE t == Call.rest
<1> DEFINE n == Len(calls)
<1> DEFINE S == {i \in DOMAIN t : t[i].sep = Call.level \/ i = Len(t)}
<1> DEFINE k == Least(S)
<1> DEFINE piece == SubSeq(t, 1, k)
<1> DEFINE rest == From(t, k)
<1> DEFINE after == [Call EXCEPT !.rest = rest]
<1>1. /\ Working /\ calls # <<>> /\ Call.level # 0 /\ t # <<>> /\ UNCHANGED <<overlap, text, chunks>>
      /\ calls' = IF Fits(piece)
                  THEN Become([after EXCEPT !.units = Append(@, piece)])
                  ELSE Append(Become(after), NewCall(piece))
  BY DEF CutPiece, Working, From
<1>2. Call \in CallRecord /\ CallPhase(Call) /\ overlap \in Overlaps
  BY <1>1, InnermostCall DEF SplitterInv, SplitterTypeOK
<1>3. t \in Seq(Word) /\ Len(t) \in Nat \ {0} /\ DOMAIN t = 1..Len(t)
  BY <1>1, <1>2, CallHas, EmptySeq, LenProperties
<1>4. k \in 1..Len(t) /\ \A i \in 1..(k - 1) : t[i].sep # Call.level
  <2>1. Len(t) \in S /\ S \subseteq 1..Len(t) /\ S \subseteq Nat
    BY <1>3
  <2>2. k \in S /\ \A m \in S : k <= m
    <3> HIDE DEF S
    <3> QED BY <2>1, LeastExists
  <2> HIDE DEF k
  <2>3. ASSUME NEW i \in 1..(k - 1) PROVE t[i].sep # Call.level
    <3>1. i \in DOMAIN t /\ ~(k <= i)
      BY <1>3, <2>1, <2>2
    <3> QED BY <2>2, <3>1
  <2> QED BY <2>1, <2>2, <2>3
<1> HIDE DEF k, S
<1>5. /\ piece \in Seq(Word) /\ Len(piece) = k /\ rest \in Seq(Word) /\ Len(rest) = Len(t) - k
      /\ \A i \in 1..k : piece[i] = t[i]
      /\ \A i \in 1..(Len(t) - k) : rest[i] = t[k + i]
  <2>1. k \in 0..Len(t)
    BY <1>3, <1>4
  <2> QED BY <1>3, <2>1, CutKeeps
<1>6. piece \in Text /\ piece # <<>>
  <2>1. Len(piece) # 0
    BY <1>3, <1>4, <1>5
  <2> HIDE DEF piece
  <2> QED BY <1>5, <2>1, EmptySeq DEF Text
<1> HIDE DEF piece, rest
<1>7. n \in Nat \ {0} /\ DOMAIN calls = 1..n /\ n \in DOMAIN calls /\ Call = calls[n]
  BY <1>1, InnermostCall DEF Call
<1>8. /\ after \in CallRecord /\ after.level = Call.level /\ after.rest = rest
      /\ after.units = Call.units /\ after.window = Call.window /\ after.done = Call.done
  BY <1>2, <1>5 DEF CallRecord
<1>9. ASSUME Plain(text)
      PROVE  /\ Plain(piece) /\ CallBounded(overlap, after)
             /\ \A i \in 1..(k - 1) : piece[i].sep > Call.level
             /\ \A j \in DOMAIN Call.units : Bounded(overlap, Call.units[j], Call.level)
  <2>1. CallBounded(overlap, Call)
    BY <1>7, <1>9 DEF BoundInv
  <2>2. /\ \A i \in 1..Len(t) : ~t[i].marks
        /\ \A i \in 1..(Len(t) - 1) : t[i].sep >= Call.level
    BY <1>3, <2>1 DEF CallBounded, Plain
  <2>3. Plain(piece)
    <3>1. DOMAIN piece = 1..k
      BY <1>5, LenProperties
    <3>2. \A i \in 1..k : i \in 1..Len(t)
      BY <1>3, <1>4
    <3> QED BY <1>5, <2>2, <3>1, <3>2 DEF Plain
  <2>4. Plain(rest)
    <3>1. DOMAIN rest = 1..(Len(t) - k)
      BY <1>5, LenProperties
    <3>2. \A i \in 1..(Len(t) - k) : k + i \in 1..Len(t)
      BY <1>3, <1>4
    <3> QED BY <1>5, <2>2, <3>1, <3>2 DEF Plain
  <2>5. \A i \in 1..(Len(rest) - 1) : rest[i].sep >= Call.level
    <3> SUFFICES ASSUME NEW i \in 1..(Len(rest) - 1) PROVE rest[i].sep >= Call.level
      OBVIOUS
    <3>1. i \in 1..(Len(t) - k) /\ k + i \in 1..(Len(t) - 1)
      BY <1>3, <1>4, <1>5
    <3>2. rest[i] = t[k + i]
      BY <1>5, <3>1
    <3>3. t[k + i].sep >= Call.level
      BY <2>2, <3>1
    <3> QED BY <3>2, <3>3
  <2>6. \A i \in 1..(k - 1) : piece[i].sep > Call.level
    <3> SUFFICES ASSUME NEW i \in 1..(k - 1) PROVE piece[i].sep > Call.level
      OBVIOUS
    <3>1. i \in 1..k /\ i \in 1..(Len(t) - 1) /\ i \in 1..Len(t)
      BY <1>3, <1>4
    <3>2. t[i].sep \in Nat /\ Call.level \in Nat
      <4>1. t[i].sep \in Levels /\ Call.level \in Levels
        BY <1>1, <1>2, <1>3, <3>1, WordIs, ReachIs DEF Word
      <4> QED BY <4>1, SettingsAreNumbers
    <3> QED BY <1>4, <1>5, <2>2, <3>1, <3>2
  <2>7. Reach(after) = Reach(Call)
    BY <1>8 DEF Reach
  <2>8. CallBounded(overlap, after)
    <3> HIDE DEF after
    <3> QED BY <1>8, <2>1, <2>4, <2>5, <2>7 DEF CallBounded
  <2> QED BY <2>1, <2>3, <2>6, <2>8 DEF CallBounded
<1>10. Call.level \in 0..Len(SepTokens)
  BY <1>2, ReachIs
<1>11. CASE Fits(piece)
  <2> DEFINE us == Append(Call.units, piece)
  <2> DEFINE c == [after EXCEPT !.units = Append(@, piece)]
  <2>1. calls' = Become(c)
    BY <1>1, <1>11
  <2>2. /\ us \in Seq(Text)
        /\ \A i \in 1..Len(Call.units) : us[i] = Call.units[i]
        /\ us[Len(Call.units) + 1] = piece
        /\ DOMAIN us = DOMAIN Call.units \union {Len(Call.units) + 1}
        /\ DOMAIN Call.units = 1..Len(Call.units)
    BY <1>2, <1>6, CallHas, TextAppended, LenProperties
  <2>3. /\ c \in CallRecord /\ c.level = after.level /\ c.rest = after.rest /\ c.units = us
        /\ c.window = after.window /\ c.done = after.done
    <3>1. c = [after EXCEPT !.units = us]
      BY <1>8
    <3> HIDE DEF us, after
    <3> QED BY <1>8, <2>2, <3>1 DEF CallRecord
  <2> HIDE DEF c, us, after
  <2>4. ASSUME Plain(text) PROVE CallBounded(overlap, c)
    <3>1. Bounded(overlap, piece, Call.level)
      BY <1>2, <1>5, <1>10, <1>11, FittingIsBounded
    <3>2. \A j \in DOMAIN us : Bounded(overlap, us[j], Call.level)
      BY <1>9, <2>2, <2>4, <3>1
    <3>3. Reach(c) = Reach(after) /\ CallBounded(overlap, after)
      BY <1>9, <2>3, <2>4 DEF Reach
    <3> QED BY <1>8, <2>3, <3>2, <3>3 DEF CallBounded
  <2> QED BY <1>1, <1>8, <2>1, <2>3, <2>4, BoundsGoOn
<1>12. CASE ~Fits(piece)
  <2> DEFINE new == NewCall(piece)
  <2>1. calls' = Append(Become(after), new)
    BY <1>1, <1>12
  <2>2. /\ Become(after) \in Seq(CallRecord) /\ DOMAIN Become(after) = DOMAIN calls
        /\ Len(Become(after)) = n
        /\ \A i \in DOMAIN calls : Become(after)[i] = IF i = n THEN after ELSE calls[i]
    BY <1>1, <1>8, Becoming
  <2>3. calls' \in Seq(CallRecord)
    BY CutPieceKeeps DEF SplitterInv, SplitterTypeOK
  <2> HIDE DEF new, after, n
  <2>4. /\ DOMAIN calls' = 1..(n + 1) /\ calls'[n + 1] = new /\ calls'[n] = after
        /\ \A i \in 1..(n - 1) : calls'[i] = calls[i]
    <3>1. /\ Len(calls') = n + 1 /\ calls'[n + 1] = new
          /\ \A i \in 1..n : calls'[i] = Become(after)[i]
      BY <2>1, <2>2, AppendProperties
    <3>2. DOMAIN calls' = 1..(n + 1)
      BY <2>3, <3>1, LenProperties
    <3>3. n \in 1..n /\ \A i \in 1..(n - 1) : i \in 1..n /\ i # n
      BY <1>7
    <3> QED BY <1>7, <2>2, <3>1, <3>2, <3>3
  <2>5. \A i \in DOMAIN calls' : i \in 1..(n - 1) \/ i = n \/ i = n + 1
    BY <1>7, <2>4
  <2>6. \A i \in 1..(n - 1) : i \in DOMAIN calls /\ i < n
    BY <1>7
  <2>7. new \in CallRecord
    <3>1. n + 1 \in 1..(n + 1)
      BY <1>7
    <3> QED BY <2>3, <2>4, <3>1, ElementOfSeq, LenProperties
  <2> SUFFICES ASSUME Plain(text) PROVE BoundInv'
    BY <1>1 DEF BoundInv
  <2>8. CallBounded(overlap, new)
    BY <1>6, <1>9, NewCallBounded DEF new
  <2>9. Call.level <= Reach(new)
    <3>1. CASE Len(piece) = 1
      <4>1. new.level = 0
        BY <1>6, <1>9, <3>1, NewCallBounded DEF new
      <4> QED BY <1>10, <4>1 DEF Reach
    <3>2. CASE Len(piece) # 1
      <4>1. PICK i \in 1..(k - 1) : new.level = piece[i].sep
        BY <1>5, <1>6, <1>9, <3>2, NewCallBounded DEF new
      <4>2. new.level > Call.level
        BY <1>9, <4>1
      <4>3. new.level \in 0..Len(SepTokens)
        BY <2>7, ReachIs
      <4> QED BY <1>10, <4>2, <4>3, LevelsAre DEF Reach
    <3> QED BY <3>1, <3>2
  <2>10. Reach(after) = Reach(Call) /\ Reach(Call) \in 0..Len(SepTokens)
    BY <1>2, <1>8, ReachIs DEF Reach
  <2>11. \A i \in DOMAIN calls' : CallBounded(overlap', calls'[i])
    BY <1>1, <1>9, <2>4, <2>5, <2>6, <2>8 DEF BoundInv
  <2>12. ASSUME NEW i \in DOMAIN calls', NEW j \in DOMAIN calls', i < j
         PROVE  calls'[i].level <= Reach(calls'[j])
    <3>1. CASE j \in 1..(n - 1)
      <4>1. i \in 1..(n - 1)
        BY <1>7, <2>5, <2>12, <3>1
      <4> QED BY <2>4, <2>6, <2>12, <3>1, <4>1 DEF BoundInv
    <3>2. CASE j = n
      <4>1. i \in 1..(n - 1)
        BY <1>7, <2>5, <2>12, <3>2
      <4> QED BY <1>7, <2>4, <2>6, <2>10, <2>12, <3>2, <4>1 DEF BoundInv
    <3>3. CASE j = n + 1
      <4>1. CASE i \in 1..(n - 1)
        <5>1. calls'[i].level = calls[i].level /\ calls[i].level <= Reach(Call)
          BY <1>7, <2>4, <2>6, <4>1 DEF BoundInv
        <5>2. calls[i].level \in 0..Len(SepTokens)
          BY <1>1, <2>6, <4>1, InnermostCall, ReachIs
        <5>3. Reach(Call) <= Call.level
          BY <1>1, <1>2, ReachIs
        <5>4. Reach(new) \in 0..Len(SepTokens)
          BY <2>7, ReachIs
        <5> QED BY <1>10, <2>4, <2>9, <2>10, <3>3, <5>1, <5>2, <5>3, <5>4, LevelsAre
      <4>2. CASE i = n
        BY <1>8, <2>4, <2>9, <3>3, <4>2
      <4> QED BY <1>7, <2>5, <2>12, <3>3, <4>1, <4>2
    <3> QED BY <2>5, <3>1, <3>2, <3>3
  <2>13. chunks' = chunks /\ overlap' = overlap
    BY <1>1
  <2>14. \A i \in DOMAIN chunks' : Bounded(overlap', chunks'[i], 0)
    BY <2>13 DEF BoundInv
  <2> QED BY <2>11, <2>12, <2>14 DEF BoundInv
<1> QED BY <1>11, <1>12

(* A slice of a word of letters fits.                                      *)
LEMMA SliceWordBounds ==
  ASSUME SplitterInv, BoundInv, SliceWord PROVE BoundInv'
<1> DEFINE w == Call.rest[1]
<1> DEFINE s == FirstSlice(w)
<1> DEFINE v == [w EXCEPT !.first = @ + Advance]
<1> DEFINE rest == IF s.last = w.last THEN <<>> ELSE <<v>>
<1> DEFINE ds == Append(Call.done, <<s>>)
<1> DEFINE c == [Call EXCEPT !.done = Append(@, <<s>>), !.rest = rest]
<1>1. /\ Working /\ calls # <<>> /\ Call.level = 0 /\ Call.rest # <<>>
      /\ UNCHANGED <<overlap, text, chunks>> /\ calls' = Become(c)
  BY DEF SliceWord, Working
<1>2. /\ Call \in CallRecord /\ CallPhase(Call) /\ overlap \in Overlaps
      /\ Len(calls) \in DOMAIN calls /\ Call = calls[Len(calls)]
  BY <1>1, InnermostCall DEF SplitterInv, SplitterTypeOK, Call
<1>3. /\ Call.rest \in Seq(Word) /\ DOMAIN Call.rest = 1..Len(Call.rest)
      /\ 1 \in 1..Len(Call.rest) /\ Call.done \in Seq(Text)
      /\ Call.units = <<>> /\ Call.window = <<>>
  <2>1. Call.rest \in Seq(Word) /\ Call.done \in Seq(Text) /\ Call.units = <<>> /\ Call.window = <<>>
    BY <1>1, <1>2, CallHas DEF CallPhase
  <2>2. Len(Call.rest) \in Nat \ {0}
    BY <1>1, <2>1, EmptySeq
  <2> QED BY <2>1, <2>2, LenProperties
<1>4. w \in Word /\ w.first \in Nat /\ w.last \in Nat /\ w.first <= w.last
  BY <1>3, WordIs
<1>5. Step \in Nat \ {0} /\ Advance \in 1..Step /\ Step <= MaxCharacters
  BY <1>2, SettingsAreNumbers DEF Step, Smaller
<1> HIDE DEF w
<1>6. /\ s \in Word /\ s.first = w.first /\ s.last <= w.first + Step - 1 /\ s.marks = w.marks
      /\ s.last \in Nat /\ (s.last # w.last => s.last < w.last /\ s.last = w.first + Step - 1)
  <2>1. /\ Smaller(w.last, w.first + Step - 1) \in w.first .. w.last
        /\ Smaller(w.last, w.first + Step - 1) <= w.first + Step - 1
        /\ (Smaller(w.last, w.first + Step - 1) # w.last =>
             /\ Smaller(w.last, w.first + Step - 1) < w.last
             /\ Smaller(w.last, w.first + Step - 1) = w.first + Step - 1)
    BY <1>4, <1>5 DEF Smaller
  <2> QED BY <1>4, <2>1 DEF FirstSlice, Word
<1>7. s.last # w.last => v \in Word /\ v.marks = w.marks
  <2>1. s.last # w.last => w.first + Advance \in Nat /\ w.first + Advance <= w.last
    BY <1>4, <1>5, <1>6
  <2> QED BY <1>4, <2>1 DEF Word
<1> HIDE DEF s, v
<1>8. rest \in Seq(Word) /\ Len(rest) <= 1
  <2>1. <<>> \in Seq(Word) /\ Len(<<>>) = 0
    BY NoTexts
  <2>2. s.last # w.last => <<v>> \in Seq(Word) /\ Len(<<v>>) = 1
    BY <1>7, OneWord
  <2> QED BY <2>1, <2>2
<1>9. <<s>> \in Text /\ <<s>> \in Seq(Word)
  BY <1>6, OneWord
<1>10. /\ ds \in Seq(Text)
       /\ \A i \in 1..Len(Call.done) : ds[i] = Call.done[i]
       /\ ds[Len(Call.done) + 1] = <<s>>
       /\ DOMAIN ds = DOMAIN Call.done \union {Len(Call.done) + 1}
       /\ DOMAIN Call.done = 1..Len(Call.done)
  BY <1>3, <1>9, TextAppended, LenProperties
<1>11. /\ c \in CallRecord /\ c.level = 0 /\ c.rest = rest /\ c.units = <<>>
       /\ c.window = <<>> /\ c.done = ds
  <2> HIDE DEF rest
  <2> QED BY <1>1, <1>2, <1>3, <1>8, <1>10 DEF CallRecord
<1>12. ASSUME Plain(text) PROVE CallBounded(overlap, c)
  <2>1. CallBounded(overlap, Call)
    BY <1>2, <1>12 DEF BoundInv
  <2>2. ~w.marks
    BY <1>3, <2>1 DEF CallBounded, Plain, w
  <2>3. Plain(rest)
    <3>1. CASE s.last = w.last
      BY <3>1, NoTexts DEF Plain
    <3>2. CASE s.last # w.last
      <4>1. Len(<<v>>) = 1 /\ <<v>>[1] = v /\ DOMAIN <<v>> = {1}
        BY <1>7, <3>2, OneWord, LenProperties
      <4> QED BY <1>7, <2>2, <3>2, <4>1 DEF Plain
    <3> QED BY <3>1, <3>2
  <2>4. Fits(<<s>>)
    <3>1. Tokens(<<s>>) = WordTokens(s) /\ Length(<<s>>) = WordLength(s)
      BY <1>6, MeasuresOfWord
    <3>2. WordTokens(s) = 1
      BY <1>6, <2>2 DEF WordTokens
    <3>3. WordLength(s) <= Step
      BY <1>4, <1>5, <1>6 DEF WordLength
    <3>4. MaxChunkTokens \in Nat \ {0} /\ MaxCharacters \in Nat /\ WordLength(s) \in Nat
      BY <1>6, SettingsAreNumbers, WordIsWorth
    <3> QED BY <1>5, <3>1, <3>2, <3>3, <3>4 DEF Fits
  <2>5. Reach(c) = Len(SepTokens) /\ Reach(Call) = Len(SepTokens)
    BY <1>1, <1>11 DEF Reach
  <2>6. Bounded(overlap, <<s>>, Len(SepTokens))
    <3>1. Len(SepTokens) \in 0..Len(SepTokens)
      BY LevelsAre
    <3> QED BY <1>2, <1>9, <2>4, <3>1, FittingIsBounded
  <2>7. \A j \in DOMAIN ds : Bounded(overlap, ds[j], Len(SepTokens))
    <3>1. \A j \in DOMAIN Call.done : Bounded(overlap, Call.done[j], Len(SepTokens))
      BY <2>1, <2>5 DEF CallBounded
    <3> HIDE DEF ds
    <3> QED BY <1>10, <2>6, <3>1
  <2>8. 1..(Len(rest) - 1) = {}
    <3>1. Len(rest) \in Nat
      BY <1>8, LenProperties
    <3> HIDE DEF rest
    <3> QED BY <1>8, <3>1
  <2> HIDE DEF c, ds, rest
  <2> QED BY <1>11, <2>3, <2>5, <2>7, <2>8, NoTexts DEF CallBounded
<1> HIDE DEF c
<1> QED BY <1>1, <1>11, <1>12, BoundsGoOn

(* A window takes a unit with what is kept before it.                      *)
LEMMA MergeUnitBounds ==
  ASSUME SplitterInv, BoundInv, MergeUnit PROVE BoundInv'
<1> DEFINE t == Call.window
<1> DEFINE u == Head(Call.units)
<1> DEFINE l == Call.level
<1> DEFINE full == Overfull(Call, u)
<1> DEFINE k == IF full THEN Dropped(Call) ELSE 0
<1> DEFINE kept == From(t, k)
<1> DEFINE joined == Glue(kept, l, u)
<1> DEFINE cuts == {j - k : j \in {i \in Call.cuts : i > k}} \union {Len(kept) + Len(u)}
<1> DEFINE ds == IF full THEN Append(Call.done, t) ELSE Call.done
<1> DEFINE c == [Call EXCEPT !.units = Tail(@), !.done = ds, !.window = joined, !.cuts = cuts]
<1>1. /\ Working /\ calls # <<>> /\ Call.rest = <<>> /\ Call.units # <<>>
      /\ UNCHANGED <<overlap, text, chunks>> /\ calls' = Become(c)
  BY DEF MergeUnit, Working
<1>2. /\ Call \in CallRecord /\ CallPhase(Call) /\ overlap \in Overlaps
      /\ Len(calls) \in DOMAIN calls /\ DOMAIN calls = 1..Len(calls) /\ Call = calls[Len(calls)]
  BY <1>1, InnermostCall DEF SplitterInv, SplitterTypeOK, Call
<1>3. /\ t \in Seq(Word) /\ Call.units \in Seq(Text) /\ Call.done \in Seq(Text)
      /\ l \in Levels /\ l # 0
  <2>1. l # 0
    BY <1>1, <1>2 DEF CallPhase
  <2> QED BY <1>2, <2>1, CallHas
<1>4. /\ u \in Text /\ u = Call.units[1] /\ 1 \in DOMAIN Call.units
      /\ Tail(Call.units) \in Seq(Text)
      /\ \A i \in DOMAIN Tail(Call.units) :
           i + 1 \in DOMAIN Call.units /\ Tail(Call.units)[i] = Call.units[i + 1]
  BY <1>1, <1>3, FirstTaken
<1>5. full => t # <<>>
  BY DEF Overfull
<1>6. k \in 0..Len(t) /\ (full => Tokens(kept) <= overlap)
  <2>1. Dropped(Call) \in 0..Len(t) /\ Tokens(From(t, Dropped(Call))) <= overlap
    BY <1>2, DroppedIsInWindow
  <2>2. 0 \in 0..Len(t)
    BY <1>3, LenProperties
  <2> HIDE DEF full
  <2> QED BY <2>1, <2>2
<1>7. kept \in Seq(Word) /\ (k = 0 => kept = t)
  <2>1. From(t, k) \in Seq(Word)
    BY <1>3, <1>6, CutKeeps
  <2>2. From(t, 0) = t
    <3>1. 0 \in 0..Len(t) /\ Len(t) \in Nat
      BY <1>3, LenProperties
    <3>2. /\ From(t, 0) \in Seq(Word) /\ Len(From(t, 0)) = Len(t) - 0
          /\ \A i \in 1..(Len(t) - 0) : From(t, 0)[i] = t[0 + i]
      BY <1>3, <3>1, CutKeeps
    <3>3. Len(From(t, 0)) = Len(t) /\ \A i \in 1..Len(t) : From(t, 0)[i] = t[i]
      BY <3>1, <3>2
    <3> QED BY <1>3, <3>2, <3>3, SeqEqual
  <2> QED BY <2>1, <2>2
<1>8. ~full /\ t # <<>> => Fits(joined)
  <2> SUFFICES ASSUME ~full, t # <<>> PROVE Fits(joined)
    OBVIOUS
  <2>1. k = 0
    OBVIOUS
  <2>2. kept = t
    BY <1>7, <2>1
  <2> QED BY <2>2 DEF Overfull
<1> HIDE DEF k, kept
<1>9. joined \in Text /\ joined \in Seq(Word)
  BY <1>3, <1>4, <1>7, GlueJoins DEF Text
<1>10. /\ ds \in Seq(Text)
       /\ \A i \in DOMAIN ds : (i \in DOMAIN Call.done /\ ds[i] = Call.done[i]) \/ (full /\ ds[i] = t)
  <2>1. CASE full
    <3>1. t \in Text
      BY <1>3, <1>5, <2>1 DEF Text
    <3>2. /\ Append(Call.done, t) \in Seq(Text)
          /\ \A i \in 1..Len(Call.done) : Append(Call.done, t)[i] = Call.done[i]
          /\ Append(Call.done, t)[Len(Call.done) + 1] = t
          /\ DOMAIN Append(Call.done, t) = DOMAIN Call.done \union {Len(Call.done) + 1}
          /\ DOMAIN Call.done = 1..Len(Call.done)
      BY <1>3, <3>1, TextAppended, LenProperties
    <3>3. ds = Append(Call.done, t)
      BY <2>1
    <3> HIDE DEF ds
    <3> QED BY <2>1, <3>2, <3>3
  <2>2. CASE ~full
    BY <1>3, <2>2
  <2> QED BY <2>1, <2>2
<1> HIDE DEF joined, full
<1>11. /\ c \in CallRecord /\ c.level = l /\ c.rest = <<>> /\ c.units = Tail(Call.units)
       /\ c.window = joined /\ c.done = ds
  <2>1. calls' \in Seq(CallRecord)
    BY MergeUnitKeeps DEF SplitterInv, SplitterTypeOK
  <2>2. /\ c.level = l /\ c.rest = <<>> /\ c.units = Tail(Call.units)
        /\ c.window = joined /\ c.done = ds
    <3> HIDE DEF ds, cuts
    <3> QED BY <1>1, <1>2 DEF CallRecord
  <2>3. calls' = [calls EXCEPT ![Len(calls)] = c]
    BY <1>1 DEF Become
  <2> HIDE DEF c
  <2>4. calls'[Len(calls)] = c /\ Len(calls) \in DOMAIN calls'
    BY <1>2, <2>3
  <2>5. c \in CallRecord
    <3>1. DOMAIN calls' = 1..Len(calls')
      BY <2>1, LenProperties
    <3> QED BY <2>1, <2>4, <3>1, ElementOfSeq
  <2> QED BY <2>2, <2>5
<1>12. Reach(Call) = l - 1 /\ l \in 0..Len(SepTokens) /\ l - 1 \in 0..Len(SepTokens) /\ l \in Nat
  BY <1>3, LevelsAre DEF Reach
<1>13. Reach(c) = l - 1
  BY <1>3, <1>11 DEF Reach
<1>14. ASSUME Plain(text) PROVE CallBounded(overlap, c)
  <2>1. CallBounded(overlap, Call)
    BY <1>2, <1>14 DEF BoundInv
  <2>2. Bounded(overlap, u, l)
    BY <1>4, <2>1 DEF CallBounded
  <2>3. t # <<>> => Bounded(overlap, t, l - 1)
    BY <1>12, <2>1 DEF CallBounded
  <2>4. Bounded(overlap, u, l - 1)
    <3>1. u \in Seq(Word) /\ l - 1 <= l
      BY <1>4, <1>12 DEF Text
    <3> QED BY <1>2, <1>12, <2>2, <3>1, BoundLoosens
  <2>5. Bounded(overlap, joined, l - 1)
    <3>1. CASE kept = <<>>
      <4>1. joined = u
        BY <3>1 DEF joined, Glue
      <4> QED BY <2>4, <4>1
    <3>2. CASE kept # <<>> /\ ~full
      <4>1. t # <<>>
        BY <1>7, <3>2 DEF k
      <4>2. Fits(joined)
        BY <1>8, <3>2, <4>1
      <4> QED BY <1>2, <1>9, <1>12, <4>2, FittingIsBounded
    <3>3. CASE kept # <<>> /\ full
      <4>1. kept \in Text
        BY <1>7, <3>3 DEF Text
      <4>2. Tokens(kept) >= 1 /\ Tokens(kept) <= overlap /\ Tokens(kept) \in Nat
        BY <1>6, <1>7, <3>3, <4>1, TokensOfText
      <4>3. overlap \in Nat /\ overlap # 0
        BY <1>2, <4>2, AllowanceIs
      <4>4. Tokens(joined) = Tokens(kept) + SepTokens[l] + Tokens(u)
        BY <1>3, <1>4, <4>1, TokensOfGlue DEF joined
      <4>5. /\ UpTo(Allowance(overlap))[l]
                 = UpTo(Allowance(overlap))[l - 1] + overlap + SepTokens[l]
            /\ UpTo(Allowance(overlap))[l - 1] \in Nat /\ SumSeq(Allowance(overlap)) \in Nat
        BY <1>2, <1>3, <1>12, AllowanceIs
      <4>6. SepTokens[l] \in Nat /\ Tokens(u) \in Nat /\ MaxChunkTokens \in Nat
        BY <1>3, <1>4, LevelsAre, TokensOfText, SettingsAssumption DEF Text
      <4>7. Tokens(u) + UpTo(Allowance(overlap))[l] <= MaxChunkTokens + SumSeq(Allowance(overlap))
        BY <2>2 DEF Bounded
      <4>8. Tokens(joined) + UpTo(Allowance(overlap))[l - 1]
              <= MaxChunkTokens + SumSeq(Allowance(overlap))
        BY <4>2, <4>3, <4>4, <4>5, <4>6, <4>7
      <4> QED BY <4>3, <4>8 DEF Bounded
    <3> QED BY <3>1, <3>2, <3>3
  <2>6. \A j \in DOMAIN ds : Bounded(overlap, ds[j], l - 1)
    <3>1. \A j \in DOMAIN Call.done : Bounded(overlap, Call.done[j], l - 1)
      BY <1>12, <2>1 DEF CallBounded
    <3> QED BY <1>5, <1>10, <2>3, <3>1
  <2>7. \A j \in DOMAIN Tail(Call.units) : Bounded(overlap, Tail(Call.units)[j], l)
    BY <1>4, <2>1 DEF CallBounded
  <2>8. Plain(<<>>) /\ 1..(Len(<<>>) - 1) = {}
    BY NoTexts DEF Plain
  <2> HIDE DEF c, ds, u, l
  <2> QED BY <1>11, <1>13, <2>5, <2>6, <2>7, <2>8 DEF CallBounded
<1> HIDE DEF c
<1> QED BY <1>1, <1>11, <1>14, BoundsGoOn

(* The chunks a call returns are units of the call before it.              *)
LEMMA ReturnCallBounds ==
  ASSUME SplitterInv, BoundInv, ReturnCall PROVE BoundInv'
<1> DEFINE n == Len(calls)
<1> DEFINE r == Result(Call)
<1>1. /\ Working /\ calls # <<>> /\ Call.rest = <<>> /\ Call.units = <<>>
      /\ UNCHANGED <<overlap, text>>
      /\ IF n = 1 THEN calls' = <<>> /\ chunks' = r
         ELSE /\ calls' = [Front(calls) EXCEPT ![n - 1].units = @ \o r]
              /\ UNCHANGED chunks
  BY DEF ReturnCall, Working
<1>2. /\ n \in Nat \ {0} /\ DOMAIN calls = 1..n /\ n \in DOMAIN calls /\ Call = calls[n]
      /\ \A i \in DOMAIN calls : calls[i] \in CallRecord
      /\ Call \in CallRecord /\ CallOrder(Call) /\ CallPhase(Call)
      /\ calls \in Seq(CallRecord) /\ overlap \in Overlaps
  BY <1>1, InnermostCall DEF Call, SplitterInv, SplitterTypeOK
<1>3. r \in Seq(Text)
  BY <1>1, <1>2, ResultIs
<1> SUFFICES ASSUME Plain(text) PROVE BoundInv'
  BY <1>1 DEF BoundInv
<1>4. \A i \in DOMAIN r : Bounded(overlap, r[i], Reach(Call))
  <2>1. CallBounded(overlap, Call)
    BY <1>2 DEF BoundInv
  <2>2. CASE Call.window = <<>>
    BY <2>1, <2>2 DEF Result, CallBounded
  <2>3. CASE Call.window # <<>>
    <3>1. Call.window \in Text /\ Call.done \in Seq(Text)
      BY <1>2, <2>3, CallHas DEF Text
    <3>2. /\ \A i \in 1..Len(Call.done) : Append(Call.done, Call.window)[i] = Call.done[i]
          /\ Append(Call.done, Call.window)[Len(Call.done) + 1] = Call.window
          /\ DOMAIN Append(Call.done, Call.window) = DOMAIN Call.done \union {Len(Call.done) + 1}
          /\ DOMAIN Call.done = 1..Len(Call.done)
      BY <3>1, TextAppended, LenProperties
    <3>3. r = Append(Call.done, Call.window)
      BY <2>3 DEF Result
    <3> HIDE DEF r
    <3> QED BY <2>1, <2>3, <3>2, <3>3 DEF CallBounded
  <2> QED BY <2>2, <2>3
<1>5. Reach(Call) \in 0..Len(SepTokens)
  BY <1>2, ReachIs
<1>6. \A i \in DOMAIN r : r[i] \in Seq(Word)
  <2>1. DOMAIN r = 1..Len(r)
    BY <1>3, LenProperties
  <2> HIDE DEF r
  <2> QED BY <1>3, <2>1, ElementOfSeq DEF Text
<1> HIDE DEF r
<1>7. CASE n = 1
  <2>1. calls' = <<>> /\ chunks' = r /\ overlap' = overlap
    BY <1>1, <1>7
  <2>2. DOMAIN calls' = {}
    BY <2>1, NoTexts
  <2>3. \A i \in DOMAIN r : Bounded(overlap, r[i], 0)
    <3>1. 0 \in 0..Len(SepTokens) /\ 0 <= Reach(Call)
      BY <1>5
    <3> QED BY <1>2, <1>4, <1>5, <1>6, <3>1, BoundLoosens
  <2> QED BY <2>1, <2>2, <2>3 DEF BoundInv
<1>8. CASE n # 1
  <2> DEFINE p == calls[n - 1]
  <2> DEFINE c == [p EXCEPT !.units = @ \o r]
  <2>1. n - 1 \in 1..n /\ n - 1 \in Nat \ {0} /\ n - 1 < n
    <3>1. \A m \in Nat \ {0} : m # 1 => m - 1 \in 1..m /\ m - 1 \in Nat \ {0} /\ m - 1 < m
      OBVIOUS
    <3> HIDE DEF n
    <3> QED BY <1>2, <1>8, <3>1
  <2>2. p \in CallRecord /\ n - 1 \in DOMAIN calls
    BY <1>2, <2>1
  <2>3. CallBounded(overlap, p) /\ p.level <= Reach(Call)
    BY <1>2, <2>1, <2>2 DEF BoundInv
  <2>4. p.level \in 0..Len(SepTokens) /\ p.units \in Seq(Text)
    BY <2>2, ReachIs, CallHas
  <2>5. \A i \in DOMAIN r : Bounded(overlap, r[i], p.level)
    BY <1>2, <1>4, <1>5, <1>6, <2>3, <2>4, BoundLoosens
  <2>6. /\ Front(calls) = SubSeq(calls, 1, n - 1)
        /\ Len(Front(calls)) = n - 1 /\ DOMAIN Front(calls) = 1..(n - 1)
        /\ \A i \in 1..(n - 1) : Front(calls)[i] = calls[i]
    <3>1. \A i \in 1..(n - 1) : calls[i] \in CallRecord
      BY <1>2, <2>1
    <3>2. 1 \in Int /\ n - 1 \in Int
      BY <2>1
    <3>3. /\ SubSeq(calls, 1, n - 1) \in Seq(CallRecord)
          /\ Len(SubSeq(calls, 1, n - 1)) = IF 1 <= n - 1 THEN n - 1 - 1 + 1 ELSE 0
          /\ \A i \in 1..(n - 1 - 1 + 1) : SubSeq(calls, 1, n - 1)[i] = calls[1 + i - 1]
      <4> HIDE DEF n
      <4> QED BY <3>1, <3>2, SubSeqProperties
    <3>4. Front(calls) = SubSeq(calls, 1, n - 1)
      BY DEF Front
    <3> HIDE DEF n
    <3>5. n - 1 - 1 + 1 = n - 1 /\ 1 <= n - 1 /\ \A i \in 1..(n - 1) : 1 + i - 1 = i
      BY <2>1
    <3> QED BY <3>3, <3>4, <3>5, LenProperties
  <2>7. c.level = p.level /\ c.rest = p.rest /\ c.units = p.units \o r
        /\ c.window = p.window /\ c.done = p.done
    <3> HIDE DEF p
    <3> QED BY <2>2 DEF CallRecord
  <2>8. /\ DOMAIN calls' = 1..(n - 1) /\ chunks' = chunks /\ overlap' = overlap
        /\ \A i \in 1..(n - 1) : calls'[i] = IF i = n - 1 THEN c ELSE calls[i]
    <3>1. n - 1 \in 1..(n - 1)
      BY <2>1
    <3>2. calls' = [Front(calls) EXCEPT ![n - 1] = c]
      BY <1>1, <1>8, <2>6, <3>1
    <3> HIDE DEF c, n
    <3> QED BY <1>1, <1>8, <2>6, <3>2 DEF n
  <2> HIDE DEF c
  <2>9. \A i \in DOMAIN (p.units \o r) : Bounded(overlap, (p.units \o r)[i], p.level)
    <3> SUFFICES ASSUME NEW i \in DOMAIN (p.units \o r)
                 PROVE  Bounded(overlap, (p.units \o r)[i], p.level)
      OBVIOUS
    <3>1. /\ Len(p.units) \in Nat /\ Len(r) \in Nat /\ DOMAIN p.units = 1..Len(p.units)
          /\ DOMAIN r = 1..Len(r)
      BY <1>3, <2>4, LenProperties
    <3>2. /\ p.units \o r \in Seq(Text) /\ Len(p.units \o r) = Len(p.units) + Len(r)
          /\ \A m \in 1..(Len(p.units) + Len(r)) :
               (p.units \o r)[m] = IF m <= Len(p.units) THEN p.units[m] ELSE r[m - Len(p.units)]
      BY <1>3, <2>4, ConcatProperties
    <3>3. i \in 1..(Len(p.units) + Len(r))
      BY <3>2, LenProperties
    <3>4. CASE i <= Len(p.units)
      <4>1. i \in DOMAIN p.units /\ (p.units \o r)[i] = p.units[i]
        BY <3>1, <3>2, <3>3, <3>4
      <4> QED BY <2>3, <4>1 DEF CallBounded
    <3>5. CASE ~(i <= Len(p.units))
      <4>1. i - Len(p.units) \in DOMAIN r /\ (p.units \o r)[i] = r[i - Len(p.units)]
        BY <3>1, <3>2, <3>3, <3>5
      <4> QED BY <2>5, <4>1
    <3> QED BY <3>4, <3>5
  <2>10. CallBounded(overlap, c) /\ Reach(c) = Reach(p)
    <3>1. Reach(c) = Reach(p)
      BY <2>7 DEF Reach
    <3> HIDE DEF p
    <3> QED BY <2>3, <2>7, <2>9, <3>1 DEF CallBounded
  <2>11. \A i \in DOMAIN calls' : /\ i \in DOMAIN calls /\ CallBounded(overlap, calls'[i])
                                  /\ calls'[i].level = calls[i].level
                                  /\ Reach(calls'[i]) = Reach(calls[i])
    <3> SUFFICES ASSUME NEW i \in DOMAIN calls'
                 PROVE  /\ i \in DOMAIN calls /\ CallBounded(overlap, calls'[i])
                        /\ calls'[i].level = calls[i].level
                        /\ Reach(calls'[i]) = Reach(calls[i])
      OBVIOUS
    <3>1. i \in DOMAIN calls
      <4>1. \A m \in Nat \ {0} : \A x \in 1..(m - 1) : x \in 1..m
        OBVIOUS
      <4>2. i \in 1..(n - 1)
        BY <2>8
      <4> HIDE DEF n
      <4> QED BY <1>2, <4>1, <4>2
    <3>2. CASE i = n - 1
      BY <2>7, <2>8, <2>10, <3>1, <3>2
    <3>3. CASE i # n - 1
      BY <2>8, <3>1, <3>3 DEF BoundInv
    <3> QED BY <3>2, <3>3
  <2> QED BY <2>8, <2>11 DEF BoundInv
<1> QED BY <1>7, <1>8

LEMMA SplitChunkBounds ==
  ASSUME SplitterInv, BoundInv, SplitChunk PROVE BoundInv'
<1>1. text # <<>> /\ calls = <<>> /\ chunks = <<>> /\ UNCHANGED <<overlap, text>>
  BY DEF SplitChunk
<1>2. text \in Text /\ overlap \in Overlaps
  BY <1>1, TextsAssumption DEF SplitterInv, SplitterTypeOK, Text
<1> SUFFICES ASSUME Plain(text) PROVE BoundInv'
  BY <1>1 DEF BoundInv
<1>3. CASE Fits(text)
  <2>1. calls' = <<>> /\ chunks' = <<text>>
    BY <1>1, <1>3 DEF SplitChunk
  <2>2. DOMAIN calls' = {}
    BY <2>1, NoTexts
  <2>3. DOMAIN chunks' = {1} /\ chunks'[1] = text
    BY <1>2, <2>1, OneText
  <2>4. Bounded(overlap, text, 0)
    <3>1. 0 \in 0..Len(SepTokens) /\ text \in Seq(Word)
      BY <1>2, LevelsAre DEF Text
    <3> QED BY <1>2, <1>3, <3>1, FittingIsBounded
  <2> QED BY <1>1, <2>2, <2>3, <2>4 DEF BoundInv
<1>4. CASE ~Fits(text)
  <2> DEFINE c == NewCall(text)
  <2>1. calls' = <<c>> /\ chunks' = <<>>
    BY <1>1, <1>4 DEF SplitChunk
  <2>2. CallBounded(overlap, c)
    BY <1>2, NewCallBounded
  <2> HIDE DEF c
  <2>3. DOMAIN calls' = {1} /\ calls'[1] = c
    <3>1. calls' \in Seq(CallRecord) /\ Len(calls') = 1 /\ calls'[1] = c
      BY <2>1, SplitChunkKeeps DEF SplitterInv, SplitterTypeOK
    <3> QED BY <3>1, LenProperties
  <2>4. DOMAIN chunks' = {}
    BY <2>1, NoTexts
  <2>5. \A i, j \in DOMAIN calls' : ~(i < j)
    BY <2>3
  <2> QED BY <1>1, <2>2, <2>3, <2>4, <2>5 DEF BoundInv
<1> QED BY <1>3, <1>4

LEMMA BoundNextKeeps ==
  ASSUME SplitterInv, BoundInv, [ParserNext]_<<splitterVars, parserVars>> PROVE BoundInv'
<1>1. CASE ReadElement
  <2>1. calls = <<>> /\ chunks = <<>> /\ UNCHANGED <<calls, chunks>>
    BY <1>1 DEF ReadElement, SplitterInv
  <2> QED BY <2>1, NoTexts DEF BoundInv
<1>2. CASE EmitChunks
  <2>1. calls' = <<>> /\ chunks' = <<>>
    BY <1>2 DEF EmitChunks, SplitterInv
  <2> QED BY <2>1, NoTexts DEF BoundInv
<1>3. CASE SplitStep
  BY <1>3, SplitChunkBounds, CutPieceBounds, SliceWordBounds, MergeUnitBounds, ReturnCallBounds
  DEF SplitStep
<1>4. CASE UNCHANGED vars
  BY <1>4 DEF vars, BoundInv
<1> QED BY <1>1, <1>2, <1>3, <1>4, SplitterSteps

(* Without runs of marks a chunk exceeds its tokens by at most an overlap  *)
(* and a delimiter for each level of the hierarchy, and without overlap    *)
(* neither limit is exceeded.                                              *)
THEOREM ExcessIsWithinBound == ParserSpec => []ExcessIsBounded
<1>1. ParserInit => BoundInv
  <2> SUFFICES ASSUME Init PROVE BoundInv
    BY DEF ParserInit
  <2>1. calls = <<>> /\ chunks = <<>>
    BY DEF Init
  <2> QED BY <2>1, NoTexts DEF BoundInv
<1>2. SplitterInv /\ BoundInv => ExcessIsBounded
  <2> SUFFICES ASSUME SplitterInv, BoundInv, Plain(text), NEW i \in DOMAIN chunks
               PROVE  /\ overlap = 0 => Fits(chunks[i])
                      /\ Tokens(chunks[i]) <= MaxChunkTokens + SumSeq(Allowance(overlap))
    BY DEF ExcessIsBounded, Allowance
  <2>1. chunks \in Seq(Text) /\ overlap \in Overlaps
    BY DEF SplitterInv, SplitterTypeOK
  <2>2. chunks[i] \in Seq(Word)
    BY <2>1, LenProperties, ElementOfSeq DEF Text
  <2>3. Tokens(chunks[i]) \in Nat /\ UpTo(Allowance(overlap))[0] = 0
    BY <2>1, <2>2, TokensOfText, AllowanceIs
  <2>4. Bounded(overlap, chunks[i], 0)
    BY DEF BoundInv
  <2> QED BY <2>3, <2>4 DEF Bounded
<1> QED BY <1>1, <1>2, SplitterStarts, SplitterNextKeeps, BoundNextKeeps, PTL DEF ParserSpec

-----------------------------------------------------------------------------
(* The inductive invariant of the parser *)

Sections == {General, None} \union
              UNION {{d.nodes[k].heading : k \in DOMAIN d.nodes} : d \in Documents}

Points == {"idle", "partition", "auto", "read", "split", "embed", "group", "write"} \union Final

ParserTypeOK ==
  /\ at \in Points /\ next \in Nat \ {0}
  /\ at # "idle" => doc \in Documents
  /\ section \in Sections
  /\ elements \in Seq(Nat)
  /\ \A e \in DOMAIN elements : elements[e] \in DOMAIN doc.nodes \union {0}
  /\ parsed \in Seq([element : Nat, section : Sections])
  /\ out \in Seq([parent : Nat, section : Sections, index : Nat, total : Nat, text : Text])

(* The first elements are parsed, each that shows something.               *)
ParsedTo(n) ==
  /\ \A p \in DOMAIN parsed :
       parsed[p].element \in 1..n /\ parsed[p].section = HeadingAt(parsed[p].element)
  /\ \A e \in 1..n : ~Node(elements[e]).blank => \E p \in DOMAIN parsed : parsed[p].element = e

Follows(o, p) ==
  \/ p.parent = o.parent /\ p.index = o.index + 1 /\ p.total = o.total
  \/ p.parent = o.parent + 1 /\ p.index = 1 /\ o.index = o.total

(* The chunks out are those of the first chunks of the parser, in order.   *)
NumberedTo(n) ==
  /\ n = 0 => out = <<>>
  /\ n # 0 => /\ out # <<>> /\ out[1].parent = 1 /\ out[1].index = 1
              /\ out[Len(out)].parent = n /\ out[Len(out)].index = out[Len(out)].total
  /\ \A i \in 1..(Len(out) - 1) : Follows(out[i], out[i + 1])

OutOf(p) == UNION {Characters(out[i].text) : i \in {i \in DOMAIN out : out[i].parent = p}}

EmittedTo(n) ==
  /\ \A i \in DOMAIN out : out[i].parent \in 1..n /\ out[i].section = parsed[out[i].parent].section
  /\ \A p \in 1..n : Characters(Source(p).text) \subseteq OutOf(p)
  /\ NumberedTo(n)

Grouped ==
  \E m \in DOMAIN out :
    /\ doc.dated => m = Len(out)
    /\ groups = IF m = Len(out) THEN <<1..m>> ELSE <<1..m, (m + 1)..Len(out)>>

(* Before the elements are looked at; while they are; and after.           *)
BeforeReading ==
  at \in {"idle", "partition", "auto"} =>
    elements = <<>> /\ parsed = <<>> /\ next = 1 /\ section = General /\ native = FALSE

Reading ==
  at = "read" => next \in 1..(Len(elements) + 1) /\ section = HeadingAt(next - 1) /\ ParsedTo(next - 1)

Read == {"split", "embed", "group", "write", "completed", "failed"}

AfterReading == at \in Read => parsed # <<>> /\ ParsedTo(Len(elements))

(* What is looked for is among the elements.                               *)
Found == at \in Read \union {"read"} => Sought \subseteq ToSet(elements)

(* The splitter works for the chunk in turn.                               *)
Splitting ==
  /\ text # <<>> => at = "split" /\ next <= Len(parsed) /\ text = Source(next).text
  /\ at = "split" => next <= Len(parsed) + 1 /\ EmittedTo(next - 1)

AfterSplitting ==
  /\ at \in Read \ {"split"} => EmittedTo(Len(parsed))
  /\ at \in Points \ Read => out = <<>>

Writing ==
  /\ at \notin {"write", "completed", "failed"} => groups = <<>>
  /\ at \in {"embed", "group"} => next = 1
  /\ at = "write" => Grouped /\ next <= Len(groups)
  /\ at = "completed" => Grouped /\ next = Len(groups) + 1
  /\ at = "failed" => groups = <<>> \/ (Grouped /\ next <= Len(groups))

ParserInv ==
  /\ ParserTypeOK /\ BeforeReading /\ Reading /\ AfterReading /\ Found
  /\ Splitting /\ AfterSplitting /\ Writing /\ RefusedIsExplained

-----------------------------------------------------------------------------
(* What the definitions depend on *)

LEMMA HeadingFrame ==
  ASSUME UNCHANGED <<doc, elements>>
  PROVE  \A n : HeadingAt(n)' = HeadingAt(n)
BY DEF HeadingAt, Node

LEMMA ParsedFrame ==
  ASSUME UNCHANGED <<doc, elements, parsed>>
  PROVE  \A n : ParsedTo(n)' <=> ParsedTo(n)
BY HeadingFrame DEF ParsedTo, Node

LEMMA SourceFrame ==
  ASSUME UNCHANGED <<doc, elements, parsed>>
  PROVE  \A p : Source(p)' = Source(p)
BY DEF Source, Node

LEMMA EmittedFrame ==
  ASSUME UNCHANGED <<doc, elements, parsed, out>>
  PROVE  \A n : EmittedTo(n)' <=> EmittedTo(n)
<1>1. \A n : NumberedTo(n)' <=> NumberedTo(n)
  BY DEF NumberedTo
<1>2. \A p : OutOf(p)' = OutOf(p)
  BY DEF OutOf
<1> QED BY <1>1, <1>2, SourceFrame DEF EmittedTo

LEMMA SoughtFrame ==
  ASSUME UNCHANGED <<doc, native>>
  PROVE  Sought' = Sought
BY DEF Sought, Visible, Fields, HasContent, Before, Stray, Node, SameRun

(* What is looked for, format by format.                                   *)
LEMMA SoughtIs ==
  /\ doc.format = "object" =>
       Sought = (Visible \intersect Fields) \union (IF HasContent THEN {} ELSE {0})
  /\ doc.format # "object" /\ ~native => Sought = Visible
  /\ doc.format \in {"txt", "array", "scalar"} => Sought = Visible
  /\ doc.format = "html" /\ native => Sought = Visible \ Stray
  /\ doc.format \in {"pdf", "other"} /\ native => Sought = {0}
BY DEF Sought

LEMMA GroupedFrame ==
  ASSUME UNCHANGED <<doc, out, groups>>
  PROVE  Grouped' <=> Grouped
BY DEF Grouped

(* With an element more, the heading is its own if it has one.             *)
LEMMA HeadingStep ==
  ASSUME NEW n \in Nat \ {0}
  PROVE  HeadingAt(n) = IF Node(elements[n]).heading = None THEN HeadingAt(n - 1)
                        ELSE Node(elements[n]).heading
<1> DEFINE H(e) == {f \in 1..e : Node(elements[f]).heading # None}
<1>1. 1..n = (1..(n - 1)) \union {n}
  OBVIOUS
<1>2. CASE Node(elements[n]).heading = None
  <2>1. H(n) = H(n - 1)
    BY <1>1, <1>2
  <2> HIDE DEF H
  <2>2. ASSUME NEW e PROVE HeadingAt(e) = IF H(e) = {} THEN General
                ELSE Node(elements[CHOOSE f \in H(e) : \A g \in H(e) : g <= f]).heading
    BY DEF HeadingAt, H
  <2> QED BY <1>2, <2>1, <2>2
<1>3. CASE Node(elements[n]).heading # None
  <2>1. n \in H(n) /\ \A g \in H(n) : g <= n /\ g \in Nat
    BY <1>3
  <2>2. (CHOOSE f \in H(n) : \A g \in H(n) : g <= f) = n
    <3> HIDE DEF H
    <3> QED BY <2>1
  <2> QED BY <1>3, <2>1, <2>2 DEF HeadingAt
<1> QED BY <1>2, <1>3

LEMMA NoHeading == HeadingAt(0) = General
<1>1. {f \in 1..0 : Node(elements[f]).heading # None} = {}
  OBVIOUS
<1> QED BY <1>1 DEF HeadingAt

LEMMA NoneParsed ==
  ASSUME parsed = <<>> PROVE ParsedTo(0)
<1>1. DOMAIN parsed = {}
  BY NoTexts
<1> QED BY <1>1 DEF ParsedTo

LEMMA NoneEmitted ==
  ASSUME out = <<>> PROVE EmittedTo(0)
<1>1. DOMAIN out = {} /\ Len(out) = 0
  BY NoTexts
<1> QED BY <1>1 DEF EmittedTo, NumberedTo

(* A document in hand has numbered nodes.                                  *)
LEMMA NodesAre ==
  ASSUME doc \in Documents
  PROVE  /\ IsFiniteSet(DOMAIN doc.nodes) /\ DOMAIN doc.nodes \subseteq Nat \ {0}
         /\ Visible \subseteq DOMAIN doc.nodes /\ Sought \subseteq Visible \union {0}
         /\ doc.format \in {"html", "pdf", "txt", "other"} \union Json
         /\ \A k \in DOMAIN doc.nodes \union {0} :
              /\ NodeOK(Node(k)) /\ Node(k).heading \in Sections
              /\ k \in Visible => ~Node(k).blank
         /\ ~Node(0).blank
<1>1. /\ doc.nodes \in Seq(ToSet(doc.nodes)) /\ \A k \in DOMAIN doc.nodes : NodeOK(doc.nodes[k])
      /\ doc.format \in {"html", "pdf", "txt", "other"} \union Json
  BY DocumentsAssumption
<1>2. DOMAIN doc.nodes = 1..Len(doc.nodes) /\ Len(doc.nodes) \in Nat
  BY <1>1, LenProperties
<1>3. IsFiniteSet(1..Len(doc.nodes))
  BY <1>2, FS_Interval
<1>4. NodeOK(Whole) /\ ~Whole.blank /\ Whole.heading = None
  BY DocumentsAssumption
<1>5. Node(0) = Whole /\ \A k \in DOMAIN doc.nodes : Node(k) = doc.nodes[k]
  BY <1>2 DEF Node
<1>6. \A k \in DOMAIN doc.nodes : doc.nodes[k].heading \in Sections
  BY DEF Sections
<1>7. Visible \subseteq DOMAIN doc.nodes /\ Sought \subseteq Visible \union {0}
  BY <1>1, SoughtIs DEF Visible, Json
<1>8. DOMAIN doc.nodes \subseteq Nat \ {0}
  BY <1>2
<1>9. \A k \in Visible : ~Node(k).blank
  BY DEF Visible
<1> QED BY <1>1, <1>2, <1>3, <1>4, <1>5, <1>6, <1>7, <1>8, <1>9 DEF Sections

LEMMA InOrderIs ==
  ASSUME doc \in Documents, NEW S, S \subseteq DOMAIN doc.nodes, NEW s \in InOrder(S)
  PROVE  /\ s \in Seq(Nat) /\ ToSet(s) = S /\ \A e \in DOMAIN s : s[e] \in DOMAIN doc.nodes
         /\ s = <<>> => S = {}
<1>1. Cardinality(S) \in Nat
  BY NodesAre, FS_Subset, FS_CardinalityType
<1>2. S \subseteq Nat
  BY NodesAre
<1>3. s \in [1..Cardinality(S) -> S] /\ ToSet(s) = S
  BY DEF InOrder
<1>4. s \in Seq(Nat)
  BY <1>1, <1>2, <1>3, SeqDef
<1>5. s = <<>> => S = {}
  BY <1>3, NoTexts DEF ToSet
<1> QED BY <1>3, <1>4, <1>5

-----------------------------------------------------------------------------
(* The steps of the parser *)

LEMMA ParserStarts == ParserInit => ParserInv
<1> SUFFICES ASSUME ParserInit PROVE ParserInv
  OBVIOUS
<1>1. /\ doc = None /\ at = "idle" /\ elements = <<>> /\ section = General /\ parsed = <<>>
      /\ out = <<>> /\ groups = <<>> /\ next = 1 /\ text = <<>> /\ native = FALSE
  BY DEF ParserInit, Init
<1>2. ParserTypeOK
  BY <1>1, EmptySeq, NoTexts DEF ParserTypeOK, Points, Sections
<1> QED BY <1>1, <1>2 DEF ParserInv, BeforeReading, Reading, AfterReading, Found, Splitting,
  AfterSplitting, Writing, Read, Points, Final, RefusedIsExplained

LEMMA ParserIsFramed ==
  ASSUME ParserInv, UNCHANGED <<text, parserVars>>
  PROVE  ParserInv'
<1>1. /\ UNCHANGED <<text, doc, at, elements, section, parsed, out, groups, next, native>>
  BY DEF parserVars
<1>2. ParserTypeOK'
  BY <1>1 DEF ParserInv, ParserTypeOK
<1>3. BeforeReading' /\ Writing'
  BY <1>1, GroupedFrame DEF ParserInv, BeforeReading, Writing
<1>4. Reading' /\ AfterReading'
  BY <1>1, HeadingFrame, ParsedFrame DEF ParserInv, Reading, AfterReading
<1>5. Found' /\ RefusedIsExplained'
  BY <1>1, SoughtFrame DEF ParserInv, Found, RefusedIsExplained
<1>6. Splitting' /\ AfterSplitting'
  BY <1>1, EmittedFrame, SourceFrame DEF ParserInv, Splitting, AfterSplitting
<1> QED BY <1>2, <1>3, <1>4, <1>5, <1>6 DEF ParserInv

(* Before the elements are known there is nothing else.                    *)
LEMMA NothingYet ==
  ASSUME ParserInv, at \in {"idle", "partition", "auto"}
  PROVE  /\ elements = <<>> /\ parsed = <<>> /\ out = <<>> /\ groups = <<>> /\ text = <<>>
         /\ next = 1 /\ section = General /\ native = FALSE
BY DEF ParserInv, BeforeReading, AfterSplitting, Writing, Splitting, Points, Read, Final

LEMMA OpenDocumentKeeps ==
  ASSUME ParserInv, OpenDocument PROVE ParserInv'
<1>1. /\ at = "idle" /\ doc' \in Documents /\ at' \in {"refused", "partition"}
      /\ at' = "refused" => doc'.nodes = <<>> /\ doc'.format # "object"
      /\ UNCHANGED <<text, elements, section, parsed, out, groups, next, native>>
  BY DEF OpenDocument, splitterVars, vars
<1>2. /\ elements = <<>> /\ parsed = <<>> /\ out = <<>> /\ groups = <<>> /\ text = <<>>
      /\ next = 1 /\ section = General /\ native = FALSE
  BY <1>1, NothingYet
<1>3. ParserTypeOK'
  BY <1>1, <1>2, NoTexts DEF ParserInv, ParserTypeOK, Points, Final
<1>4. RefusedIsExplained'
  <2>1. at' = "refused" => Sought' = {}
    <3>1. at' = "refused" => Visible' = {}
      BY <1>1, NoTexts DEF Visible
    <3>2. at' = "refused" => Sought' = Visible'
      BY <1>1, <1>2 DEF Sought
    <3> QED BY <3>1, <3>2
  <2> QED BY <2>1 DEF RefusedIsExplained
<1> QED BY <1>1, <1>2, <1>3, <1>4 DEF ParserInv, BeforeReading, Reading, AfterReading, Found,
  Splitting, AfterSplitting, Writing, Read

(* A partitioner that finds what is looked for, in the file or instead of  *)
(* it.                                                                     *)
LEMMA PartitionedKeeps ==
  ASSUME ParserInv, at \in {"partition", "auto"}, NEW S, Partitioned(S),
         \A s \in S :
           /\ s \in Seq(Nat) /\ \A e \in DOMAIN s : s[e] \in DOMAIN doc.nodes \union {0}
           /\ s = <<>> => ~doc.valid \/ Sought' = {}
           /\ s # <<>> => Sought' \subseteq ToSet(s)
  PROVE  ParserInv'
<1>1. /\ elements' \in S /\ at' = IF elements' = <<>> THEN "refused" ELSE "read"
      /\ UNCHANGED <<text, doc, section, parsed, out, groups, next>>
  BY DEF Partitioned, splitterVars, vars
<1>2. /\ parsed = <<>> /\ out = <<>> /\ groups = <<>> /\ text = <<>>
      /\ next = 1 /\ section = General
  BY NothingYet
<1>3. at' \in {"refused", "read"} /\ doc' \in Documents
  BY <1>1 DEF ParserInv, ParserTypeOK
<1>4. ParserTypeOK'
  BY <1>1, <1>2, <1>3 DEF ParserInv, ParserTypeOK, Points, Final
<1>5. RefusedIsExplained'
  BY <1>1 DEF RefusedIsExplained
<1>6. Found'
  BY <1>1 DEF Found, Read
<1>7. Reading'
  <2>1. HeadingAt(0)' = General
    <3>1. {f \in 1..0 : Node(elements[f]).heading # None}' = {}
      OBVIOUS
    <3> QED BY <3>1 DEF HeadingAt
  <2>2. ParsedTo(0)'
    <3>1. DOMAIN parsed' = {}
      BY <1>1, <1>2, NoTexts
    <3> QED BY <3>1 DEF ParsedTo
  <2>3. next' = 1 /\ next' - 1 = 0 /\ Len(elements') \in Nat
    BY <1>1, <1>2, <1>4, LenProperties DEF ParserTypeOK
  <2>4. HeadingAt(next - 1)' = General /\ ParsedTo(next - 1)'
    BY <2>1, <2>2, <2>3
  <2>5. next' \in 1..(Len(elements') + 1)
    BY <2>3
  <2> QED BY <1>1, <1>2, <2>4, <2>5 DEF Reading
<1> QED BY <1>1, <1>2, <1>3, <1>4, <1>5, <1>6, <1>7 DEF ParserInv, BeforeReading, AfterReading,
  Splitting, AfterSplitting, Writing, Read

(* The title and the content read of an object are the fields that have a  *)
(* value and none under a name before theirs.                              *)
LEMMA FieldsRead ==
  /\ Fields = Titles \union Contents
  /\ HasContent <=> Contents # {}
<1> DEFINE Has(key) == \E j \in DOMAIN doc.nodes : ~Node(j).falsy /\ Node(j).key = key
           Of(key)  == {k \in DOMAIN doc.nodes : ~Node(k).falsy /\ Node(k).key = key}
<1>1. Titles = Of("title") \union (IF Has("title") THEN {} ELSE Of("name"))
  <2> DEFINE names == <<"title", "name">>
  <2>1. DOMAIN names = {1, 2} /\ names[1] = "title" /\ names[2] = "name"
    OBVIOUS
  <2>2. 1..(1 - 1) = {} /\ 1..(2 - 1) = {1}
    OBVIOUS
  <2> HIDE DEF names
  <2>3. FirstOf(names) = Of("title") \union (IF Has("title") THEN {} ELSE Of("name"))
    BY <2>1, <2>2 DEF FirstOf
  <2> QED BY <2>3 DEF Titles, names
<1>2. Contents = Of("content") \union (IF Has("content") THEN {} ELSE Of("text"))
                   \union (IF Has("content") \/ Has("text") THEN {} ELSE Of("body"))
  <2> DEFINE names == <<"content", "text", "body">>
  <2>1. DOMAIN names = {1, 2, 3} /\ names[1] = "content" /\ names[2] = "text" /\ names[3] = "body"
    OBVIOUS
  <2>2. 1..(1 - 1) = {} /\ 1..(2 - 1) = {1} /\ 1..(3 - 1) = {1, 2}
    OBVIOUS
  <2> HIDE DEF names
  <2>3. FirstOf(names) = Of("content") \union (IF Has("content") THEN {} ELSE Of("text"))
                           \union (IF Has("content") \/ Has("text") THEN {} ELSE Of("body"))
    BY <2>1, <2>2 DEF FirstOf
  <2> QED BY <2>3 DEF Contents, names
<1>3. HasContent <=> Contents # {}
  BY <1>2 DEF HasContent
<1>4. Fields = Titles \union Contents
  <2>1. ASSUME NEW k \in DOMAIN doc.nodes PROVE k \in Fields <=> k \in Titles \/ k \in Contents
    <3>1. k \in Fields <=> /\ Node(k).key \in Keys \ {"other"} /\ ~Node(k).falsy
                          /\ \A key \in Before(Node(k).key) : ~Has(key)
      BY <2>1 DEF Fields
    <3>2. Node(k).key \in {"title", "content"} => Before(Node(k).key) = {}
      BY DEF Before
    <3>3. /\ Node(k).key = "name" => Before(Node(k).key) = {"title"}
          /\ Node(k).key = "text" => Before(Node(k).key) = {"content"}
          /\ Node(k).key = "body" => Before(Node(k).key) = {"content", "text"}
      BY DEF Before
    <3>4. Node(k).key \in Keys \ {"other"} <=>
            Node(k).key \in {"title", "name", "content", "text", "body"}
      BY DEF Keys
    <3> HIDE DEF Has
    <3> QED BY <1>1, <1>2, <2>1, <3>1, <3>2, <3>3, <3>4
  <2>2. Titles \union Contents \subseteq DOMAIN doc.nodes /\ Fields \subseteq DOMAIN doc.nodes
    BY DEF Titles, Contents, FirstOf, Fields
  <2> QED BY <2>1, <2>2
<1> QED BY <1>3, <1>4

LEMMA PartitionJsonKeeps ==
  ASSUME ParserInv, PartitionJson PROVE ParserInv'
<1> DEFINE S == IF doc.valid THEN JsonElements ELSE {<<>>}
<1>1. /\ at = "partition" /\ doc.format \in Json /\ Partitioned(S)
      /\ UNCHANGED <<native, doc>> /\ doc \in Documents
  BY DEF PartitionJson, Partitioned, ParserInv, ParserTypeOK
<1>2. Sought' = Sought
  BY <1>1, SoughtFrame
<1>3. Visible \subseteq DOMAIN doc.nodes
  BY <1>1, NodesAre
<1>4. ASSUME NEW s \in S
      PROVE  /\ s \in Seq(Nat) /\ \A e \in DOMAIN s : s[e] \in DOMAIN doc.nodes \union {0}
             /\ s = <<>> => ~doc.valid \/ Sought = {}
             /\ s # <<>> => Sought \subseteq ToSet(s)
  <2>1. CASE ~doc.valid
    BY <2>1, NoTexts
  <2>2. CASE doc.valid /\ doc.format # "object"
    <3>1. s \in InOrder(DOMAIN doc.nodes) /\ Sought = Visible
      BY <1>1, <2>2, SoughtIs DEF JsonElements, Json
    <3> QED BY <1>1, <1>3, <3>1, InOrderIs
  <2>3. CASE doc.valid /\ doc.format = "object"
    <3>1. PICK title \in InOrder(Titles),
               content \in IF Contents = {} THEN {<<0>>} ELSE InOrder(Contents) : s = title \o content
      BY <2>3 DEF JsonElements
    <3>2. Titles \subseteq DOMAIN doc.nodes /\ Contents \subseteq DOMAIN doc.nodes
      BY DEF Titles, Contents, FirstOf
    <3>3. /\ title \in Seq(Nat) /\ ToSet(title) = Titles
          /\ \A e \in DOMAIN title : title[e] \in DOMAIN doc.nodes
      BY <1>1, <3>1, <3>2, InOrderIs
    <3>4. /\ content \in Seq(Nat) /\ \A e \in DOMAIN content : content[e] \in DOMAIN doc.nodes \union {0}
          /\ ToSet(content) = IF Contents = {} THEN {0} ELSE Contents
      <4>1. CASE Contents # {}
        BY <1>1, <3>1, <3>2, <4>1, InOrderIs
      <4>2. CASE Contents = {}
        <5>1. content = <<0>>
          BY <3>1, <4>2
        <5>2. content \in Seq(Nat) /\ Len(content) = 1 /\ content[1] = 0
          BY <5>1
        <5>3. DOMAIN content = {1}
          BY <5>2, LenProperties
        <5> QED BY <4>2, <5>2, <5>3 DEF ToSet
      <4> QED BY <4>1, <4>2
    <3>5. s \in Seq(Nat) /\ ToSet(s) = ToSet(title) \union ToSet(content)
      <4>1. title \o content \in Seq(Nat)
        BY <3>3, <3>4, ConcatProperties
      <4>2. Range(title \o content) = Range(title) \union Range(content)
        BY <3>3, <3>4, RangeConcatenation
      <4> QED BY <3>1, <4>1, <4>2 DEF ToSet, Range
    <3>6. \A e \in DOMAIN s : s[e] \in DOMAIN doc.nodes \union {0}
      <4>1. ToSet(s) \subseteq DOMAIN doc.nodes \union {0}
        BY <3>2, <3>3, <3>4, <3>5
      <4> QED BY <4>1 DEF ToSet
    <3>7. Sought \subseteq ToSet(s)
      BY <2>3, <3>3, <3>4, <3>5, FieldsRead, SoughtIs
    <3>8. s # <<>>
      <4>1. ToSet(s) # {}
        BY <3>4, <3>5
      <4> QED BY <4>1, NoTexts DEF ToSet
    <3> QED BY <3>5, <3>6, <3>7, <3>8
  <2> QED BY <2>1, <2>2, <2>3
<1> HIDE DEF S
<1> QED BY <1>1, <1>2, <1>4, PartitionedKeeps

LEMMA LibraryReturnsKeeps ==
  ASSUME ParserInv, LibraryReturns PROVE ParserInv'
<1> DEFINE S == InOrder(Visible)
<1>1. /\ at \in {"partition", "auto"} /\ Partitioned(S) /\ UNCHANGED <<native, doc>>
      /\ doc \in Documents /\ doc.format # "object"
  BY DEF LibraryReturns, Partitioned, ParserInv, ParserTypeOK, Json
<1>2. Sought' = Sought /\ Sought = Visible
  BY <1>1, SoughtFrame, SoughtIs, NothingYet
<1>3. Visible \subseteq DOMAIN doc.nodes
  BY <1>1, NodesAre
<1>4. ASSUME NEW s \in S
      PROVE  /\ s \in Seq(Nat) /\ \A e \in DOMAIN s : s[e] \in DOMAIN doc.nodes \union {0}
             /\ s = <<>> => Sought = {}
             /\ Sought \subseteq ToSet(s)
  BY <1>1, <1>2, <1>3, InOrderIs
<1> HIDE DEF S
<1> QED BY <1>1, <1>2, <1>4, PartitionedKeeps

LEMMA LibraryRaisesKeeps ==
  ASSUME ParserInv, LibraryRaises PROVE ParserInv'
<1> DEFINE S == IF doc.format = "html" THEN NativeHtml ELSE NativeText
<1>1. /\ at \in {"partition", "auto"} /\ Partitioned(S) /\ native' = TRUE /\ UNCHANGED doc
      /\ doc \in Documents /\ doc.format \in {"html", "pdf", "txt", "other"}
  <2>1. /\ at \in {"partition", "auto"} /\ Partitioned(S) /\ native' = TRUE /\ UNCHANGED doc
        /\ doc \in Documents /\ doc.format \notin Json
    BY DEF LibraryRaises, Partitioned, ParserInv, ParserTypeOK
  <2> HIDE DEF S
  <2> QED BY <2>1, NodesAre
<1>2. Sought' = CASE doc.format = "html" -> Visible \ Stray
                  [] doc.format = "txt" -> Visible
                  [] OTHER -> {0}
  <2>1. Visible' = Visible /\ Stray' = Stray
    BY <1>1 DEF Visible, Stray, Node, SameRun
  <2> QED BY <1>1, <2>1 DEF Sought
<1>3. Visible \subseteq DOMAIN doc.nodes
  BY <1>1, NodesAre
<1>4. ASSUME NEW s \in S
      PROVE  /\ s \in Seq(Nat) /\ \A e \in DOMAIN s : s[e] \in DOMAIN doc.nodes \union {0}
             /\ s = <<>> => Sought' = {}
             /\ s # <<>> => Sought' \subseteq ToSet(s)
  <2>1. CASE doc.format = "html"
    <3>1. s \in InOrder(Visible \ Stray) /\ Visible \ Stray \subseteq DOMAIN doc.nodes
      BY <1>3, <2>1 DEF NativeHtml
    <3> QED BY <1>1, <1>2, <2>1, <3>1, InOrderIs
  <2>2. CASE doc.format = "txt"
    BY <1>1, <1>2, <1>3, <2>2, InOrderIs DEF NativeText
  <2>3. CASE doc.format # "html" /\ doc.format # "txt"
    <3>1. s = <<0>> /\ Sought' = {0}
      BY <1>2, <2>3 DEF NativeText
    <3>2. s \in Seq(Nat) /\ Len(s) = 1 /\ s[1] = 0 /\ s # <<>>
      BY <3>1
    <3>3. DOMAIN s = {1}
      BY <3>2, LenProperties
    <3> QED BY <3>1, <3>2, <3>3 DEF ToSet
  <2> QED BY <2>1, <2>2, <2>3
<1> HIDE DEF S
<1> QED BY <1>1, <1>4, PartitionedKeeps

LEMMA FastStrategyRaisesKeeps ==
  ASSUME ParserInv, FastStrategyRaises PROVE ParserInv'
<1>1. /\ at = "partition" /\ at' = "auto"
      /\ UNCHANGED <<text, doc, elements, section, parsed, out, groups, next, native>>
  BY DEF FastStrategyRaises, splitterVars, vars
<1>2. /\ elements = <<>> /\ parsed = <<>> /\ out = <<>> /\ groups = <<>> /\ text = <<>>
      /\ next = 1 /\ section = General /\ native = FALSE
  BY <1>1, NothingYet
<1>3. ParserTypeOK'
  BY <1>1 DEF ParserInv, ParserTypeOK, Points, Final
<1> QED BY <1>1, <1>2, <1>3 DEF ParserInv, BeforeReading, Reading, AfterReading, Found,
  Splitting, AfterSplitting, Writing, Read, RefusedIsExplained

(* The section of an element is taken once the tracker has seen it.        *)
LEMMA ParseElementKeeps ==
  ASSUME ParserInv, ParseElement PROVE ParserInv'
<1> DEFINE n == Node(elements[next])
<1> DEFINE entry == [element |-> next, section |-> section']
<1>1. /\ at = "read" /\ next <= Len(elements) /\ section' = SectionAfter(n)
      /\ parsed' = IF n.blank /\ ~n.table THEN parsed ELSE Append(parsed, entry)
      /\ next' = next + 1
      /\ UNCHANGED <<text, doc, at, elements, out, groups, native>>
  BY DEF ParseElement, splitterVars, vars
<1>2. /\ doc \in Documents /\ next \in Nat \ {0} /\ section \in Sections /\ elements \in Seq(Nat)
      /\ parsed \in Seq([element : Nat, section : Sections])
      /\ section = HeadingAt(next - 1) /\ ParsedTo(next - 1)
  BY <1>1 DEF ParserInv, ParserTypeOK, Reading
<1>3. /\ Len(elements) \in Nat /\ DOMAIN elements = 1..Len(elements) /\ next \in DOMAIN elements
      /\ next - 1 \in Nat /\ next' - 1 = next
  BY <1>1, <1>2, LenProperties
<1>4. elements[next] \in DOMAIN doc.nodes \union {0}
  BY <1>3 DEF ParserInv, ParserTypeOK
<1>5. n.heading \in Sections /\ NodeOK(n)
  BY <1>2, <1>4, NodesAre
<1> HIDE DEF n
<1>6. section' \in Sections
  BY <1>1, <1>2, <1>5 DEF SectionAfter
<1>7. section' = HeadingAt(next)
  BY <1>1, <1>2, HeadingStep DEF SectionAfter, n
<1>8. entry \in [element : Nat, section : Sections]
  BY <1>2, <1>6
<1>9. /\ entry.element = next /\ entry.section = HeadingAt(next)
  BY <1>7
<1> HIDE DEF entry
<1>10. PICK k \in Nat \ {0} : k = next
  BY <1>2
<1>11. /\ parsed' \in Seq([element : Nat, section : Sections])
       /\ \A p \in DOMAIN parsed' :
            parsed'[p].element \in 1..k /\ parsed'[p].section = HeadingAt(parsed'[p].element)
       /\ \A e \in 1..k : ~Node(elements[e]).blank => \E p \in DOMAIN parsed' : parsed'[p].element = e
  <2>1. \A e \in 1..k : e \in 1..(k - 1) \/ e = k
    OBVIOUS
  <2>2. \A e \in 1..(k - 1) : e \in 1..k
    OBVIOUS
  <2>3. CASE n.blank /\ ~n.table
    <3>1. parsed' = parsed
      BY <1>1, <2>3
    <3> QED BY <1>2, <1>10, <2>1, <2>2, <2>3, <3>1 DEF ParsedTo, n
  <2>4. CASE ~(n.blank /\ ~n.table)
    <3>1. parsed' = Append(parsed, entry)
      BY <1>1, <2>4
    <3>2. /\ parsed' \in Seq([element : Nat, section : Sections])
          /\ Len(parsed') = Len(parsed) + 1
          /\ \A i \in 1..Len(parsed) : parsed'[i] = parsed[i]
          /\ parsed'[Len(parsed) + 1] = entry
      BY <1>2, <1>8, <3>1, AppendProperties
    <3>3. /\ DOMAIN parsed = 1..Len(parsed) /\ Len(parsed) \in Nat
          /\ DOMAIN parsed' = DOMAIN parsed \union {Len(parsed) + 1}
      BY <1>2, <3>2, LenProperties
    <3>4. ASSUME NEW p \in DOMAIN parsed'
          PROVE  parsed'[p].element \in 1..k /\ parsed'[p].section = HeadingAt(parsed'[p].element)
      <4>1. CASE p \in DOMAIN parsed
        BY <1>2, <1>10, <2>2, <3>2, <3>3, <4>1 DEF ParsedTo
      <4>2. CASE p = Len(parsed) + 1
        BY <1>9, <1>10, <3>2, <4>2
      <4> QED BY <3>3, <4>1, <4>2
    <3>5. ASSUME NEW e \in 1..k, ~Node(elements[e]).blank
          PROVE  \E p \in DOMAIN parsed' : parsed'[p].element = e
      <4>1. CASE e = k
        BY <1>9, <1>10, <3>2, <3>3, <4>1
      <4>2. CASE e # k
        <5>1. PICK p \in DOMAIN parsed : parsed[p].element = e
          BY <1>2, <1>10, <2>1, <3>5, <4>2 DEF ParsedTo
        <5> QED BY <3>2, <3>3, <5>1
      <4> QED BY <4>1, <4>2
    <3> QED BY <3>2, <3>4, <3>5
  <2> QED BY <2>3, <2>4
<1>12. \A m : HeadingAt(m)' = HeadingAt(m)
  BY <1>1, HeadingFrame
<1>13. ParsedTo(k)'
  <2>1. \A e : (Node(elements[e]))' = Node(elements[e])
    BY <1>1 DEF Node
  <2> QED BY <1>11, <1>12, <2>1 DEF ParsedTo
<1>14. next' - 1 = k /\ section' = HeadingAt(k)'
  BY <1>3, <1>7, <1>10, <1>12
<1>15. Reading'
  <2>1. ParsedTo(next - 1)' /\ section' = HeadingAt(next - 1)'
    BY <1>13, <1>14
  <2>2. next' \in 1..(Len(elements') + 1)
    BY <1>1, <1>2, <1>3
  <2> QED BY <2>1, <2>2 DEF Reading
<1>16. ParserTypeOK'
  BY <1>1, <1>2, <1>6, <1>11 DEF ParserInv, ParserTypeOK
<1>17. Found'
  BY <1>1, SoughtFrame DEF ParserInv, Found
<1>18. text = <<>> /\ out = <<>> /\ groups = <<>>
  BY <1>1 DEF ParserInv, Splitting, AfterSplitting, Writing, Points, Read, Final
<1> QED BY <1>1, <1>15, <1>16, <1>17, <1>18 DEF ParserInv, BeforeReading, AfterReading,
  Splitting, AfterSplitting, Writing, Read, RefusedIsExplained

LEMMA EndOfElementsKeeps ==
  ASSUME ParserInv, EndOfElements PROVE ParserInv'
<1>1. /\ at = "read" /\ next > Len(elements) /\ next' = 1
      /\ at' = IF parsed = <<>> THEN "refused" ELSE "split"
      /\ UNCHANGED <<text, doc, elements, section, parsed, out, groups, native>>
  BY DEF EndOfElements, splitterVars, vars
<1>2. /\ doc \in Documents /\ elements \in Seq(Nat)
      /\ parsed \in Seq([element : Nat, section : Sections])
      /\ next \in 1..(Len(elements) + 1) /\ ParsedTo(next - 1)
      /\ text = <<>> /\ out = <<>> /\ groups = <<>>
  BY <1>1 DEF ParserInv, ParserTypeOK, Reading, Splitting, AfterSplitting, Writing, Points, Read, Final
<1>3. DOMAIN elements = 1..Len(elements) /\ Len(elements) \in Nat /\ next - 1 = Len(elements)
  <2>1. DOMAIN elements = 1..Len(elements) /\ Len(elements) \in Nat
    BY <1>2, LenProperties
  <2> QED BY <1>1, <1>2, <2>1
<1>4. ParsedTo(Len(elements))
  BY <1>2, <1>3
<1>5. ParsedTo(Len(elements))'
  BY <1>1, <1>4, ParsedFrame
<1>6. ParserTypeOK'
  BY <1>1 DEF ParserInv, ParserTypeOK, Points, Final
<1>7. Found'
  BY <1>1, SoughtFrame DEF ParserInv, Found, Read
<1>8. RefusedIsExplained'
  <2> SUFFICES ASSUME parsed = <<>> PROVE Sought' = {}
    BY <1>1 DEF RefusedIsExplained
  <2>1. \A e \in DOMAIN elements : Node(elements[e]).blank
    <3>1. DOMAIN parsed = {}
      BY NoTexts
    <3> QED BY <1>3, <1>4, <3>1 DEF ParsedTo
  <2>2. Sought \subseteq ToSet(elements)
    BY <1>1 DEF ParserInv, Found
  <2>3. ASSUME NEW x \in Sought PROVE FALSE
    <3>1. PICK e \in DOMAIN elements : elements[e] = x
      BY <2>2, <2>3 DEF ToSet
    <3>2. x \in DOMAIN doc.nodes \union {0} /\ (x # 0 => x \in Visible)
      <4>1. Sought \subseteq Visible \union {0} /\ Visible \subseteq DOMAIN doc.nodes
        BY <1>2, NodesAre
      <4> QED BY <2>3, <4>1
    <3>3. ~Node(x).blank
      BY <1>2, <3>2, NodesAre
    <3> QED BY <2>1, <3>1, <3>3
  <2> QED BY <1>1, <2>3, SoughtFrame
<1>9. Splitting'
  <2>1. EmittedTo(0)'
    <3>1. DOMAIN out' = {} /\ Len(out') = 0 /\ out' = <<>>
      BY <1>1, <1>2, NoTexts
    <3> QED BY <3>1 DEF EmittedTo, NumberedTo
  <2>2. next' - 1 = 0 /\ Len(parsed') \in Nat /\ next' <= Len(parsed') + 1
    <3>1. Len(parsed) \in Nat
      BY <1>2, LenProperties
    <3> QED BY <1>1, <3>1
  <2>3. EmittedTo(next - 1)'
    BY <2>1, <2>2
  <2> QED BY <1>1, <1>2, <2>2, <2>3 DEF Splitting
<1>10. AfterReading'
  BY <1>1, <1>5 DEF AfterReading, Read
<1> QED BY <1>1, <1>2, <1>6, <1>7, <1>8, <1>9, <1>10 DEF ParserInv, BeforeReading, Reading,
  AfterSplitting, Writing, Read

LEMMA TakeChunkKeeps ==
  ASSUME ParserInv, TakeChunk PROVE ParserInv'
<1>1. /\ at = "split" /\ next <= Len(parsed) /\ text' = Source(next).text
      /\ UNCHANGED <<doc, at, elements, section, parsed, out, groups, next, native>>
  BY DEF TakeChunk, parserVars
<1>2. ParserTypeOK'
  BY <1>1 DEF ParserInv, ParserTypeOK
<1>3. BeforeReading' /\ Writing' /\ Reading' /\ RefusedIsExplained'
  BY <1>1 DEF ParserInv, BeforeReading, Writing, Reading, RefusedIsExplained
<1>4. AfterReading' /\ Found'
  BY <1>1, ParsedFrame, SoughtFrame DEF ParserInv, AfterReading, Found
<1>5. Splitting'
  <2>1. EmittedTo(next - 1)' <=> EmittedTo(next - 1)
    BY <1>1, EmittedFrame
  <2>2. text' = Source(next)'.text
    BY <1>1, SourceFrame
  <2> QED BY <1>1, <2>1, <2>2 DEF ParserInv, Splitting
<1>6. AfterSplitting'
  BY <1>1 DEF ParserInv, AfterSplitting, Points, Read, Final
<1> QED BY <1>2, <1>3, <1>4, <1>5, <1>6 DEF ParserInv

(* The pieces of a chunk come after those of the chunks before it, and     *)
(* have all its characters.                                                *)
LEMMA EmitPiecesKeeps ==
  ASSUME SplitterInv, ParserInv, EmitPieces PROVE ParserInv'
<1> DEFINE n == Len(out)
<1> DEFINE m == Len(chunks)
<1> DEFINE Piece == [parent : Nat, section : Sections, index : Nat, total : Nat, text : Text]
<1> DEFINE piece(i) == [parent |-> next, section |-> parsed[next].section,
                        index |-> i, total |-> m, text |-> chunks[i]]
<1> DEFINE pieces == [i \in 1..m |-> piece(i)]
<1>1. /\ chunks # <<>> /\ text' = <<>> /\ next' = next + 1
      /\ out' = out \o [i \in DOMAIN chunks |-> piece(i)]
      /\ UNCHANGED <<doc, at, elements, section, parsed, groups, native>>
  BY DEF EmitPieces, EmitChunks
<1>2. /\ chunks \in Seq(Text) /\ m \in Nat \ {0} /\ DOMAIN chunks = 1..m /\ text # <<>>
      /\ Characters(text) = Covered(chunks)
  <2>1. chunks \in Seq(Text) /\ text # <<>> /\ Characters(text) = Covered(chunks)
    BY <1>1 DEF SplitterInv, SplitterTypeOK, NothingLost, Covered
  <2> QED BY <1>1, <2>1, EmptySeq, LenProperties
<1>3. /\ at = "split" /\ next \in Nat \ {0} /\ next <= Len(parsed) /\ text = Source(next).text
      /\ out \in Seq(Piece) /\ parsed \in Seq([element : Nat, section : Sections])
      /\ EmittedTo(next - 1)
  BY <1>2 DEF ParserInv, ParserTypeOK, Splitting
<1>4. Len(parsed) \in Nat /\ next \in 1..Len(parsed) /\ n \in Nat /\ DOMAIN out = 1..n
  <2>1. Len(parsed) \in Nat /\ n \in Nat /\ DOMAIN out = 1..n
    BY <1>3, LenProperties
  <2> QED BY <1>3, <2>1
<1>5. parsed[next] \in [element : Nat, section : Sections]
  BY <1>3, <1>4, ElementOfSeq
<1>6. \A i \in 1..m : piece(i) \in Piece
  <2>1. \A i \in 1..m : chunks[i] \in Text
    BY <1>2, ElementOfSeq
  <2> QED BY <1>2, <1>3, <1>5, <2>1
<1>7. /\ pieces \in Seq(Piece) /\ Len(pieces) = m
      /\ \A i \in 1..m : /\ pieces[i].parent = next /\ pieces[i].section = parsed[next].section
                         /\ pieces[i].index = i /\ pieces[i].total = m /\ pieces[i].text = chunks[i]
  <2>1. pieces \in Seq(Piece)
    <3> HIDE DEF piece, Piece
    <3> QED BY <1>2, <1>6, IsASeq
  <2>2. DOMAIN pieces = 1..m /\ DOMAIN pieces = 1..Len(pieces) /\ Len(pieces) \in Nat
    BY <2>1, LenProperties
  <2>3. Len(pieces) = m
    <3> HIDE DEF pieces
    <3> QED BY <1>2, <2>2
  <2> QED BY <2>1, <2>3
<1>8. out' = out \o pieces
  BY <1>1, <1>2
<1> HIDE DEF Piece, piece, pieces, n, m
<1>9. /\ out' \in Seq(Piece) /\ Len(out') = n + m
      /\ \A i \in 1..(n + m) : out'[i] = IF i <= n THEN out[i] ELSE pieces[i - n]
  <2>1. /\ out \o pieces \in Seq(Piece) /\ Len(out \o pieces) = Len(out) + Len(pieces)
        /\ \A i \in 1..(Len(out) + Len(pieces)) :
             (out \o pieces)[i] = IF i <= Len(out) THEN out[i] ELSE pieces[i - Len(out)]
    <3>1. out \in Seq(Piece) /\ pieces \in Seq(Piece)
      BY <1>3, <1>7
    <3> QED BY <3>1, ConcatProperties
  <2> QED BY <1>7, <1>8, <2>1 DEF n
<1>10. DOMAIN out' = 1..(n + m)
  BY <1>9, LenProperties
<1>11. PICK k \in Nat \ {0} : k = next
  BY <1>3
<1>12. EmittedTo(k - 1) /\ k - 1 \in Nat /\ next' - 1 = k /\ k \in 1..k
  BY <1>1, <1>3, <1>11
<1>13. /\ \A i \in 1..n : out'[i] = out[i] /\ i \in 1..(n + m)
       /\ \A i \in 1..m : out'[n + i] = pieces[i] /\ n + i \in 1..(n + m)
       /\ \A i \in 1..(n + m) : i \in 1..n \/ (i - n \in 1..m /\ out'[i] = pieces[i - n])
  BY <1>2, <1>4, <1>9
<1>14. \A i \in DOMAIN out' : out'[i].parent \in 1..k /\ out'[i].section = parsed[out'[i].parent].section
  <2> SUFFICES ASSUME NEW i \in 1..(n + m)
               PROVE  out'[i].parent \in 1..k /\ out'[i].section = parsed[out'[i].parent].section
    BY <1>10
  <2>1. CASE i \in 1..n
    <3>1. out[i].parent \in 1..(k - 1) /\ out[i].section = parsed[out[i].parent].section
      BY <1>4, <1>12, <2>1 DEF EmittedTo
    <3>2. \A p \in 1..(k - 1) : p \in 1..k
      OBVIOUS
    <3> QED BY <1>13, <2>1, <3>1, <3>2
  <2>2. CASE i \notin 1..n
    BY <1>7, <1>11, <1>12, <1>13, <2>2
  <2> QED BY <2>1, <2>2
<1>15. ASSUME NEW p \in 1..k PROVE Characters(Source(p).text) \subseteq OutOf(p)'
  <2>1. CASE p \in 1..(k - 1)
    <3>1. Characters(Source(p).text) \subseteq OutOf(p)
      BY <1>12, <2>1 DEF EmittedTo
    <3>2. OutOf(p) \subseteq OutOf(p)'
      BY <1>4, <1>10, <1>13 DEF OutOf
    <3> QED BY <3>1, <3>2
  <2>2. CASE p = k
    <3>1. Characters(Source(p).text) = Covered(chunks)
      BY <1>2, <1>3, <1>11, <2>2
    <3>2. ASSUME NEW x \in Covered(chunks) PROVE x \in OutOf(p)'
      <4>1. PICK i \in 1..m : x \in Characters(chunks[i])
        BY <1>2, <3>2 DEF Covered
      <4>2. out'[n + i].parent = p /\ out'[n + i].text = chunks[i] /\ n + i \in DOMAIN out'
        BY <1>7, <1>10, <1>11, <1>13, <2>2
      <4> QED BY <4>1, <4>2 DEF OutOf
    <3> QED BY <3>1, <3>2
  <2>3. p \in 1..(k - 1) \/ p = k
    OBVIOUS
  <2> QED BY <2>1, <2>2, <2>3
<1>16. NumberedTo(k - 1) /\ (n = 0 <=> out = <<>>) /\ (n # 0 => k - 1 # 0)
  <2>1. NumberedTo(k - 1)
    BY <1>12 DEF EmittedTo
  <2>2. n = 0 <=> out = <<>>
    BY <1>3, EmptySeq DEF n
  <2> QED BY <2>1, <2>2 DEF NumberedTo
<1>17. /\ out' # <<>> /\ out'[1].parent = 1 /\ out'[1].index = 1
       /\ out'[Len(out')].parent = k /\ out'[Len(out')].index = out'[Len(out')].total
  <2>1. out' # <<>>
    <3>1. Len(out') # 0
      BY <1>2, <1>4, <1>9
    <3> QED BY <3>1, NoTexts
  <2>2. out'[1].parent = 1 /\ out'[1].index = 1
    <3>1. CASE n = 0
      <4>1. k - 1 = 0
        BY <1>16, <3>1 DEF NumberedTo
      <4>2. 1 \in 1..m
        BY <1>2
      <4>3. out'[1] = pieces[1]
        BY <1>13, <3>1, <4>2
      <4> QED BY <1>7, <1>11, <4>1, <4>2, <4>3
    <3>2. CASE n # 0
      <4>1. 1 \in 1..n
        BY <1>4, <3>2
      <4> QED BY <1>13, <1>16, <3>2, <4>1 DEF NumberedTo
    <3> QED BY <3>1, <3>2
  <2>3. m \in 1..m
    BY <1>2
  <2>4. out'[Len(out')] = pieces[m]
    BY <1>9, <1>13, <2>3
  <2> QED BY <1>7, <1>11, <2>1, <2>2, <2>3, <2>4
<1>18. ASSUME NEW i \in 1..(Len(out') - 1) PROVE Follows(out'[i], out'[i + 1])
  <2>1. i \in 1..(n + m) /\ i + 1 \in 1..(n + m)
    BY <1>2, <1>4, <1>9
  <2>2. CASE i + 1 \in 1..n
    <3>1. i \in 1..n /\ i \in 1..(Len(out) - 1)
      BY <1>4, <2>1, <2>2 DEF n
    <3> QED BY <1>13, <1>16, <2>2, <3>1 DEF NumberedTo
  <2>3. CASE i = n
    <3>1. n # 0 /\ n \in 1..n
      BY <1>4, <2>1, <2>3
    <3>2. out'[i].parent = k - 1 /\ out'[i].index = out'[i].total
      BY <1>13, <1>16, <2>3, <3>1 DEF NumberedTo, n
    <3>3. 1 \in 1..m
      BY <1>2
    <3>4. out'[i + 1].parent = k /\ out'[i + 1].index = 1
      BY <1>7, <1>11, <1>13, <2>3, <3>3
    <3>5. k = (k - 1) + 1
      OBVIOUS
    <3> QED BY <3>2, <3>4, <3>5 DEF Follows
  <2>4. CASE i \notin 1..n
    <3>1. i - n \in 1..m /\ (i + 1) - n \in 1..m /\ (i + 1) - n = (i - n) + 1
      BY <1>2, <1>4, <2>1, <2>4
    <3>2. out'[i] = pieces[i - n] /\ out'[i + 1] = pieces[(i - n) + 1]
      <4>1. ~(i <= n) /\ ~(i + 1 <= n)
        BY <1>4, <2>1, <2>4
      <4> QED BY <1>9, <2>1, <3>1, <4>1
    <3> QED BY <1>7, <3>1, <3>2 DEF Follows
  <2>5. i + 1 \in 1..n \/ i = n \/ i \notin 1..n
    BY <1>4
  <2> QED BY <2>2, <2>3, <2>4, <2>5
<1>19. EmittedTo(k)'
  <2>1. NumberedTo(k)'
    BY <1>17, <1>18 DEF NumberedTo
  <2>2. \A p \in 1..k : Characters(Source(p).text)' \subseteq OutOf(p)'
    BY <1>1, <1>15, SourceFrame
  <2> QED BY <1>1, <1>14, <2>1, <2>2 DEF EmittedTo
<1>20. ParserTypeOK'
  BY <1>1, <1>3, <1>9 DEF ParserInv, ParserTypeOK, Piece
<1>21. Splitting'
  <2>1. EmittedTo(next - 1)'
    BY <1>12, <1>19
  <2>2. next' <= Len(parsed') + 1
    BY <1>1, <1>3, <1>4
  <2> QED BY <1>1, <2>1, <2>2 DEF Splitting
<1>22. AfterReading' /\ Found'
  BY <1>1, ParsedFrame, SoughtFrame DEF ParserInv, AfterReading, Found
<1>23. Writing'
  BY <1>1, <1>3 DEF ParserInv, Writing
<1>24. at' = "split"
  BY <1>1, <1>3
<1> QED BY <1>20, <1>21, <1>22, <1>23, <1>24 DEF ParserInv, BeforeReading, Reading,
  AfterSplitting, Points, Read, Final, RefusedIsExplained

LEMMA EndOfChunksKeeps ==
  ASSUME ParserInv, EndOfChunks PROVE ParserInv'
<1>1. /\ at = "split" /\ next > Len(parsed) /\ at' = "embed" /\ next' = 1
      /\ UNCHANGED <<text, doc, elements, section, parsed, out, groups, native>>
  BY DEF EndOfChunks, splitterVars, vars
<1>2. /\ parsed \in Seq([element : Nat, section : Sections]) /\ next \in Nat \ {0}
      /\ next <= Len(parsed) + 1 /\ EmittedTo(next - 1) /\ groups = <<>>
  BY <1>1 DEF ParserInv, ParserTypeOK, Splitting, Writing
<1>3. Len(parsed) \in Nat
  BY <1>2, LenProperties
<1>4. next - 1 = Len(parsed) /\ text = <<>>
  BY <1>1, <1>2, <1>3 DEF ParserInv, Splitting
<1>5. EmittedTo(Len(parsed))
  BY <1>2, <1>4
<1>6. EmittedTo(Len(parsed))'
  BY <1>1, <1>5, EmittedFrame
<1>7. ParserTypeOK'
  BY <1>1 DEF ParserInv, ParserTypeOK, Points
<1>8. AfterReading' /\ Found'
  BY <1>1, ParsedFrame, SoughtFrame DEF ParserInv, AfterReading, Found, Read
<1> QED BY <1>1, <1>2, <1>4, <1>6, <1>7, <1>8 DEF ParserInv, BeforeReading, Reading, Splitting,
  AfterSplitting, Writing, Points, Read, RefusedIsExplained

(* What the steps after splitting leave alone.                             *)
LEMMA ChunksStay ==
  ASSUME ParserInv, at \in Read \ {"split"}, at' \in Read \ {"split"},
         UNCHANGED <<text, doc, elements, section, parsed, out, native>>, next' \in Nat \ {0}
  PROVE  /\ ParserTypeOK' /\ BeforeReading' /\ Reading' /\ AfterReading' /\ Found'
         /\ Splitting' /\ AfterSplitting' /\ RefusedIsExplained'
<1>1. ParserTypeOK'
  BY DEF ParserInv, ParserTypeOK, Points, Read, Final
<1>2. AfterReading' /\ Found'
  BY ParsedFrame, SoughtFrame DEF ParserInv, AfterReading, Found
<1>3. text = <<>>
  BY DEF ParserInv, Splitting
<1>4. EmittedTo(Len(parsed))'
  <2>1. EmittedTo(Len(parsed))
    BY DEF ParserInv, AfterSplitting
  <2> QED BY <2>1, EmittedFrame
<1> QED BY <1>1, <1>2, <1>3, <1>4 DEF BeforeReading, Reading, Splitting, AfterSplitting,
  RefusedIsExplained, Points, Read

(* The groups are two at most, and of a document with a date one.          *)
LEMMA GroupsAre ==
  ASSUME Grouped
  PROVE  /\ Len(groups) \in {1, 2} /\ DOMAIN groups = 1..Len(groups)
         /\ doc.dated => Len(groups) = 1
<1>1. PICK m \in DOMAIN out : /\ doc.dated => m = Len(out)
                              /\ groups = IF m = Len(out) THEN <<1..m>> ELSE <<1..m, (m + 1)..Len(out)>>
  BY DEF Grouped
<1>2. CASE m = Len(out)
  <2>1. groups = <<1..m>>
    BY <1>1, <1>2
  <2> QED BY <2>1
<1>3. CASE m # Len(out)
  <2>1. groups = <<1..m, (m + 1)..Len(out)>> /\ ~doc.dated
    BY <1>1, <1>3
  <2> QED BY <2>1
<1> QED BY <1>2, <1>3

LEMMA LastStepsKeep ==
  ASSUME ParserInv, EmbedChunks \/ GroupChunks \/ WritePartition \/ WriteRaises
  PROVE  ParserInv'
<1>1. next \in Nat \ {0}
  BY DEF ParserInv, ParserTypeOK
<1>2. CASE EmbedChunks
  <2>1. /\ at = "embed" /\ at' \in {"group", "failed"}
        /\ UNCHANGED <<text, doc, elements, section, parsed, out, groups, next, native>>
    BY <1>2 DEF EmbedChunks, splitterVars, vars
  <2>2. Writing'
    BY <2>1 DEF ParserInv, Writing
  <2> QED BY <1>1, <2>1, <2>2, ChunksStay DEF ParserInv, Read
<1>3. CASE GroupChunks
  <2>1. /\ at = "group" /\ at' = "write" /\ next' = next /\ next = 1 /\ Grouped'
        /\ UNCHANGED <<text, doc, elements, section, parsed, out, native>>
    BY <1>3 DEF GroupChunks, splitterVars, vars, ParserInv, Writing, Grouped
  <2>2. Len(groups') \in {1, 2}
    <3>1. PICK m \in DOMAIN out :
            groups' = IF m = Len(out) THEN <<1..m>> ELSE <<1..m, (m + 1)..Len(out)>>
      BY <1>3 DEF GroupChunks
    <3>2. CASE m = Len(out)
      <4>1. groups' = <<1..m>>
        BY <3>1, <3>2
      <4> QED BY <4>1
    <3>3. CASE m # Len(out)
      <4>1. groups' = <<1..m, (m + 1)..Len(out)>>
        BY <3>1, <3>3
      <4> QED BY <4>1
    <3> QED BY <3>2, <3>3
  <2>3. Writing'
    BY <2>1, <2>2 DEF Writing
  <2> QED BY <1>1, <2>1, <2>3, ChunksStay DEF ParserInv, Read
<1>4. CASE WritePartition
  <2>1. /\ at = "write" /\ next' = next + 1
        /\ at' = IF next = Len(groups) THEN "completed" ELSE "write"
        /\ UNCHANGED <<text, doc, elements, section, parsed, out, groups, native>>
    BY <1>4 DEF WritePartition, splitterVars, vars
  <2>2. Grouped /\ next <= Len(groups) /\ Len(groups) \in {1, 2}
    BY <2>1, GroupsAre DEF ParserInv, Writing
  <2>3. Grouped'
    BY <2>1, <2>2, GroupedFrame
  <2>4. Writing'
    BY <1>1, <2>1, <2>2, <2>3 DEF Writing
  <2> QED BY <1>1, <2>1, <2>4, ChunksStay DEF ParserInv, Read
<1>5. CASE WriteRaises
  <2>1. /\ at = "write" /\ at' = "failed"
        /\ UNCHANGED <<text, doc, elements, section, parsed, out, groups, next, native>>
    BY <1>5 DEF WriteRaises, splitterVars, vars
  <2>2. Grouped /\ next <= Len(groups)
    BY <2>1 DEF ParserInv, Writing
  <2>3. Grouped'
    BY <2>1, <2>2, GroupedFrame
  <2>4. Writing'
    BY <2>1, <2>2, <2>3 DEF Writing
  <2> QED BY <1>1, <2>1, <2>4, ChunksStay DEF ParserInv, Read
<1> QED BY <1>2, <1>3, <1>4, <1>5

LEMMA ReturnResultKeeps ==
  ASSUME ParserInv, ReturnResult PROVE ParserInv'
<1>1. /\ at \in Final /\ at' = "idle" /\ doc' = None /\ elements' = <<>> /\ section' = General
      /\ parsed' = <<>> /\ out' = <<>> /\ groups' = <<>> /\ next' = 1 /\ text' = text
      /\ native' = FALSE
  BY DEF ReturnResult, splitterVars, vars
<1>2. text = <<>>
  BY <1>1 DEF ParserInv, Splitting, Final
<1>3. ParserTypeOK'
  BY <1>1, EmptySeq, NoTexts DEF ParserTypeOK, Points, Sections
<1> QED BY <1>1, <1>2, <1>3 DEF ParserInv, BeforeReading, Reading, AfterReading, Found, Splitting,
  AfterSplitting, Writing, Read, RefusedIsExplained

LEMMA ParserNextKeeps ==
  ASSUME SplitterInv, ParserInv, [ParserNext]_<<splitterVars, parserVars>>
  PROVE  ParserInv'
<1>1. CASE OpenDocument \/ PartitionJson \/ LibraryReturns \/ FastStrategyRaises \/ LibraryRaises
  BY <1>1, OpenDocumentKeeps, PartitionJsonKeeps, LibraryReturnsKeeps, FastStrategyRaisesKeeps,
     LibraryRaisesKeeps
<1>2. CASE ParseElement \/ EndOfElements \/ TakeChunk \/ EmitPieces \/ EndOfChunks
  BY <1>2, ParseElementKeeps, EndOfElementsKeeps, TakeChunkKeeps, EmitPiecesKeeps, EndOfChunksKeeps
<1>3. CASE EmbedChunks \/ GroupChunks \/ WritePartition \/ WriteRaises
  BY <1>3, LastStepsKeep
<1>4. CASE ReturnResult
  BY <1>4, ReturnResultKeeps
<1>5. CASE Split
  <2>1. UNCHANGED <<text, parserVars>>
    BY <1>5 DEF Split, SplitStep, SplitChunk, CutPiece, SliceWord, MergeUnit, ReturnCall, Working
  <2> QED BY <2>1, ParserIsFramed
<1>6. CASE UNCHANGED <<splitterVars, parserVars>>
  BY <1>6, ParserIsFramed DEF splitterVars, vars
<1> QED BY <1>1, <1>2, <1>3, <1>4, <1>5, <1>6 DEF ParserNext

-----------------------------------------------------------------------------
(* The theorems *)

(* The invariant of both holds of every behaviour.                         *)
THEOREM ParserInvariant == ParserSpec => [](SplitterInv /\ ParserInv)
<1>1. ParserInit => SplitterInv /\ ParserInv
  BY SplitterStarts, ParserStarts
<1>2. SplitterInv /\ ParserInv /\ [ParserNext]_<<splitterVars, parserVars>> => SplitterInv' /\ ParserInv'
  BY SplitterNextKeeps, ParserNextKeeps
<1> QED BY <1>1, <1>2, PTL DEF ParserSpec

(* A document is refused only if it is broken JSON or shows nothing that   *)
(* the partitioner in use looks for, of a JSON object in the fields read.  *)
THEOREM RefusalIsExplained == ParserSpec => []RefusedIsExplained
<1>1. ParserInv => RefusedIsExplained
  BY DEF ParserInv
<1> QED BY <1>1, ParserInvariant, PTL

(* All the text the partitioner in use looks for in a document that        *)
(* completes is in the chunks of its elements, be it the whole of a file   *)
(* as one; of a JSON object it is the title and the first of the names of  *)
(* a content that has a value.                                             *)
THEOREM TextIsKept == ParserSpec => []VisibleTextIsKept
<1>1. ParserInv => VisibleTextIsKept
  <2> SUFFICES ASSUME ParserInv, at = "completed", NEW k \in Sought,
                      NEW x \in Characters(Node(k).text)
               PROVE  x \in UNION {Characters(out[i].text) :
                        i \in {i \in DOMAIN out : elements[parsed[out[i].parent].element] = k}}
    BY DEF VisibleTextIsKept
  <2>1. /\ Sought \subseteq ToSet(elements) /\ ParsedTo(Len(elements)) /\ EmittedTo(Len(parsed))
        /\ doc \in Documents /\ elements \in Seq(Nat)
        /\ parsed \in Seq([element : Nat, section : Sections])
    BY DEF ParserInv, ParserTypeOK, Found, AfterReading, AfterSplitting, Read
  <2>2. PICK e \in DOMAIN elements : elements[e] = k
    BY <2>1 DEF ToSet
  <2>3. ~Node(elements[e]).blank
    <3>1. k \in Visible \union {0}
      BY <2>1, NodesAre
    <3> QED BY <2>1, <2>2, <3>1, NodesAre
  <2>4. DOMAIN elements = 1..Len(elements) /\ DOMAIN parsed = 1..Len(parsed)
    BY <2>1, LenProperties
  <2>5. PICK p \in DOMAIN parsed : parsed[p].element = e
    BY <2>1, <2>3, <2>4 DEF ParsedTo
  <2>6. x \in OutOf(p)
    BY <2>1, <2>2, <2>4, <2>5 DEF EmittedTo, Source
  <2>7. PICK i \in DOMAIN out : out[i].parent = p /\ x \in Characters(out[i].text)
    BY <2>6 DEF OutOf
  <2> QED BY <2>2, <2>5, <2>7
<1> QED BY <1>1, ParserInvariant, PTL

(* A chunk is in the section of the last heading at or before its element. *)
THEOREM SectionsAreHeadings == ParserSpec => []SectionsFollowHeadings
<1>1. ParserInv => SectionsFollowHeadings
  <2> SUFFICES ASSUME ParserInv, NEW i \in DOMAIN out
               PROVE  out[i].section = HeadingAt(parsed[out[i].parent].element)
    BY DEF SectionsFollowHeadings
  <2>1. at \in Read
    <3>1. out # <<>>
      BY NoTexts
    <3> QED BY <3>1 DEF ParserInv, ParserTypeOK, AfterSplitting
  <2>2. /\ ParsedTo(Len(elements)) /\ parsed \in Seq([element : Nat, section : Sections])
        /\ next \in Nat \ {0}
    BY <2>1 DEF ParserInv, ParserTypeOK, AfterReading
  <2>3. DOMAIN parsed = 1..Len(parsed) /\ Len(parsed) \in Nat
    BY <2>2, LenProperties
  <2>4. out[i].parent \in DOMAIN parsed /\ out[i].section = parsed[out[i].parent].section
    <3>1. CASE at = "split"
      <4>1. EmittedTo(next - 1) /\ next <= Len(parsed) + 1
        BY <3>1 DEF ParserInv, Splitting
      <4>2. out[i].parent \in 1..(next - 1) /\ out[i].section = parsed[out[i].parent].section
        BY <4>1 DEF EmittedTo
      <4> QED BY <2>2, <2>3, <4>1, <4>2
    <3>2. CASE at # "split"
      BY <2>1, <2>3, <3>2 DEF ParserInv, AfterSplitting, EmittedTo
    <3> QED BY <3>1, <3>2
  <2> QED BY <2>2, <2>4 DEF ParsedTo
<1> QED BY <1>1, ParserInvariant, PTL

(* The pieces of a chunk follow each other, numbered without a gap, and    *)
(* the chunks keep their order.                                            *)
THEOREM NumberingHasNoGap == ParserSpec => []PiecesAreNumbered
<1>1. ParserInv => PiecesAreNumbered
  <2> SUFFICES ASSUME ParserInv, at \in {"embed", "group", "write", "completed"}
               PROVE  /\ out[1].parent = 1 /\ out[1].index = 1
                      /\ Last(out).parent = Len(parsed) /\ Last(out).index = Last(out).total
                      /\ \A i \in 1..(Len(out) - 1) : Follows(out[i], out[i + 1])
    BY DEF PiecesAreNumbered, Follows
  <2>1. /\ NumberedTo(Len(parsed)) /\ parsed # <<>>
        /\ parsed \in Seq([element : Nat, section : Sections])
    BY DEF ParserInv, ParserTypeOK, AfterReading, AfterSplitting, Read, EmittedTo
  <2>2. Len(parsed) # 0
    BY <2>1, EmptySeq
  <2> QED BY <2>1, <2>2 DEF NumberedTo, Last
<1> QED BY <1>1, ParserInvariant, PTL

(* A completed document has each of its chunks in the lake, once; one that *)
(* failed has none if it has a filing date, and never all of its rows.     *)
THEOREM RowsAreOfOutcome == ParserSpec => []RowsMatchOutcome
<1>1. ParserInv => RowsMatchOutcome
  <2> SUFFICES ASSUME ParserInv, NEW i \in DOMAIN out
               PROVE  /\ at = "completed" => Written[i] = 1
                      /\ at = "failed" => /\ doc.dated => Written[i] = 0
                                          /\ Written[i] <= 1 /\ Written[Len(out)] = 0
    BY DEF RowsMatchOutcome
  <2> DEFINE G == {g \in DOMAIN groups : g < next /\ i \in groups[g]}
  <2>1. at \in {"write", "completed", "failed"} => Written[i] = Cardinality(G)
    BY DEF Written
  <2>2. DOMAIN out = 1..Len(out) /\ Len(out) \in Nat
    <3>1. out \in Seq([parent : Nat, section : Sections, index : Nat, total : Nat, text : Text])
      BY DEF ParserInv, ParserTypeOK
    <3> QED BY <3>1, LenProperties
  <2>3. ASSUME at = "completed" PROVE Cardinality(G) = 1
    <3>1. Grouped /\ next = Len(groups) + 1
      BY <2>3 DEF ParserInv, Writing
    <3>2. PICK m \in DOMAIN out :
            groups = IF m = Len(out) THEN <<1..m>> ELSE <<1..m, (m + 1)..Len(out)>>
      BY <3>1 DEF Grouped
    <3>3. PICK g : G = {g}
      <4>1. CASE m = Len(out)
        <5>1. groups = <<1..m>>
          BY <3>2, <4>1
        <5>2. Len(groups) = 1 /\ DOMAIN groups = 1..1 /\ groups[1] = 1..m
          BY <5>1
        <5>3. G = {1}
          BY <2>2, <3>1, <4>1, <5>2
        <5> QED BY <5>3
      <4>2. CASE m # Len(out)
        <5>1. groups = <<1..m, (m + 1)..Len(out)>>
          BY <3>2, <4>2
        <5>2. Len(groups) = 2 /\ DOMAIN groups = 1..2 /\ groups[1] = 1..m /\ groups[2] = (m + 1)..Len(out)
          BY <5>1
        <5>3. CASE i <= m
          <6>1. G = {1}
            BY <2>2, <3>1, <5>2, <5>3
          <6> QED BY <6>1
        <5>4. CASE ~(i <= m)
          <6>1. G = {2}
            BY <2>2, <3>1, <5>2, <5>4
          <6> QED BY <6>1
        <5> QED BY <5>3, <5>4
      <4> QED BY <4>1, <4>2
    <3> HIDE DEF G
    <3> QED BY <3>3, FS_Singleton
  <2>4. ASSUME at = "failed", doc.dated PROVE Cardinality(G) = 0
    <3>1. G = {}
      <4>1. CASE groups = <<>>
        BY <4>1, NoTexts
      <4>2. CASE groups # <<>>
        <5>1. Grouped /\ next <= Len(groups) /\ next \in Nat \ {0}
          BY <2>4, <4>2 DEF ParserInv, ParserTypeOK, Writing
        <5>2. Len(groups) = 1 /\ DOMAIN groups = 1..Len(groups)
          BY <2>4, <5>1, GroupsAre
        <5>3. \A g \in DOMAIN groups : ~(g < next)
          BY <5>1, <5>2
        <5> QED BY <5>3
      <4> QED BY <4>1, <4>2
    <3> HIDE DEF G
    <3> QED BY <3>1, FS_EmptySet
  <2>5. ASSUME at = "failed"
        PROVE  Written[i] <= 1 /\ Written[Len(out)] = 0
    <3>1. ASSUME NEW k \in DOMAIN out
          PROVE  Written[k] = Cardinality({g \in DOMAIN groups : g < next /\ k \in groups[g]})
      BY <2>5 DEF Written
    <3>2. Len(out) \in DOMAIN out
      BY <2>2
    <3> DEFINE H(k) == {g \in DOMAIN groups : g < next /\ k \in groups[g]}
    <3>3. \A k \in DOMAIN out : H(k) \in {{}, {1}}
      <4>1. CASE groups = <<>>
        BY <4>1, NoTexts
      <4>2. CASE groups # <<>>
        <5>1. Grouped /\ next <= Len(groups) /\ next \in Nat \ {0}
          BY <2>5, <4>2 DEF ParserInv, ParserTypeOK, Writing
        <5>2. Len(groups) \in {1, 2} /\ DOMAIN groups = 1..Len(groups)
          BY <5>1, GroupsAre
        <5>3. \A g \in DOMAIN groups : g < next => g = 1
          BY <5>1, <5>2
        <5> QED BY <5>3
      <4> QED BY <4>1, <4>2
    <3>4. H(Len(out)) = {}
      <4>1. CASE groups = <<>>
        BY <4>1, NoTexts
      <4>2. CASE groups # <<>>
        <5>1. Grouped /\ next <= Len(groups) /\ next \in Nat \ {0}
          BY <2>5, <4>2 DEF ParserInv, ParserTypeOK, Writing
        <5>2. PICK m \in DOMAIN out :
                groups = IF m = Len(out) THEN <<1..m>> ELSE <<1..m, (m + 1)..Len(out)>>
          BY <5>1 DEF Grouped
        <5>3. CASE m = Len(out)
          <6>1. groups = <<1..m>>
            BY <5>2, <5>3
          <6>2. Len(groups) = 1 /\ DOMAIN groups = 1..1
            BY <6>1
          <6> QED BY <5>1, <6>2
        <5>4. CASE m # Len(out)
          <6>1. groups = <<1..m, (m + 1)..Len(out)>>
            BY <5>2, <5>4
          <6>2. Len(groups) = 2 /\ DOMAIN groups = 1..2 /\ groups[1] = 1..m
            BY <6>1
          <6>3. Len(out) \notin 1..m
            BY <2>2, <5>4
          <6>4. \A g \in DOMAIN groups : g < next => g = 1
            BY <5>1, <6>2
          <6> QED BY <6>2, <6>3, <6>4
        <5> QED BY <5>3, <5>4
      <4> QED BY <4>1, <4>2
    <3> HIDE DEF H
    <3>5. \A k \in DOMAIN out : Cardinality(H(k)) <= 1
      <4>1. Cardinality({}) = 0 /\ Cardinality({1}) = 1
        BY FS_EmptySet, FS_Singleton
      <4> QED BY <3>3, <4>1
    <3>6. Cardinality(H(Len(out))) = 0
      BY <3>4, FS_EmptySet
    <3> QED BY <3>1, <3>2, <3>5, <3>6, <2>5 DEF H
  <2> HIDE DEF G
  <2> QED BY <2>1, <2>3, <2>4, <2>5
<1> QED BY <1>1, ParserInvariant, PTL

=============================================================================
