------------------------------ MODULE Splitter ------------------------------
(***************************************************************************)
(* RecursiveTokenSplitter: the elements of a parsed document are cut into  *)
(* chunks small enough for the embedding model, with an overlap.           *)
(*                                                                         *)
(* A text is a sequence of words, each followed by a delimiter.  The       *)
(* characters of an element are numbered, so that a word is the interval   *)
(* of its characters and a slice of it a smaller one; the delimiter is its *)
(* level in the hierarchy (1 the coarsest), that of the last word of a     *)
(* text counting for nothing: strip() and join() leave it out.  Words are  *)
(* of letters, one token each, or of punctuation marks, a token a mark.    *)
(***************************************************************************)
EXTENDS Naturals, SequencesExt

CONSTANTS
  MaxChunkTokens, MaxCharacters,  (* ChunkingSettings                      *)
  Overlaps,                 (* the chunk_overlap_tokens a process may have *)
  SepTokens, SepLength,     (* of each delimiter, from coarse to fine      *)
  Texts                     (* bound: the elements the parser produces     *)

Levels == DOMAIN SepTokens

ASSUME SettingsAssumption ==
  /\ {MaxChunkTokens, MaxCharacters} \subseteq Nat \ {0}
  /\ Overlaps \subseteq Nat
  /\ SepTokens \in Seq(Nat) /\ SepLength \in Seq(Nat)
  /\ Len(SepLength) = Len(SepTokens)

Word == {w \in [first : Nat, last : Nat, marks : BOOLEAN, sep : Levels] : w.first <= w.last}

(* The words of a text as it is in the element: one after the other.       *)
Ascending(t) == \A j, k \in DOMAIN t : j < k => t[j].last < t[k].first

ASSUME TextsAssumption ==
  \A t \in Texts : t \in Seq(Word) \ {<<>>} /\ Ascending(t)

VARIABLES
  overlap,   (* chunk_overlap_tokens                                       *)
  text,      (* the element in hand                                        *)
  calls,     (* calls of _split_text_with_delimiters at work, innermost    *)
             (* last                                                       *)
  chunks     (* what split_chunk made of it, <<>> before                   *)

vars == <<overlap, text, calls, chunks>>

-----------------------------------------------------------------------------
(* Measures *)

WordLength(w) == w.last - w.first + 1

(* estimate_token_count: a run of letters is one token, every mark is one. *)
WordTokens(w) == IF w.marks THEN WordLength(w) ELSE 1

(* The sums of the first of some numbers. *)
UpTo(s) == LET f[k \in 0..Len(s)] == IF k = 0 THEN 0 ELSE f[k - 1] + s[k] IN f

SumSeq(s) == UpTo(s)[Len(s)]

(* What the delimiter after a word is worth: nothing at the end of a text. *)
Gap(t, k, ofSep) == IF k = Len(t) THEN 0 ELSE ofSep[t[k].sep]

Tokens(t) == SumSeq([k \in DOMAIN t |-> WordTokens(t[k]) + Gap(t, k, SepTokens)])
Length(t) == SumSeq([k \in DOMAIN t |-> WordLength(t[k]) + Gap(t, k, SepLength)])

Fits(t) == Tokens(t) <= MaxChunkTokens /\ Length(t) <= MaxCharacters

-----------------------------------------------------------------------------
(* A call *)

Least(S) == CHOOSE n \in S : \A m \in S : n <= m

(* The first delimiter of the hierarchy that occurs in the text; 0 if      *)
(* there is none: a single word.                                           *)
ChosenDelimiter(t) == IF Len(t) = 1 THEN 0 ELSE Least({t[k].sep : k \in 1..(Len(t) - 1)})

NewCall(t) ==
  [level  |-> ChosenDelimiter(t),
   rest   |-> t,       (* of the text, what is not yet cut                 *)
   units  |-> <<>>,    (* cut and not yet merged                           *)
   window |-> <<>>,    (* current_units, joined                            *)
   cuts   |-> {},      (* where each of them ends in window                *)
   done   |-> <<>>]    (* the chunks to return                             *)

Call == calls[Len(calls)]
Become(c) == [calls EXCEPT ![Len(calls)] = c]

Working == calls # <<>> /\ UNCHANGED <<overlap, text>>

(* sep.join *)
Glue(t, level, u) == IF t = <<>> THEN u ELSE [t EXCEPT ![Len(t)].sep = level] \o u

(* text.split(chosen_delim), a piece at a time; a piece beyond the limits  *)
(* is cut with the finer delimiters first.                                 *)
CutPiece ==
  /\ Working /\ Call.level # 0 /\ Call.rest # <<>>
  /\ LET t     == Call.rest
         k     == Least({i \in DOMAIN t : t[i].sep = Call.level \/ i = Len(t)})
         piece == SubSeq(t, 1, k)
         after == [Call EXCEPT !.rest = SubSeq(t, k + 1, Len(t))]
     IN  calls' = IF Fits(piece) THEN Become([after EXCEPT !.units = Append(@, piece)])
                  ELSE Append(Become(after), NewCall(piece))
  /\ UNCHANGED chunks

Smaller(m, n) == IF m < n THEN m ELSE n

Step == Smaller(MaxCharacters, 3 * MaxChunkTokens)
Advance == IF 3 * overlap < Step THEN Step - 3 * overlap ELSE 1

FirstSlice(w) == [w EXCEPT !.last = Smaller(w.last, w.first + Step - 1)]

(* Mutant of SliceWord: goes on after the slice that reaches the end.      *)
SlicePastEnd ==
  /\ Working /\ Call.level = 0 /\ Call.rest # <<>>
  /\ LET w == Call.rest[1]
     IN  calls' = Become([Call EXCEPT
           !.done = Append(@, <<FirstSlice(w)>>),
           !.rest = IF w.first + Advance > w.last THEN <<>>
                    ELSE <<[w EXCEPT !.first = @ + Advance]>>])
  /\ UNCHANGED chunks

(* A word too long is sliced by characters; slices overlap by three        *)
(* characters a token.  The slice that reaches the end is the last.        *)
SliceWord ==
  /\ Working /\ Call.level = 0 /\ Call.rest # <<>>
  /\ LET w == Call.rest[1]
     IN  calls' = Become([Call EXCEPT
           !.done = Append(@, <<FirstSlice(w)>>),
           !.rest = IF FirstSlice(w).last = w.last THEN <<>>
                    ELSE <<[w EXCEPT !.first = @ + Advance]>>])
  /\ UNCHANGED chunks

Overfull(c, u) == c.window # <<>> /\ ~Fits(Glue(c.window, c.level, u))

From(t, k) == SubSeq(t, k + 1, Len(t))

(* Mutant of Dropped: the units are dropped one too few.                   *)
DroppedButOne(c) ==
  LET k == Least({i \in c.cuts \union {0} : Tokens(From(c.window, i)) <= overlap})
      before == {i \in c.cuts \union {0} : i < k}
  IN  IF before = {} THEN k ELSE CHOOSE i \in before : \A j \in before : j <= i

(* Of a finished chunk the last units that are worth at most the overlap   *)
(* are kept; this is how many words go.                                    *)
Dropped(c) == Least({i \in c.cuts \union {0} : Tokens(From(c.window, i)) <= overlap})

MergeUnit ==
  /\ Working /\ Call.rest = <<>> /\ Call.units # <<>>
  /\ LET u    == Head(Call.units)
         full == Overfull(Call, u)
         k    == IF full THEN Dropped(Call) ELSE 0
         kept == From(Call.window, k)
     IN  calls' = Become([Call EXCEPT
           !.units  = Tail(@),
           !.done   = IF full THEN Append(@, Call.window) ELSE @,
           !.window = Glue(kept, Call.level, u),
           !.cuts   = {j - k : j \in {i \in Call.cuts : i > k}} \union {Len(kept) + Len(u)}])
  /\ UNCHANGED chunks

(* Mutant of Result: the last window is not emitted if it is short.        *)
ResultOfFullWindows(c) ==
  IF c.window = <<>> \/ (Cardinality(c.cuts) = 1 /\ c.done # <<>>) THEN c.done
  ELSE Append(c.done, c.window)

Result(c) == IF c.window = <<>> THEN c.done ELSE Append(c.done, c.window)

(* To the call it was made from, which has its level; or to split_chunk.   *)
(* That keeps the chunk it had if one slice came of it: without the white  *)
(* space left out here, the slice is then the whole of the text.           *)
ReturnCall ==
  /\ Working /\ Call.rest = <<>> /\ Call.units = <<>>
  /\ LET n == Len(calls)
     IN  IF n = 1 THEN calls' = <<>> /\ chunks' = Result(Call)
         ELSE /\ calls' = [Front(calls) EXCEPT ![n - 1].units = @ \o Result(Call)]
              /\ UNCHANGED chunks

-----------------------------------------------------------------------------
(* split_chunks: the elements one after the other; Parser has the loop *)

Init == overlap \in Overlaps /\ text = <<>> /\ calls = <<>> /\ chunks = <<>>

ReadElement == /\ text = <<>>
               /\ text' \in Texts
               /\ UNCHANGED <<overlap, calls, chunks>>

SplitChunk == /\ text # <<>> /\ calls = <<>> /\ chunks = <<>>
              /\ IF Fits(text) THEN chunks' = <<text>> /\ UNCHANGED calls
                 ELSE calls' = <<NewCall(text)>> /\ UNCHANGED chunks
              /\ UNCHANGED <<overlap, text>>

SplitStep == SplitChunk \/ CutPiece \/ SliceWord \/ MergeUnit \/ ReturnCall

EmitChunks == /\ chunks # <<>>
              /\ text' = <<>> /\ chunks' = <<>>
              /\ UNCHANGED <<overlap, calls>>

-----------------------------------------------------------------------------
(* Properties *)

Characters(t) == UNION {t[k].first .. t[k].last : k \in DOMAIN t}

Plain(t) == \A k \in DOMAIN t : ~t[k].marks

(* Every character of every word of an element is in one of its chunks,    *)
(* through slicing, nested splitting, merging and overlap.                 *)
NothingLost ==
  chunks # <<>> =>
    Characters(text) = UNION {Characters(chunks[i]) : i \in DOMAIN chunks}

(* Each chunk goes beyond where the one before it ended: the overlap never *)
(* makes a chunk that repeats what was emitted, at whatever level.         *)
EachChunkAdvances ==
  \A i \in 1..(Len(chunks) - 1) : Last(chunks[i]).last < Last(chunks[i + 1]).last

(* Without over-long runs of marks and without overlap the limits are kept, *)
(* both of them, although pieces cut at one level are merged at another.    *)
(* With overlap a chunk exceeds its tokens by at most an overlap and the    *)
(* delimiter after it for every level of the hierarchy it was merged at.    *)
ExcessIsBounded ==
  Plain(text) => \A i \in DOMAIN chunks :
    /\ overlap = 0 => Fits(chunks[i])
    /\ Tokens(chunks[i]) <= MaxChunkTokens
                              + SumSeq([l \in Levels |-> overlap + SepTokens[l]])
=============================================================================
