------------------------------ MODULE MCParser ------------------------------
(* A small instance of Parser for TLC.  To the splitter goes every text of *)
(* up to five words of one or seven letters, or up to three with runs of   *)
(* marks, under three delimiters: the paragraph break, the full stop       *)
(* (itself a token) and the blank.  To the parser go files of up to three  *)
(* nodes with a short text or one to be split.                             *)
EXTENDS Parser

MCSepTokens == <<0, 1, 0>>
MCSepLength == <<2, 2, 1>>

(* The text whose k-th word has the given length, kind and delimiter.      *)
TextOf(shape) ==
  [k \in DOMAIN shape |->
     LET start == FoldLeft(LAMBDA n, s : n + s[1], 1, SubSeq(shape, 1, k - 1))
     IN  [first |-> start, last |-> start + shape[k][1] - 1,
          marks |-> shape[k][2], sep |-> shape[k][3]]]

(* The delimiter after the last word counts for nothing: it is a blank.    *)
Shapes(n, kinds) ==
  UNION {{s \in [1..k -> {1, 7} \X kinds \X (1..3)] : s[k][3] = 3} : k \in 1..n}

PlainTexts  == {TextOf(s) : s \in Shapes(5, {FALSE})}
MarkedTexts == {TextOf(s) : s \in Shapes(3, BOOLEAN)}
MCTexts     == PlainTexts \union MarkedTexts

Short == TextOf(<<<<1, FALSE, 3>>>>)
Long  == TextOf(<<<<7, FALSE, 1>>, <<1, FALSE, 3>>>>)

MCNode(table, tagged, blank, heading, txt) ==
  [table |-> table, tagged |-> tagged, blank |-> blank, heading |-> heading, text |-> txt,
   key |-> None, falsy |-> FALSE]

MCWhole == MCNode(FALSE, FALSE, FALSE, None, Short)

Blank == MCNode(FALSE, FALSE, TRUE, None, <<>>)
Paragraphs == {MCNode(FALSE, FALSE, FALSE, h, Short) : h \in {None, "Item 1"}}
                \union {MCNode(FALSE, FALSE, FALSE, None, Long)}

HtmlNodes ==
  Paragraphs
    \union {MCNode(FALSE, TRUE, FALSE, None, Short), MCNode(FALSE, TRUE, FALSE, "Part I", Long)}
    \union {MCNode(FALSE, TRUE, TRUE, None, <<>>)}
    \union {MCNode(TRUE, FALSE, b, None, Long) : b \in BOOLEAN}
    \union {MCNode(TRUE, FALSE, FALSE, "Item 1", Short)}

File(format, nodes, dated, valid) ==
  [format |-> format, nodes |-> nodes, dated |-> dated, valid |-> valid]

Sequences(S, n) == UNION {[1..k -> S] : k \in 0..n}

(* The fields of objects: one or two of any name and value, or three that  *)
(* have a value or not; named fields once.                                 *)
Field(key, falsy, n) == [n EXCEPT !.key = key, !.falsy = falsy]

Fields2 == {Field(key, FALSE, n) : key \in Keys, n \in Paragraphs \union {Blank}}
             \union {Field(key, TRUE, n) : key \in Keys, n \in {Blank, MCNode(FALSE, FALSE, FALSE, None, Short)}}
Fields3 == {Field(key, FALSE, MCNode(FALSE, FALSE, FALSE, None, Short)) : key \in Keys}
             \union {Field(key, TRUE, Blank) : key \in Keys}

Objects == {s \in Sequences(Fields2, 2) \union [1..3 -> Fields3] :
              \A j, k \in DOMAIN s : s[j].key = s[k].key => j = k \/ s[k].key = "other"}

MCDocuments ==
  {File("txt", <<MCNode(FALSE, FALSE, FALSE, None, t)>>, TRUE, TRUE) : t \in MCTexts}
    \union {f \in {File("html", s, Len(s) < 2, TRUE) : s \in Sequences(HtmlNodes, 3)} :
              \A k \in 2..Len(f.nodes) : ~(Loose(f.nodes[k]) /\ Loose(f.nodes[k - 1]))}
    \union {File("txt", s, FALSE, TRUE) : s \in Sequences(Paragraphs, 2)}
    \union {File(k, s, d, TRUE) : k \in {"pdf", "other"}, d \in BOOLEAN,
                                  s \in Sequences(Paragraphs \union {Blank}, 2)}
    \union {File("object", s, TRUE, TRUE) : s \in Objects}
    \union {File("scalar", <<n>>, FALSE, TRUE) : n \in Paragraphs \union {Blank}}
    \union {File("array", s, d, v) : d \in BOOLEAN, v \in BOOLEAN,
                                     s \in Sequences(Paragraphs \union {Blank}, 2)}
=============================================================================
