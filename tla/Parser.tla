------------------------------- MODULE Parser -------------------------------
(***************************************************************************)
(* DocumentParser.process on one document after the other: partitioning    *)
(* with its fallbacks, the loop over the elements with the section         *)
(* tracker, RecursiveTokenSplitter on what comes of it, embedding, and     *)
(* ParquetSink.write_chunks with a file per partition.                     *)
(*                                                                         *)
(* A file is a sequence of nodes: tables, text in a tag the native HTML    *)
(* partitioner knows, and loose text (paragraphs of a plain text are       *)
(* loose).  The text of a table is its markup; it is blank if nothing of   *)
(* it would be seen.  A node may begin like a heading of SectionTracker,   *)
(* whatever it is.  The nodes of a JSON object are its fields, those of an *)
(* array its items; a scalar is one node.  An element is the position of   *)
(* its node, 0 standing for the whole file as one text: the undecoded      *)
(* bytes of one that is not text, or the dump of a JSON object.            *)
(***************************************************************************)
EXTENDS Splitter

CONSTANTS
  Documents,     (* bound: the files to process                            *)
  Whole,         (* what a binary file is as text, or the dump of an object *)
  General,       (* SectionTracker's initial section                       *)
  None           (* no heading, no document, no field                      *)

Json == {"object", "array", "scalar"}

Keys == {"title", "name", "content", "text", "body", "other"}

(* A value may be falsy and be seen (0), and blank without being falsy.    *)
NodeOK(n) ==
  /\ {n.table, n.tagged, n.blank, n.falsy} \subseteq BOOLEAN
  /\ n.text \in Texts \union {<<>>} /\ n.key \in Keys \union {None}
  /\ IF n.table THEN n.text # <<>> ELSE n.blank <=> n.text = <<>>

Loose(n) == ~n.table /\ ~n.tagged

ASSUME DocumentsAssumption ==
  /\ NodeOK(Whole) /\ Loose(Whole) /\ ~Whole.blank /\ Whole.heading = None
  /\ \A d \in Documents :
       /\ d.format \in {"html", "pdf", "txt", "other"} \union Json
       /\ {d.dated, d.valid} \subseteq BOOLEAN
       /\ d.nodes \in Seq(ToSet(d.nodes))
       /\ d.format = "scalar" => Len(d.nodes) = 1
       /\ \A k \in DOMAIN d.nodes :
            /\ NodeOK(d.nodes[k])
            /\ d.format \in Json => Loose(d.nodes[k])
            /\ d.nodes[k].key # None <=> d.format = "object"
            /\ \A j \in DOMAIN d.nodes :
                 d.nodes[j].key = d.nodes[k].key => j = k \/ d.nodes[k].key \in {"other", None}
            /\ d.format = "html" /\ k > 1 =>
                 ~(Loose(d.nodes[k]) /\ Loose(d.nodes[k - 1]))

VARIABLES
  doc,       (* the file in hand, with its format and whether it has a     *)
             (* filing date and, if JSON, is valid                         *)
  at,        (* point reached                                              *)
  elements,  (* raw_elements                                               *)
  section,   (* SectionTracker._current_section                            *)
  parsed,    (* the chunks of parse before the splitter                    *)
  out,       (* the chunks after it                                        *)
  groups,    (* partitions of write_chunks, as sets of positions in out    *)
  next,      (* the element, chunk or group of the loop at work            *)
  native     (* history: the library failed and the parser fell back       *)

parserVars == <<doc, at, elements, section, parsed, out, groups, next, native>>
splitterVars == vars

Final == {"refused", "failed", "completed"}

ParserInit ==
  /\ Init
  /\ doc = None /\ at = "idle" /\ elements = <<>> /\ section = General
  /\ parsed = <<>> /\ out = <<>> /\ groups = <<>> /\ next = 1 /\ native = FALSE

-----------------------------------------------------------------------------
(* Partitioning *)

Node(k) == IF k = 0 THEN Whole ELSE doc.nodes[k]

(* Some of its nodes, in the order of the document: the one sequence.      *)
InOrder(nodes) ==
  {s \in [1..Cardinality(nodes) -> nodes] :
     /\ ToSet(s) = nodes
     /\ \A i, j \in DOMAIN s : i < j => s[i] < s[j]}

Visible == {k \in DOMAIN doc.nodes : ~Node(k).blank}

(* The nodes between the same two tables.                                  *)
SameRun(j, k) == \A i \in DOMAIN doc.nodes :
                   i \in j..k \union k..j => ~Node(i).table

(* Loose text that _native_partition_html does not look for, as there is   *)
(* a tag it knows, be it an empty one, between the same two tables.        *)
Stray == {k \in Visible : /\ Loose(Node(k))
                          /\ \E j \in DOMAIN doc.nodes : Node(j).tagged /\ SameRun(j, k)}

(* Mutant of NativeHtml: what is in no tag is never looked for.            *)
NativeHtmlTagged == InOrder({k \in Visible : ~Loose(Node(k))})

NativeHtml == InOrder(Visible \ Stray)

(* _native_partition_text; paragraphs of binary data are nobody's text.    *)
NativeText == IF doc.format = "txt" THEN InOrder(Visible) ELSE {<<0>>}

(* The field data.get(...) or data.get(...) is read from: that of the      *)
(* first of the names with a truthy value, if there is one.                *)
FirstOf(names) ==
  {k \in DOMAIN doc.nodes :
     /\ ~Node(k).falsy
     /\ \E i \in DOMAIN names :
          /\ Node(k).key = names[i]
          /\ \A j \in DOMAIN doc.nodes :
               ~Node(j).falsy => \A h \in 1..(i - 1) : Node(j).key # names[h]}

Titles   == FirstOf(<<"title", "name">>)
Contents == FirstOf(<<"content", "text", "body">>)

(* Of a JSON object its title, and its content or, if it has none, a dump  *)
(* of it all: no other field is read.  Of an array every item, be it       *)
(* empty; a scalar as it is.                                               *)
JsonElements ==
  IF doc.format # "object" THEN InOrder(DOMAIN doc.nodes)
  ELSE {title \o content : title \in InOrder(Titles),
                           content \in IF Contents = {} THEN {<<0>>} ELSE InOrder(Contents)}

Partitioned(found) ==
  /\ elements' \in found
  /\ at' = IF elements' = <<>> THEN "refused" ELSE "read"
  /\ UNCHANGED <<splitterVars, doc, section, parsed, out, groups, next>>

(* A file of no bytes is refused at once; an object without fields is not  *)
(* such a file.                                                            *)
OpenDocument ==
  /\ at = "idle"
  /\ doc' \in Documents
  /\ at' = IF doc'.nodes = <<>> /\ doc'.format # "object" THEN "refused" ELSE "partition"
  /\ UNCHANGED <<splitterVars, elements, section, parsed, out, groups, next, native>>

PartitionJson ==
  /\ at = "partition" /\ doc.format \in Json
  /\ Partitioned(IF doc.valid THEN JsonElements ELSE {<<>>})
  /\ UNCHANGED native

(* partition_html, partition_pdf, partition_text or partition of the       *)
(* unstructured library finds the text there is.                           *)
LibraryReturns ==
  /\ at \in {"partition", "auto"} /\ doc.format \notin Json
  /\ Partitioned(InOrder(Visible))
  /\ UNCHANGED native

(* The fast strategy for a PDF fails: the library chooses another.         *)
FastStrategyRaises ==
  /\ at = "partition" /\ doc.format = "pdf"
  /\ at' = "auto"
  /\ UNCHANGED <<splitterVars, doc, elements, section, parsed, out, groups, next, native>>

(* Mutant of LibraryRaises: nothing but plain text has a fallback.         *)
LibraryRaisesForGood ==
  /\ at = (IF doc # None /\ doc.format = "pdf" THEN "auto" ELSE "partition")
  /\ doc.format \notin Json
  /\ Partitioned(IF doc.format = "html" THEN {<<>>} ELSE NativeText)
  /\ native' = TRUE

(* It fails, or is not installed: the native fallback.                     *)
LibraryRaises ==
  /\ at = (IF doc # None /\ doc.format = "pdf" THEN "auto" ELSE "partition")
  /\ doc.format \notin Json
  /\ Partitioned(IF doc.format = "html" THEN NativeHtml ELSE NativeText)
  /\ native' = TRUE

-----------------------------------------------------------------------------
(* The elements one by one: sections and chunks *)

SectionAfter(n) == IF n.heading = None THEN section ELSE n.heading

(* Mutant of ParseElement: the tracker is updated after the chunk is made. *)
ParseElementFirst ==
  /\ at = "read" /\ next <= Len(elements)
  /\ LET n == Node(elements[next])
     IN  /\ section' = SectionAfter(n)
         /\ parsed' = IF n.blank /\ ~n.table THEN parsed
                      ELSE Append(parsed, [element |-> next, section |-> section])
  /\ next' = next + 1
  /\ UNCHANGED <<splitterVars, doc, at, elements, out, groups, native>>

ParseElement ==
  /\ at = "read" /\ next <= Len(elements)
  /\ LET n == Node(elements[next])
     IN  /\ section' = SectionAfter(n)
         /\ parsed' = IF n.blank /\ ~n.table THEN parsed
                      ELSE Append(parsed, [element |-> next, section |-> section'])
  /\ next' = next + 1
  /\ UNCHANGED <<splitterVars, doc, at, elements, out, groups, native>>

EndOfElements ==
  /\ at = "read" /\ next > Len(elements)
  /\ at' = IF parsed = <<>> THEN "refused" ELSE "split"
  /\ next' = 1
  /\ UNCHANGED <<splitterVars, doc, elements, section, parsed, out, groups, native>>

Source(p) == Node(elements[parsed[p].element])

TakeChunk ==
  /\ at = "split" /\ next <= Len(parsed)
  /\ text' = Source(next).text
  /\ ReadElement
  /\ UNCHANGED parserVars

Split == SplitStep /\ UNCHANGED parserVars

(* Mutant of EmitPieces: the pieces are numbered through the document.     *)
EmitPiecesRunning ==
  /\ EmitChunks
  /\ out' = out \o [i \in DOMAIN chunks |->
                      [parent |-> next, section |-> parsed[next].section,
                       index |-> Len(out) + i, total |-> Len(chunks), text |-> chunks[i]]]
  /\ next' = next + 1
  /\ UNCHANGED <<doc, at, elements, section, parsed, groups, native>>

(* split_chunk: the pieces are numbered, and have what the chunk had.      *)
EmitPieces ==
  /\ EmitChunks
  /\ out' = out \o [i \in DOMAIN chunks |->
                      [parent |-> next, section |-> parsed[next].section,
                       index |-> i, total |-> Len(chunks), text |-> chunks[i]]]
  /\ next' = next + 1
  /\ UNCHANGED <<doc, at, elements, section, parsed, groups, native>>

EndOfChunks ==
  /\ at = "split" /\ next > Len(parsed)
  /\ at' = "embed" /\ next' = 1
  /\ UNCHANGED <<splitterVars, doc, elements, section, parsed, out, groups, native>>

-----------------------------------------------------------------------------
(* Embedding and writing *)

EmbedChunks ==
  /\ at = "embed"
  /\ at' \in {"group", "failed"}
  /\ UNCHANGED <<splitterVars, doc, elements, section, parsed, out, groups, next, native>>

(* Mutant of GroupChunks: the day is asked for even if there is a date.    *)
GroupChunksToday ==
  /\ at = "group" /\ at' = "write"
  /\ \E m \in DOMAIN out :
       groups' = IF m = Len(out) THEN <<1..m>> ELSE <<1..m, (m + 1)..Len(out)>>
  /\ UNCHANGED <<splitterVars, doc, elements, section, parsed, out, next, native>>

(* resolve_date is called for chunk after chunk: without a filing date it  *)
(* is the day it is, and midnight may fall between any two of them.        *)
GroupChunks ==
  /\ at = "group" /\ at' = "write"
  /\ \E m \in DOMAIN out :
       /\ doc.dated => m = Len(out)
       /\ groups' = IF m = Len(out) THEN <<1..m>> ELSE <<1..m, (m + 1)..Len(out)>>
  /\ UNCHANGED <<splitterVars, doc, elements, section, parsed, out, next, native>>

WritePartition ==
  /\ at = "write"
  /\ next' = next + 1
  /\ at' = IF next = Len(groups) THEN "completed" ELSE "write"
  /\ UNCHANGED <<splitterVars, doc, elements, section, parsed, out, groups, native>>

WriteRaises ==
  /\ at = "write" /\ at' = "failed"
  /\ UNCHANGED <<splitterVars, doc, elements, section, parsed, out, groups, next, native>>

(* The result is returned, and the next document can come.                 *)
ReturnResult ==
  /\ at \in Final /\ at' = "idle"
  /\ doc' = None /\ elements' = <<>> /\ section' = General /\ parsed' = <<>>
  /\ out' = <<>> /\ groups' = <<>> /\ next' = 1 /\ native' = FALSE
  /\ UNCHANGED splitterVars

ParserNext ==
  \/ OpenDocument \/ PartitionJson \/ LibraryReturns \/ FastStrategyRaises \/ LibraryRaises
  \/ ParseElement \/ EndOfElements \/ TakeChunk \/ Split \/ EmitPieces \/ EndOfChunks
  \/ EmbedChunks \/ GroupChunks \/ WritePartition \/ WriteRaises \/ ReturnResult

ParserSpec == ParserInit /\ [][ParserNext]_<<splitterVars, parserVars>>
-----------------------------------------------------------------------------
(* Properties *)

(* The rows of the document in the lake: those of the groups written.      *)
Written == IF at \in {"write", "completed", "failed"}
           THEN [i \in DOMAIN out |-> Cardinality({g \in DOMAIN groups : g < next /\ i \in groups[g]})]
           ELSE [i \in {} |-> 0]

(* The names looked up before another: what has a value under one of them  *)
(* is read instead.                                                        *)
Before(key) == CASE key = "name" -> {"title"}
                 [] key = "text" -> {"content"}
                 [] key = "body" -> {"content", "text"}
                 [] OTHER -> {}

(* The fields of an object that are read.  Passed over are falsy values,   *)
(* fields of any other name, and those with a value under a name before.   *)
Fields == {k \in DOMAIN doc.nodes :
             /\ Node(k).key \in Keys \ {"other"} /\ ~Node(k).falsy
             /\ \A j \in DOMAIN doc.nodes :
                  Node(j).key \in Before(Node(k).key) => Node(j).falsy}

HasContent == \E k \in DOMAIN doc.nodes :
                ~Node(k).falsy /\ Node(k).key \in {"content", "text", "body"}

(* What the partitioner in use looks for.  Not looked for is text outside  *)
(* tags by the native HTML fallback (Stray), what a binary file would show *)
(* once its bytes are read instead, and of a JSON object with a content    *)
(* all fields but those read.  Without a content the whole of it is dumped. *)
Sought ==
  CASE doc.format = "object" -> (Visible \intersect Fields) \union (IF HasContent THEN {} ELSE {0})
    [] native /\ doc.format = "html" -> Visible \ Stray
    [] native /\ doc.format \in {"pdf", "other"} -> {0}
    [] OTHER -> Visible

(* All the text a partitioner looks for in a document that completes is in *)
(* its chunks, be it the whole of a file as one.                           *)
VisibleTextIsKept ==
  at = "completed" =>
    \A k \in Sought :
      Characters(Node(k).text) \subseteq
        UNION {Characters(out[i].text) :
                 i \in {i \in DOMAIN out : elements[parsed[out[i].parent].element] = k}}

(* The last heading at or before an element. *)
HeadingAt(e) ==
  LET headings == {f \in 1..e : Node(elements[f]).heading # None}
  IN  IF headings = {} THEN General
      ELSE Node(elements[CHOOSE f \in headings : \A g \in headings : g <= f]).heading

(* A chunk is in the section of the last heading at or before its element, *)
(* across blank elements, tables and splitting.                            *)
SectionsFollowHeadings ==
  \A i \in DOMAIN out : out[i].section = HeadingAt(parsed[out[i].parent].element)

(* The pieces of a chunk follow each other, numbered without a gap, and    *)
(* the chunks keep their order.                                            *)
PiecesAreNumbered ==
  at \in {"embed", "group", "write", "completed"} =>
    /\ out[1].parent = 1 /\ out[1].index = 1
    /\ Last(out).parent = Len(parsed) /\ Last(out).index = Last(out).total
    /\ \A i \in 1..(Len(out) - 1) :
         \/ /\ out[i + 1].parent = out[i].parent /\ out[i + 1].index = out[i].index + 1
            /\ out[i + 1].total = out[i].total
         \/ /\ out[i + 1].parent = out[i].parent + 1 /\ out[i + 1].index = 1
            /\ out[i].index = out[i].total

(* A completed document has each of its chunks in the lake, once, whether  *)
(* or not midnight passed; one that failed has left rows behind only if it *)
(* has no filing date (and midnight fell among its chunks), and never all. *)
RowsMatchOutcome ==
  \A i \in DOMAIN out :
    /\ at = "completed" => Written[i] = 1
    /\ at = "failed" => /\ doc.dated => Written[i] = 0
                        /\ Written[i] <= 1 /\ Written[Len(out)] = 0

(* A document is refused only if it is broken JSON or shows no text that   *)
(* is looked for in it: that a partitioner fails is not enough.  A JSON    *)
(* object is, if what is read of it is blank, whatever its other fields.   *)
RefusedIsExplained ==
  at = "refused" => ~doc.valid \/ Sought = {}
=============================================================================
