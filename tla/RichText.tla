------------------------------- MODULE RichText -------------------------------
(***************************************************************************)
(* Formatted text.  RichMessageEditor.tsx keeps the draft as markdown: it  *)
(* writes its document out after every input and reads it back when the    *)
(* draft is opened again, by replacing one kind of mark after another.     *)
(* message-bubble.tsx reads the same markdown its own way, splitting it    *)
(* from left to right.  A document is a sequence of runs; the elements     *)
(* around a run are listed outermost first, and neighbours share theirs.   *)
(* Quotes, lists and links are left out.                                   *)
(***************************************************************************)
EXTENDS Naturals, Sequences, FiniteSets, SequencesExt

CONSTANTS
  Words,     \* what is written, none of it a mark
  Break,     \* a line break
  Marks,     \* the formats in use
  MaxRuns,   \* bound: runs of a document
  MaxDepth   \* bound: elements around a run

Formats == {"strong", "em", "u", "s", "code"}

TextAssumption ==
  /\ Marks \subseteq Formats
  /\ Break \notin Words
  /\ MaxRuns \in Nat /\ MaxDepth \in Nat

VARIABLES doc  \* the document of the editor

-----------------------------------------------------------------------------
(* Marks in text.  Text is a sequence of words and breaks (<<"text", w>>),  *)
(* mark characters (<<"mark", c>>) and tags (<<"open", m>>, <<"close", m>>). *)

Sign(m) ==
  LET Of(n, c) == [i \in 1..n |-> <<"mark", c>>]
  IN  CASE m = "strong" -> Of(2, "star") [] m = "em" -> Of(1, "star") [] m = "u" -> Of(2, "underscore")
        [] m = "s" -> Of(2, "tilde")     [] m = "code" -> Of(1, "backtick")

Signed(s, i, m) == LET n == Len(Sign(m)) IN i + n - 1 <= Len(s) /\ SubSeq(s, i, i + n - 1) = Sign(m)

\* Where the text between a mark at i and the next one may end: it has at least
\* least characters and, if a dot matches it, no break.
Ends(s, i, m, least, dot) ==
  LET from == i + Len(Sign(m))
  IN  {j \in (from + least)..Len(s):
         Signed(s, j, m) /\ (dot => \A k \in from..(j - 1): s[k] # <<"text", Break>>)}

First(S) == CHOOSE i \in S: \A j \in S: i <= j

Rest(s, i) == SubSeq(s, i, Len(s))

-----------------------------------------------------------------------------
(* syncDraft and nodeToMarkdown *)

\* The marks that lead from the elements of one run to those of the next.
Between(from, to) ==
  LET kept == CHOOSE n \in 0..Len(from):
                /\ n <= Len(to) /\ SubSeq(from, 1, n) = SubSeq(to, 1, n)
                /\ n < Len(from) /\ n < Len(to) => from[n + 1] # to[n + 1]
  IN  FlattenSeq([i \in 1..(Len(from) - kept) |-> Sign(from[Len(from) + 1 - i])])
      \o FlattenSeq([i \in 1..(Len(to) - kept) |-> Sign(to[kept + i])])

NodeToMarkdown(d) ==
  LET Around(i) == IF i \in DOMAIN d THEN d[i].marks ELSE <<>>
  IN  FlattenSeq([i \in 1..Len(d) |-> Between(Around(i - 1), Around(i)) \o <<<<"text", d[i].word>>>>])
      \o Between(Around(Len(d)), <<>>)

\* How much of a sequence is left without the breaks at its end.
Kept(s, breaks) == First({n \in 0..Len(s): \A k \in (n + 1)..Len(s): s[k] \in breaks})

\* What the editor hands on as the draft.
SyncDraft(d) ==
  LET text == NodeToMarkdown(d) IN SubSeq(text, 1, Kept(text, {<<"text", Break>>}))

-----------------------------------------------------------------------------
(* markdownToHtml, and the runs a browser makes of its answer: a tag that   *)
(* closes ends its element, and those opened inside it go on.               *)

Tagged(s, m) ==
  LET n == Len(Sign(m))
      Closing(i) == Ends(s, i, m, 1, m # "code")
      From[i \in 1..(Len(s) + 1)] ==
        LET found == {k \in i..Len(s): Signed(s, k, m) /\ Closing(k) # {}}
            k == First(found)
            j == First(Closing(k))
        IN  IF found = {} THEN Rest(s, i)
            ELSE SubSeq(s, i, k - 1) \o <<<<"open", m>>>> \o SubSeq(s, k + n, j - 1)
                 \o <<<<"close", m>>>> \o From[j + n]
  IN  From[1]

MarkdownToHtml(s) == FoldLeft(Tagged, s, <<"code", "strong", "u", "s", "em">>)

Run(acc, c) ==
  CASE c[1] = "open" -> [acc EXCEPT !.marks = Append(@, c[2])]
    [] c[1] = "close" -> [acc EXCEPT !.marks = SelectSeq(@, LAMBDA x: x # c[2])]
    [] OTHER -> [acc EXCEPT !.runs = Append(@, [word |-> c, marks |-> acc.marks])]

Runs(s) == FoldLeft(Run, [marks |-> <<>>, runs |-> <<>>], s).runs

\* What the editor shows of a draft.
Opened(s) == Runs(MarkdownToHtml(s))

-----------------------------------------------------------------------------
(* renderFormattedText of the bubble *)

\* The order in which the alternatives of its pattern are tried.
Alternatives == <<"strong", "u", "s", "code", "em">>

\* What is shown of the part of a text from i to j.
RenderFormattedText(s) ==
  LET Shown(t, marks) == [k \in DOMAIN t |-> [word |-> t[k], marks |-> marks]]
      \* a lone sign is taken for an empty element
      Plain(t) == IF \E m \in {"u", "s", "code"}: t = Sign(m) THEN <<>> ELSE Shown(t, <<>>)
      In(mark, runs) == [k \in DOMAIN runs |-> [runs[k] EXCEPT !.marks = <<mark>> \o @]]
      Render[i \in 1..(Len(s) + 1), j \in 0..Len(s)] ==
        LET t == SubSeq(s, i, j)
            Opens(k, m) == Signed(t, k, m) /\ Ends(t, k, m, 0, TRUE) # {}
            found == {k \in DOMAIN t: \E m \in Formats: Opens(k, m)}
            from == First(found)
            mark == SelectSeq(Alternatives, LAMBDA x: Opens(from, x))[1]
            n == Len(Sign(mark))
            to == First(Ends(t, from, mark, 0, TRUE))
        IN  IF found = {} THEN Plain(t)
            ELSE Plain(SubSeq(t, 1, from - 1))
                 \o (IF mark = "code" THEN Shown(SubSeq(t, from + n, to - 1), <<mark>>)
                     ELSE In(mark, Render[i + from + n - 1, i + to - 2]))
                 \o Render[i + to + n - 1, j]
  IN  Render[1, Len(s)]

-----------------------------------------------------------------------------

Init == doc = <<>>

\* Text goes on in the elements of the last run, or some of them.
Write(w) ==
  /\ Len(doc) < MaxRuns
  /\ LET last == IF doc = <<>> THEN <<>> ELSE doc[Len(doc)].marks
     IN  \E n \in 0..Len(last):
           doc' = Append(doc, [word |-> w, marks |-> SubSeq(last, 1, n)])

\* applyFormat with a selection: what is formatted so already stops being so;
\* the browser may put the element around or inside the others.
ApplyFormat(i, j, m) ==
  LET chosen == {k \in DOMAIN doc: i <= k /\ k <= j}
      on == \E k \in chosen: ~Contains(doc[k].marks, m)
  IN  /\ chosen # {}
      /\ on => \A k \in chosen: Len(doc[k].marks) < MaxDepth
      /\ \E outside \in BOOLEAN:
           doc' = [k \in DOMAIN doc |->
                     IF k \notin chosen \/ (on /\ Contains(doc[k].marks, m)) THEN doc[k]
                     ELSE [doc[k] EXCEPT !.marks = CASE ~on -> SelectSeq(@, LAMBDA x: x # m)
                                                     [] on /\ outside -> <<m>> \o @
                                                     [] OTHER -> Append(@, m)]]

Clear == doc # <<>> /\ doc' = <<>>

Next ==
  \/ \E w \in Words \cup {Break}: Write(w)
  \/ \E i, j \in 1..MaxRuns, m \in Marks: ApplyFormat(i, j, m)
  \/ Clear

Spec == Init /\ [][Next]_doc

-----------------------------------------------------------------------------
(* Properties *)

TypeOK ==
  /\ Len(doc) <= MaxRuns
  /\ \A i \in DOMAIN doc: /\ doc[i].word \in Words \cup {Break}
                          /\ ToSet(doc[i].marks) \subseteq Marks /\ Len(doc[i].marks) <= MaxDepth

\* Each word and the set of formats it shows in.
Look(runs) == [i \in DOMAIN runs |-> [word |-> runs[i].word, marks |-> ToSet(runs[i].marks)]]
Written ==
  LET shown == SubSeq(doc, 1, Kept(doc, {[word |-> Break, marks |-> <<>>]}))
  IN  Look([i \in DOMAIN shown |-> [shown[i] EXCEPT !.word = <<"text", @>>]])

\* Bold and italics, whose signs are alike, around one word.
BoldMeetsItalics == \E i \in DOMAIN doc: {"strong", "em"} \subseteq ToSet(doc[i].marks)
BreakFormatted == \E i \in DOMAIN doc: doc[i].word = Break /\ doc[i].marks # <<>>
CodeFormatted == \E i \in DOMAIN doc: Contains(doc[i].marks, "code") /\ Len(doc[i].marks) > 1

\* A draft opened again looks as it was written, nested and neighbouring
\* formats included, but for breaks at its end; and the bubble shows the same.
\* Not if a format spans a line break or bold meets italics; and in code the
\* bubble shows no format.
FormatKept ==
  ~BoldMeetsItalics /\ ~BreakFormatted =>
    /\ Look(Opened(SyncDraft(doc))) = Written
    /\ ~CodeFormatted => Look(RenderFormattedText(SyncDraft(doc))) = Written
=============================================================================
