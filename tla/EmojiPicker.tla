----------------------------- MODULE EmojiPicker -----------------------------
(***************************************************************************)
(* The emoji on offer: the picker (features/chat/components/emoji-picker.  *)
(* tsx) and the quick reactions of a message (message-bubble.tsx).  The    *)
(* list of frequent emoji and the quick reactions follow the event that    *)
(* this tab sends when it counts a use; the results of a search are ranked *)
(* when the search changes, with the counts of that moment.  localStorage  *)
(* keeps the counts in the order of first use (emoji-frequency.ts) and     *)
(* shares them with the other tabs, whose uses are written over whatever   *)
(* is stored and announced to nobody.                                      *)
(***************************************************************************)
EXTENDS Naturals, Sequences, FiniteSets, SequencesExt

CONSTANTS
  Emojis,       \* sequence: ALL_EMOJIS
  Defaults,     \* sequence: DEFAULT_FREQUENT_EMOJIS
  MaxUses,      \* bound: counted uses of an emoji
  Queries,      \* what is searched for
  Match,        \* how a query matches the name or a keyword of an emoji:
                \* [by, off], off being the surplus or the index of the match
  Blank,        \* the empty search
  FrequentSize, \* emoji in the list of frequent ones (24 in the code)
  QuickCount,   \* quick reactions of a message (3)
  SearchLimit,  \* emoji a search shows (80)
  Weight,       \* what a use adds to the score (15)
  TopBonus      \* what uses add at most (300)

Ways == {"none", "emoji", "name", "prefix", "infix", "keyword", "keywordPrefix", "keywordInfix"}

EmojiSet == ToSet(Emojis)

PickerAssumption ==
  /\ Match \in [Queries -> [EmojiSet -> [by: Ways, off: 0..20]]]
  /\ Blank \notin Queries
  /\ ToSet(Defaults) \subseteq EmojiSet
  /\ FrequentSize \in Nat /\ QuickCount \in Nat /\ SearchLimit \in Nat /\ Weight \in Nat /\ TopBonus \in Nat /\ MaxUses \in Nat \ {0}

VARIABLES
  freqs,      \* localStorage
  quick,      \* quickEmojis
  open,       \* whether the picker is mounted
  frequent,   \* frequentEmojis
  search,
  results,    \* searchResults, <<>> while nothing is searched for
  behind      \* history: which of the lists a use was not told to

vars == <<freqs, quick, open, frequent, search, results, behind>>

-----------------------------------------------------------------------------
(* The counts *)

Prefix(s, n) == SubSeq(s, 1, IF Len(s) < n THEN Len(s) ELSE n)

\* getEmojiFrequencies(...)[emoji] || 0
Uses(fs, e) ==
  LET entry == SelectSeq(fs, LAMBDA x: x.emoji = e) IN IF entry = <<>> THEN 0 ELSE entry[1].count

\* Most used first, those used first before others as often used, then the
\* defaults not among them.
GetFrequentlyUsedEmojis(fs, limit) ==
  LET ByUse == SortSeq(fs, LAMBDA x, y: x.count > y.count)
      used == [i \in DOMAIN ByUse |-> ByUse[i].emoji]
  IN  Prefix(used \o SelectSeq(Defaults, LAMBDA e: ~Contains(used, e)), limit)

\* trackEmojiUsage
Tracked(fs, e) ==
  IF Uses(fs, e) = 0 THEN Append(fs, [emoji |-> e, count |-> 1])
  ELSE [i \in DOMAIN fs |-> IF fs[i].emoji = e /\ fs[i].count < MaxUses
                            THEN [fs[i] EXCEPT !.count = @ + 1] ELSE fs[i]]

-----------------------------------------------------------------------------
(* searchEmojis *)

MatchScore(m) ==
  CASE m.by = "emoji" -> 1000        [] m.by = "name" -> 500
    [] m.by = "prefix" -> 300 - m.off [] m.by = "infix" -> 200 - m.off
    [] m.by = "keyword" -> 150       [] m.by = "keywordPrefix" -> 120
    [] m.by = "keywordInfix" -> 90   [] OTHER -> 0

\* mutant: uses count without limit.
BonusUnlimited(uses) == uses * Weight

\* What uses add is limited, so that a good match stays ahead.
Bonus(uses) == IF uses * Weight > TopBonus THEN TopBonus ELSE uses * Weight

Score(q, e) == MatchScore(Match[q][e]) + Bonus(Uses(freqs, e))

\* Equal scores keep the order of the table.
SearchEmojis(q) ==
  LET At(e) == CHOOSE i \in DOMAIN Emojis: Emojis[i] = e
      Better(x, y) == Score(q, x) > Score(q, y) \/ (Score(q, x) = Score(q, y) /\ At(x) < At(y))
  IN  Prefix(SortSeq(SelectSeq(Emojis, LAMBDA e: MatchScore(Match[q][e]) > 0), Better), SearchLimit)

-----------------------------------------------------------------------------

Init ==
  /\ freqs = <<>> /\ quick = Prefix(Defaults, QuickCount)
  /\ open = FALSE /\ frequent = <<>> /\ search = Blank /\ results = <<>>
  /\ behind = {}

Mount ==
  /\ ~open /\ open' = TRUE
  /\ frequent' = GetFrequentlyUsedEmojis(freqs, FrequentSize)
  /\ search' = Blank /\ results' = <<>> /\ behind' = behind \ {"frequent", "results"}
  /\ UNCHANGED <<freqs, quick>>

Close ==
  /\ open /\ open' = FALSE
  /\ frequent' = <<>> /\ search' = Blank /\ results' = <<>>
  /\ behind' = behind \ {"frequent", "results"}
  /\ UNCHANGED <<freqs, quick>>

\* Typing, the button that clears the search, and a category, which clears it.
SetSearch(q) ==
  /\ open /\ q # search
  /\ search' = q
  /\ results' = IF q = Blank THEN <<>> ELSE SearchEmojis(q)
  /\ behind' = behind \ {"results"}
  /\ UNCHANGED <<freqs, quick, open, frequent>>

\* A use counted here: in the picker, from the results or any other list, or
\* on a message.
Use(e) ==
  /\ freqs' = Tracked(freqs, e)
  /\ quick' = GetFrequentlyUsedEmojis(freqs', QuickCount)
  /\ frequent' = IF open THEN GetFrequentlyUsedEmojis(freqs', FrequentSize) ELSE frequent
  /\ behind' = IF open THEN {"results"} ELSE {}
  /\ UNCHANGED <<open, search, results>>

OtherTabUses(e) ==
  /\ freqs' = Tracked(freqs, e)
  /\ behind' = {"quick"} \cup (IF open THEN {"frequent", "results"} ELSE {})
  /\ UNCHANGED <<quick, open, frequent, search, results>>

Next ==
  \/ Mount \/ Close
  \/ \E q \in Queries \cup {Blank}: SetSearch(q)
  \/ \E e \in EmojiSet: Use(e) \/ OtherTabUses(e)

Spec == Init /\ [][Next]_vars

-----------------------------------------------------------------------------
(* Properties *)

TypeOK ==
  /\ \A i \in DOMAIN freqs: freqs[i] \in [emoji: EmojiSet, count: 1..MaxUses]
  /\ open \in BOOLEAN /\ search \in Queries \cup {Blank} /\ behind \subseteq {"quick", "frequent", "results"}
  /\ ToSet(quick) \cup ToSet(frequent) \cup ToSet(results) \subseteq EmojiSet
  /\ Len(quick) <= QuickCount

MostUsedFirst(list) ==
  \A i, j \in DOMAIN list: i < j =>
    list[i] # list[j] /\ Uses(freqs, list[i]) >= Uses(freqs, list[j])

\* The quick reactions and an open picker offer first what is used most, each
\* emoji once, as long as this tab counts the uses.  A search misses nothing
\* that matches by the emoji itself or its whole name, whatever was used before
\* (unless the list is full of such), puts it before what is found by a keyword,
\* and puts of two equally good matches the one used more first, up to the uses
\* that count.
PickerAgrees ==
  /\ "quick" \notin behind => MostUsedFirst(quick)
  /\ "frequent" \notin behind => MostUsedFirst(frequent)
  /\ search # Blank =>
       /\ ToSet(results) \subseteq {e \in EmojiSet: Match[search][e].by # "none"}
       /\ Len(results) < SearchLimit => ToSet(results) = {e \in EmojiSet: Match[search][e].by # "none"}
       /\ \E i \in DOMAIN results: Match[search][results[i]].by \in {"keyword", "keywordPrefix", "keywordInfix"}
            => \A e \in EmojiSet: Match[search][e].by \in {"emoji", "name"} => Contains(results, e)
       /\ \A i, j \in DOMAIN results:
            LET x == Match[search][results[i]]  y == Match[search][results[j]]
            IN  i < j => /\ ~(y.by \in {"emoji", "name"} /\ x.by \in {"keyword", "keywordPrefix", "keywordInfix"})
                         /\ x = y /\ "results" \notin behind =>
                              Bonus(Uses(freqs, results[i])) >= Bonus(Uses(freqs, results[j]))
=============================================================================
