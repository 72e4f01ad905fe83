------------------------------ MODULE Alignment ------------------------------
(***************************************************************************)
(* align_loaded and find_segment_match (core/alignment.rs): the segments   *)
(* of the transcript are matched, in order, with windows of the tokens of  *)
(* the book; n-grams vote for places to look at, and the window nearest to *)
(* the segment in edit distance is taken if it is near enough.             *)
(* Positions count from 0, as in the code: Book[p + 1] is token p.         *)
(***************************************************************************)
EXTENDS Integers, Sequences, FiniteSets, FiniteSetsExt

CONSTANTS
  Book,           (* book_tokens: records of a word and the number of the   *)
                  (* text block (section and line) it belongs to            *)
  Backtrack,      (* MAX_BACKTRACK_TOKENS                                   *)
  SearchAhead,    (* MAX_SEARCH_AHEAD_TOKENS                                *)
  MaxCandidates,  (* MAX_CANDIDATES                                         *)
  Fuzz            (* CANDIDATE_START_FUZZ                                   *)

ASSUME AlignmentAssumption ==
  /\ Book # << >> /\ Book \in Seq({Book[p] : p \in DOMAIN Book})
  /\ {Backtrack, SearchAhead, MaxCandidates, Fuzz} \subseteq Nat

VARIABLES
  segments,       (* of the transcript: start, end and text, a sequence of  *)
                  (* words                                                  *)
  aligned,        (* the windows matched so far; Unmatched where none is    *)
  cursor          (* the end of the furthest one                            *)

alignVars == <<segments, aligned, cursor>>

Unmatched == [start |-> 0, end |-> 0]

-----------------------------------------------------------------------------
(* same_block_window.                                                      *)
SameBlock(start, size) ==
  start + size <= Len(Book) /\ Book[start + 1].block = Book[start + size].block

Words(start, end) == [p \in 1..(end - start) |-> Book[start + p].word]

(* levenshtein_distance.                                                   *)
Distance(s, t) ==
  LET d[i \in 0..Len(s), j \in 0..Len(t)] ==
        IF i = 0 THEN j ELSE IF j = 0 THEN i
        ELSE Min({d[i - 1, j - 1] + IF s[i] = t[j] THEN 0 ELSE 1, d[i - 1, j] + 1, d[i, j - 1] + 1})
  IN  d[Len(s), Len(t)]

(* token_similarity is 1 - errors/of; Better compares two of them.         *)
Scored(start, end, text) ==
  [start |-> start, end |-> end, errors |-> Distance(Words(start, end), text),
   of |-> Max({end - start, Len(text)})]

Better(v, w) == v.errors * w.of < w.errors * v.of

(* acceptance_threshold, in percent.                                       *)
Threshold(n) == IF n <= 1 THEN 100 ELSE IF n <= 3 THEN 90 ELSE IF n <= 7 THEN 72 ELSE 60

Accepted(w, text) == 100 * (w.of - w.errors) >= Threshold(Len(text)) * w.of

(* best_flexible_window: of the windows at start the nearest, the shortest *)
(* of those that are equally near.                                         *)
BestWindow(start, text) ==
  LET variation == Max({1, Min({8, Len(text) \div 4})})
      windows == {Scored(start, start + n, text) :
                    n \in {l \in Max({1, Len(text) - variation})..(Len(text) + variation) :
                             SameBlock(start, l)}}
  IN  {w \in windows : \A v \in windows : ~Better(v, w) /\ (Better(w, v) \/ w.end <= v.end)}

-----------------------------------------------------------------------------
(* collect_candidate_votes: the n-grams of the text that the book has at   *)
(* the same distance from candidate.                                       *)
Votes(n, text, candidate) ==
  Cardinality({o \in 0..(Len(text) - n) :
                 /\ SameBlock(candidate + o, n)
                 /\ Words(candidate + o, candidate + o + n) = SubSeq(text, o + 1, o + n)})

Lowest  == Max({0, cursor - Backtrack})
Highest == Min({cursor + SearchAhead, Len(Book) - 1})

(* abs_diff(cursor).                                                       *)
Far(c) == IF c >= cursor THEN c - cursor ELSE cursor - c

Candidates(n, text) == {c \in Lowest..Highest : Votes(n, text, c) > 0}

(* find_segment_match ranks the candidates by their votes, then by their    *)
(* distance from the cursor; equal ones come in the order of a HashMap.    *)
Ranks(n, text, c, d) ==
  \/ Votes(n, text, c) > Votes(n, text, d)
  \/ Votes(n, text, c) = Votes(n, text, d) /\ Far(c) < Far(d)

(* What truncate may leave of them.                                        *)
Kept(n, text) ==
  {K \in SUBSET Candidates(n, text) :
     /\ Cardinality(K) = Min({MaxCandidates, Cardinality(Candidates(n, text))})
     /\ \A c \in K, d \in Candidates(n, text) \ K : ~Ranks(n, text, d, c)}

Near(c) == Max({Lowest, c - Fuzz})..Min({Highest, c + Fuzz})

(* The best window around the candidates K; of equal ones that of the      *)
(* first candidate, and then the one that starts first.                    *)
BestAround(K, n, text) ==
  LET windows == UNION {BestWindow(start, text) : start \in UNION {Near(c) : c \in K}}
      Later(v, c, w) ==
        /\ v.start \in Near(c) => w.start <= v.start
        /\ \A d \in K : v.start \in Near(d) => ~Ranks(n, text, d, c)
  IN  {w \in windows :
         \E c \in K : /\ w.start \in Near(c)
                      /\ \A v \in windows : Better(w, v) \/ (~Better(v, w) /\ Later(v, c, w))}

(* What find_segment_match may return for the text: trigrams vote, else    *)
(* bigrams, else the words of a text of two; Unmatched if the candidates   *)
(* that were kept have no window that is good enough.                      *)
Matches(text) ==
  LET sizes == {n \in {3, 2} \cup {k \in {1} : Len(text) = 2} : Candidates(n, text) # {}}
      Good(K) == {w \in BestAround(K, Max(sizes), text) : Accepted(w, text)}
  IN  IF Len(text) < 2 \/ sizes = {} THEN {Unmatched}
      ELSE UNION {IF Good(K) = {} THEN {Unmatched} ELSE Good(K) : K \in Kept(Max(sizes), text)}

(* One round of align_loaded's loop.                                       *)
AlignSegment ==
  /\ Len(aligned) < Len(segments)
  /\ \E w \in Matches(segments[Len(aligned) + 1].text) :
       aligned' = Append(aligned, [start |-> w.start, end |-> w.end]) /\ cursor' = Max({cursor, w.end})
  /\ UNCHANGED segments

-----------------------------------------------------------------------------
IsMatched(k) == aligned[k] # Unmatched
FirstBlock(k) == Book[aligned[k].start + 1].block
LastBlock(k)  == Book[aligned[k].end].block

(* docs/ROADMAP.md:47: the aligner "accepts strong monotonic EPUB          *)
(* matches": a later segment is never matched with an earlier block.       *)
AlignedInOrder ==
  \A j, k \in DOMAIN aligned :
    j < k /\ IsMatched(j) /\ IsMatched(k) => FirstBlock(j) <= FirstBlock(k)
=============================================================================
