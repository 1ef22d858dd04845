------------------------------- MODULE MinWin -------------------------------
(***************************************************************************)
(* min_win(input, pattern) of src/min_char_window.cpp: the shortest window *)
(* of `input' that holds every character of `pattern'.  One pass over the  *)
(* input keeps the pattern characters met so far in an intrusive list,     *)
(* least recently met first, so that the head bounds the window that ends  *)
(* at the current character.                                               *)
(*                                                                         *)
(* Positions are the code's: they count from 0, so the character at        *)
(* position i is input[i + 1].  The arguments are chosen in Init.          *)
(***************************************************************************)
EXTENDS Integers, SequencesExt

CONSTANTS
  Chars,         (* the characters of a string                             *)
  NULL,          (* nullptr                                                *)
  MARKER,        (* numeric_limits<size_t>::max()                          *)
  MaxInput,      (* bound: the longest input                               *)
  MaxPattern     (* bound: the longest pattern                             *)

INSTANCE IntrusiveList WITH Node <- Chars

(* No string is as long as the largest size_t.                             *)
ASSUME MinWinAssumption ==
  /\ NULL \notin Chars
  /\ MaxInput \in Nat /\ MaxPattern \in Nat
  /\ MARKER \in Nat /\ MaxInput < MARKER

VARIABLES
  input, pattern,   (* the arguments; never assigned                       *)
  charPos,          (* chars[c].pos                                        *)
  list,             (* the list and the link fields of chars[c]            *)
  size, min_distance, pos, cur,
  result            (* NULL until min_win returns                          *)

vars == <<input, pattern, charPos, list, size, min_distance, pos, cur, result>>

PatternChars == Range(pattern)
-----------------------------------------------------------------------------
Init ==
  /\ input \in SeqOf(Chars, MaxInput)
  /\ pattern \in SeqOf(Chars, MaxPattern)
  /\ charPos = [c \in Chars |-> IF c \in PatternChars THEN 0 ELSE MARKER]
  /\ list = EmptyList
  /\ size = 0
  /\ min_distance = MARKER
  /\ pos = 0
  /\ cur = 0
  /\ result = NULL

(* `continue': the character is not one of the pattern.                    *)
Skip ==
  /\ cur # Len(input)
  /\ charPos[input[cur + 1]] = MARKER
  /\ cur' = cur + 1
  /\ UNCHANGED <<input, pattern, charPos, list, size, min_distance, pos, result>>

(* The code's test for "not in the list yet".                              *)
Unlinked(c) == size = 0 \/ (list.next[c] = NULL /\ list.prev[c] = NULL)

Linked(c) == IF Unlinked(c) THEN emplace_back(list, c) ELSE list

Refreshed(c) ==
  LET l == Linked(c)
  IN  IF l.prev[c] # NULL THEN emplace_back(pop(l, c), c) ELSE l

(* A defect to tell SizeCountsMet by: ++size is missing.                   *)
Counted_Never(c) == size

Counted(c) == IF Unlinked(c) THEN size + 1 ELSE size

(* A defect to tell TypeOK by: the operands are swapped, a size_t wraps.   *)
Distance_Swapped(positions, l) == positions[l.head] - cur

(* From the list's front to the current character.                         *)
Distance(positions, l) == cur - positions[l.head]

(* A defect to tell BestWindow by: a later window of the same length wins. *)
Improves_OnTies(distance) == distance <= min_distance

Improves(distance) == distance < min_distance

Visit ==
  /\ cur # Len(input)
  /\ LET c == input[cur + 1] IN
       /\ charPos[c] # MARKER
       /\ charPos' = [charPos EXCEPT ![c] = cur]
       /\ size' = Counted(c)
       /\ list' = Refreshed(c)
  /\ LET distance == Distance(charPos', list') IN
       IF size' = Len(pattern) /\ Improves(distance)
       THEN min_distance' = distance /\ pos' = cur
       ELSE UNCHANGED <<min_distance, pos>>
  /\ cur' = cur + 1
  /\ UNCHANGED <<input, pattern, result>>

(* A defect to tell MinWindowReturned by: one character short.             *)
Returned_Short == IF min_distance = MARKER THEN <<>>
                  ELSE SubSeq(input, pos - min_distance + 1, pos)

(* substr(pos - min_distance, min_distance + 1)                            *)
Returned == IF min_distance = MARKER THEN <<>>
            ELSE SubSeq(input, pos - min_distance + 1, pos + 1)

Return ==
  /\ cur = Len(input)
  /\ result = NULL
  /\ result' = Returned
  /\ UNCHANGED <<input, pattern, charPos, list, size, min_distance, pos, cur>>

Next == Skip \/ Visit \/ Return

Spec == Init /\ [][Next]_vars
-----------------------------------------------------------------------------
TypeOK ==
  /\ input \in Seq(Chars) /\ Len(input) <= MaxInput
  /\ pattern \in Seq(Chars) /\ Len(pattern) <= MaxPattern
  /\ charPos \in [Chars -> 0..MaxInput \cup {MARKER}]
  /\ list \in ListType
  /\ size \in Nat
  /\ min_distance \in 0..MaxInput \cup {MARKER}
  /\ pos \in 0..MaxInput
  /\ cur \in 0..Len(input)
  /\ result \in Seq(Chars) \cup {NULL}
-----------------------------------------------------------------------------
(* The input read so far, and what it says about the pattern.              *)
Sighted == {k \in 0..(cur - 1) : input[k + 1] \in PatternChars}

Met == {input[k + 1] : k \in Sighted}

(* The second pattern character in the input repeats the first one.        *)
DoubledLead ==
  \E i, j \in Sighted :
    /\ i < j
    /\ \A k \in Sighted : k <= j => input[k + 1] = input[i + 1]

(* d is the character met next after the last sighting of c.               *)
MetRightAfter(c, d) ==
  /\ d \in Met
  /\ charPos[c] < charPos[d]
  /\ \A e \in Met : charPos[c] < charPos[e] => charPos[d] <= charPos[e]

(* chars[c].pos is where a character of the pattern was last met.          *)
LastSighting ==
  \A c \in Met :
    /\ charPos[c] \in Sighted
    /\ input[charPos[c] + 1] = c
    /\ \A k \in Sighted : k > charPos[c] => input[k + 1] # c

(* Following prev from head to tail visits exactly the pattern characters  *)
(* met so far, from the one met longest ago to the one met last: for every *)
(* input, unlinking from the middle or either end and linking again at the *)
(* back keep the list sorted by last sighting (min_win, List::pop).        *)
RecencyOrder ==
  /\ LastSighting
  /\ Met = {} => list.head = NULL /\ list.tail = NULL
  /\ Met # {} =>
       /\ list.head \in Met /\ \A c \in Met : charPos[list.head] <= charPos[c]
       /\ list.tail \in Met /\ \A c \in Met : charPos[c] <= charPos[list.tail]
  /\ \A c \in Met : IF c = list.tail THEN list.prev[c] = NULL
                                     ELSE MetRightAfter(c, list.prev[c])

(* next runs back along prev, the head is the end of the chain, and a      *)
(* character never met has no links.  The one exception: a lead character  *)
(* met twice in a row is linked to itself until it leaves the head.        *)
BackLinks ==
  /\ \A c \in Met \ {list.head} : list.next[c] \in Met /\ list.prev[list.next[c]] = c
  /\ Met # {} => list.next[list.head] \in {NULL} \cup (IF DoubledLead THEN {list.head} ELSE {})
  /\ \A c \in Chars \ Met : list.next[c] = NULL /\ list.prev[c] = NULL

(* `size' counts the linked characters, except that the character linked   *)
(* twice at the start of the input is counted twice for the rest of it.    *)
SizeCountsMet == size = Cardinality(Met) + (IF DoubledLead THEN 1 ELSE 0)

(* Only pattern characters carry a position.                               *)
Markers == \A c \in Chars : charPos[c] = MARKER <=> c \notin PatternChars

(* While one character only has been met, its `next' tells whether it has  *)
(* been linked twice.                                                      *)
LeadLink == \A c \in Met : Met = {c} => (list.next[c] = NULL <=> ~DoubledLead)

Structure == Markers /\ RecencyOrder /\ BackLinks /\ LeadLink
-----------------------------------------------------------------------------
(* The reference: windows as pairs of first and last position.             *)
Covers(i, j) == \A c \in PatternChars : \E k \in i..j : input[k + 1] = c

Windows == {w \in (0..(Len(input) - 1)) \X (0..(Len(input) - 1)) :
              w[1] <= w[2] /\ Covers(w[1], w[2])}

Span(w) == w[2] - w[1]

(* Every character of the pattern is different.                            *)
DistinctPattern == Cardinality(PatternChars) = Len(pattern)

(* v does not beat the window of the given span that ends at `last'.       *)
NoBetter(v, span, last) == span < Span(v) \/ (span = Span(v) /\ last <= v[2])

IsMinWindow(s) ==
  IF pattern = <<>> \/ Windows = {}
  THEN s = <<>>
  ELSE \E w \in Windows : /\ s = SubSeq(input, w[1] + 1, w[2] + 1)
                          /\ \A v \in Windows : NoBetter(v, Span(w), w[2])

(* At every turn of the loop min_distance and pos are the shortest window  *)
(* of the input read so far, the one that ends first of several, although  *)
(* the loop only ever looks at the window that starts at the list's head.  *)
BestWindow ==
  pattern # <<>> /\ DistinctPattern /\ ~DoubledLead =>
    /\ min_distance # MARKER => <<pos - min_distance, pos>> \in Windows
    /\ \A v \in Windows : v[2] < cur =>
         min_distance # MARKER /\ NoBetter(v, min_distance, pos)

(* min_win returns the shortest window that holds the whole pattern, the   *)
(* one that ends first if there are several, and the empty string if there *)
(* is none: for a pattern of different characters and an input that does   *)
(* not open with one of them twice in a row.                               *)
MinWindowReturned ==
  result # NULL /\ DistinctPattern /\ ~DoubledLead => IsMinWindow(result)

(* The same without the condition on the input: what min_win is for, for   *)
(* every input (main calls it with "ADOBECODEBANC" and "ABC").             *)
MinWindowAlwaysReturned ==
  result # NULL /\ DistinctPattern => IsMinWindow(result)
-----------------------------------------------------------------------------
(* The window found lies in the input read, and min_win returns it.        *)
InRange ==
  /\ min_distance # MARKER => pattern # <<>> /\ pos < cur /\ min_distance <= pos
  /\ result # NULL => cur = Len(input) /\ result = Returned

(* The inductive invariant from which the others are proved.               *)
IInv == TypeOK /\ Structure /\ SizeCountsMet /\ InRange /\ BestWindow
=============================================================================
