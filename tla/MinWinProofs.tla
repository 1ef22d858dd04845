---------------------------- MODULE MinWinProofs ----------------------------
(***************************************************************************)
(* min_win returns the shortest window, for every alphabet, input and      *)
(* pattern: the inductive invariant IInv of MinWin and what follows.       *)
(***************************************************************************)
EXTENDS MinWin, FiniteSetTheorems, SequenceTheorems, TLAPS

(* While the loop of min_win runs, input[cur] is a character of the input. *)
LEMMA CharRead ==
  ASSUME TypeOK, cur # Len(input)
  PROVE  /\ cur \in Nat /\ cur < Len(input) /\ Len(input) \in Nat
         /\ cur + 1 \in 1..Len(input)
         /\ input[cur + 1] \in Chars
BY DEF TypeOK

(* An iteration that ends in `continue' adds no sighting: what the input   *)
(* read so far says about the pattern stays the same.                      *)
LEMMA SkipReads ==
  ASSUME TypeOK, Markers, Skip
  PROVE  /\ Sighted' = Sighted /\ Met' = Met
         /\ DoubledLead' <=> DoubledLead
         /\ PatternChars' = PatternChars
<1>1. cur \in Nat /\ cur < Len(input) /\ input[cur + 1] \in Chars
  BY CharRead DEF Skip
<1>2. input[cur + 1] \notin PatternChars
  BY <1>1 DEF Markers, Skip
<1>3. input' = input /\ cur' = cur + 1 /\ PatternChars' = PatternChars
  BY DEF Skip, PatternChars
<1>4. Sighted' = Sighted
  BY <1>1, <1>2, <1>3 DEF Sighted
<1>5. Met' = Met
  BY <1>3, <1>4 DEF Met
<1>6. DoubledLead' <=> DoubledLead
  BY <1>3, <1>4 DEF DoubledLead
<1> QED BY <1>3, <1>4, <1>5, <1>6

(* An iteration of min_win that is not skipped reads a pattern character c *)
(* and adds one sighting; the lead character is doubled from then on if c  *)
(* was the only one met before.                                            *)
LEMMA VisitReads ==
  ASSUME TypeOK, Markers, Visit
  PROVE  LET c == input[cur + 1] IN
         /\ c \in PatternChars /\ c \in Chars
         /\ Sighted' = Sighted \cup {cur} /\ Met' = Met \cup {c}
         /\ DoubledLead' <=> DoubledLead \/ Met = {c}
         /\ PatternChars' = PatternChars
<1> DEFINE c == input[cur + 1]
<1>1. cur \in Nat /\ cur < Len(input) /\ c \in Chars
  BY CharRead DEF Visit
<1>2. c \in PatternChars
  BY <1>1 DEF Markers, Visit
<1>3. input' = input /\ cur' = cur + 1 /\ PatternChars' = PatternChars
  BY DEF Visit, PatternChars
<1>4. Sighted' = Sighted \cup {cur}
  BY <1>1, <1>2, <1>3 DEF Sighted
<1>5. Met' = Met \cup {c}
  BY <1>3, <1>4 DEF Met
<1>6. \A k \in Sighted : k \in Nat /\ k < cur
  BY <1>1 DEF Sighted
<1>7. ASSUME Met = {c} PROVE DoubledLead'
  <2>1. PICK i \in Sighted : TRUE
    BY <1>7 DEF Met
  <2>2. \A k \in Sighted : input[k + 1] = c
    BY <1>7 DEF Met
  <2>3. \A k \in Sighted' : input'[k + 1] = input'[i + 1]
    BY <1>3, <1>4, <2>1, <2>2
  <2> QED BY <1>3, <1>4, <1>6, <2>1, <2>3 DEF DoubledLead
<1>8. ASSUME DoubledLead PROVE DoubledLead'
  <2>1. PICK i \in Sighted, j \in Sighted :
          i < j /\ \A k \in Sighted : k <= j => input[k + 1] = input[i + 1]
    BY <1>8 DEF DoubledLead
  <2>2. \A k \in Sighted' : k <= j => input'[k + 1] = input'[i + 1]
    BY <1>1, <1>3, <1>4, <1>6, <2>1
  <2> QED BY <1>4, <2>1, <2>2 DEF DoubledLead
<1>9. ASSUME DoubledLead', Met # {c} PROVE DoubledLead
  <2>1. PICK i \in Sighted', j \in Sighted' :
          i < j /\ \A k \in Sighted' : k <= j => input[k + 1] = input[i + 1]
    BY <1>9, <1>3 DEF DoubledLead
  <2>2. i \in Sighted
    BY <1>1, <1>4, <1>6, <2>1
  <2>3. j # cur
    <3>1. SUFFICES ASSUME j = cur PROVE FALSE
      OBVIOUS
    <3>2. \A k \in Sighted : input[k + 1] = input[i + 1]
      BY <1>1, <1>4, <1>6, <2>1, <3>1
    <3>3. c = input[i + 1]
      BY <1>1, <1>4, <2>1, <3>1
    <3>4. Met = {c}
      BY <2>2, <3>2, <3>3 DEF Met
    <3> QED BY <3>4, <1>9
  <2>4. j \in Sighted
    BY <1>4, <2>3
  <2> QED BY <1>4, <2>1, <2>2, <2>4 DEF DoubledLead
<1> QED BY <1>1, <1>2, <1>3, <1>4, <1>5, <1>7, <1>8, <1>9
-----------------------------------------------------------------------------
(* The characters met are finitely many, belong to the pattern, and were   *)
(* sighted before `cur'.                                                   *)
LEMMA MetFacts ==
  ASSUME TypeOK
  PROVE  /\ Met \subseteq Chars /\ Met \subseteq PatternChars
         /\ IsFiniteSet(Met) /\ Cardinality(Met) \in Nat
         /\ \A k \in Sighted : k \in Nat /\ k < cur /\ k < Len(input)
<1>1. \A k \in Sighted : k \in Nat /\ k < cur /\ k < Len(input)
  BY DEF Sighted, TypeOK
<1>2. Met \subseteq Chars /\ Met \subseteq PatternChars
  BY <1>1 DEF Met, Sighted, TypeOK
<1>3. IsFiniteSet(Sighted)
  <2>1. IsFiniteSet(0..(cur - 1))
    BY FS_Interval DEF TypeOK
  <2> QED BY <2>1, FS_Subset DEF Sighted
<1>4. IsFiniteSet(Met)
  <2> DEFINE f == [k \in Sighted |-> input[k + 1]]
  <2>1. f \in Surjection(Sighted, Met)
    BY DEF Surjection, Met
  <2> QED BY <1>3, <2>1, FS_Surjection
<1> QED BY <1>1, <1>2, <1>4, FS_CardinalityType

(* Two characters were last met at different positions.                    *)
LEMMA DistinctSightings ==
  ASSUME TypeOK, LastSighting, NEW c \in Met, NEW d \in Met, charPos[c] = charPos[d]
  PROVE  c = d
BY DEF LastSighting

(* `size == 0' in the guard of line 104 says that no pattern character has *)
(* been met.                                                               *)
LEMMA SizeZero ==
  ASSUME TypeOK, SizeCountsMet
  PROVE  size = 0 <=> Met = {}
<1>1. Cardinality(Met) = 0 <=> Met = {}
  BY MetFacts, FS_EmptySet
<1>2. Met = {} => ~DoubledLead
  BY DEF Met, DoubledLead
<1> QED BY <1>1, <1>2, MetFacts DEF SizeCountsMet

(* What one iteration does to the list, by the place the character read    *)
(* has in it.                                                              *)

(* The first pattern character that min_win meets becomes head and tail    *)
(* (emplace_back on an empty list).                                        *)
LEMMA LinkFirst ==
  ASSUME TypeOK, Structure, NEW c \in Chars, Met = {}
  PROVE  /\ Unlinked(c)
         /\ Refreshed(c) = [head |-> c, tail |-> c, prev |-> list.prev, next |-> list.next]
<1>1. /\ list.head = NULL /\ list.tail = NULL
      /\ list.next[c] = NULL /\ list.prev[c] = NULL
  BY DEF Structure, RecencyOrder, BackLinks
<1>2. list \in ListType
  BY DEF TypeOK
<1>3. Linked(c) = [head |-> c, tail |-> c, prev |-> list.prev, next |-> list.next]
  BY <1>1, <1>2 DEF Linked, Unlinked, emplace_back, ListType
<1> QED BY <1>1, <1>3 DEF Refreshed, Unlinked

(* A pattern character met for the first time goes behind the tail         *)
(* (emplace_back on a list that is not empty).                             *)
LEMMA LinkNew ==
  ASSUME TypeOK, Structure, SizeCountsMet, NEW c \in Chars, c \notin Met, Met # {}
  PROVE  /\ Unlinked(c)
         /\ Refreshed(c) = [head |-> list.head, tail |-> c,
                            next |-> [list.next EXCEPT ![c] = list.tail],
                            prev |-> [list.prev EXCEPT ![list.tail] = c]]
<1>1. /\ list.tail \in Met /\ list.tail # NULL /\ list.tail # c
      /\ list.next[c] = NULL /\ list.prev[c] = NULL
  BY MetFacts, MinWinAssumption DEF Structure, RecencyOrder, BackLinks
<1>2. list \in ListType
  BY DEF TypeOK
<1>3. Linked(c) = [head |-> list.head, tail |-> c,
                   next |-> [list.next EXCEPT ![c] = list.tail],
                   prev |-> [list.prev EXCEPT ![list.tail] = c]]
  BY <1>1, <1>2 DEF Linked, Unlinked, emplace_back, ListType, Pointer
<1>4. Linked(c).prev[c] = NULL
  BY <1>1, <1>2, <1>3 DEF ListType
<1> QED BY <1>1, <1>3, <1>4 DEF Refreshed, Unlinked

(* The guard of line 104 takes a character that is in the list for one     *)
(* that is not only when it is the single one met; it is then linked to    *)
(* itself.                                                                 *)
LEMMA LinkAgain ==
  ASSUME TypeOK, Structure, SizeCountsMet, NEW c \in Chars, c \in Met, Unlinked(c)
  PROVE  /\ Met = {c} /\ ~DoubledLead
         /\ Refreshed(c) = [head |-> c, tail |-> c, prev |-> list.prev,
                            next |-> [list.next EXCEPT ![c] = c]]
<1>1. list.next[c] = NULL /\ list.prev[c] = NULL
  BY SizeZero DEF Unlinked
<1>2. c = list.tail
  BY <1>1, MetFacts, MinWinAssumption DEF Structure, RecencyOrder, MetRightAfter
<1>3. c = list.head
  BY <1>1, MetFacts, MinWinAssumption DEF Structure, BackLinks
<1>4. Met = {c}
  <2>1. \A d \in Met : charPos[d] = charPos[c]
    <3>1. \A d \in Met : charPos[d] \in Int
      BY MetFacts DEF Structure, RecencyOrder, LastSighting
    <3> QED BY <3>1, <1>2, <1>3 DEF Structure, RecencyOrder
  <2> QED BY <2>1, DistinctSightings DEF Structure, RecencyOrder
<1>5. ~DoubledLead
  BY <1>1, <1>4 DEF Structure, LeadLink
<1>6. list \in ListType /\ c # NULL
  BY MinWinAssumption DEF TypeOK
<1>7. Linked(c) = [head |-> c, tail |-> c, prev |-> list.prev,
                   next |-> [list.next EXCEPT ![c] = c]]
  BY <1>1, <1>2, <1>3, <1>6 DEF Linked, emplace_back, ListType, Pointer
<1> QED BY <1>1, <1>4, <1>5, <1>7 DEF Refreshed

(* A character met twice in a row, other than in LinkAgain, leaves the     *)
(* list alone: a.prev is null.                                             *)
LEMMA StayLast ==
  ASSUME TypeOK, Structure, NEW c \in Chars, c \in Met, ~Unlinked(c), c = list.tail
  PROVE  Refreshed(c) = list
<1>1. list.prev[c] = NULL
  BY DEF Structure, RecencyOrder
<1> QED BY <1>1 DEF Refreshed, Linked

(* A character that is not the tail has a `prev', which was met later.     *)
LEMMA Successor ==
  ASSUME TypeOK, Structure, NEW c \in Met, c # list.tail
  PROVE  /\ list.prev[c] \in Met /\ list.prev[c] # NULL /\ list.prev[c] # c
         /\ charPos[c] < charPos[list.prev[c]]
         /\ charPos[c] < charPos[list.tail]
<1>1. \A d \in Met : charPos[d] \in Int
  BY MetFacts DEF Structure, RecencyOrder, LastSighting
<1>2. MetRightAfter(c, list.prev[c]) /\ list.tail \in Met
  BY DEF Structure, RecencyOrder
<1>3. charPos[list.prev[c]] <= charPos[list.tail]
  BY <1>2 DEF Structure, RecencyOrder, MetRightAfter
<1> QED BY <1>1, <1>2, <1>3, MetFacts, MinWinAssumption DEF MetRightAfter

(* The head met again moves to the tail (pop_front, then emplace_back).    *)
LEMMA MoveFront ==
  ASSUME TypeOK, Structure, NEW c \in Chars, c \in Met, ~Unlinked(c),
         c # list.tail, c = list.head
  PROVE  Refreshed(c) = [head |-> list.prev[c], tail |-> c,
                         next |-> [[list.next EXCEPT ![list.prev[c]] = NULL]
                                     EXCEPT ![c] = list.tail],
                         prev |-> [[list.prev EXCEPT ![list.tail] = c]
                                     EXCEPT ![c] = NULL]]
<1>1. list.prev[c] # NULL /\ list.tail # NULL /\ c # NULL
  BY Successor, MetFacts, MinWinAssumption DEF Structure, RecencyOrder
<1>2. list \in ListType
  BY DEF TypeOK
<1>3. pop(list, c) = [head |-> list.prev[c], tail |-> list.tail,
                      next |-> [list.next EXCEPT ![list.prev[c]] = NULL],
                      prev |-> list.prev]
  BY <1>1, <1>2 DEF pop, pop_front, ListType, Pointer
<1> QED BY <1>1, <1>3 DEF Refreshed, Linked, emplace_back

(* A character between head and tail met again moves to the tail (the last *)
(* branch of pop, then emplace_back).                                      *)
LEMMA MoveMiddle ==
  ASSUME TypeOK, Structure, NEW c \in Chars, c \in Met, ~Unlinked(c),
         c # list.tail, c # list.head
  PROVE  Refreshed(c) = [head |-> list.head, tail |-> c,
                         next |-> [[list.next EXCEPT ![list.prev[c]] = list.next[c]]
                                     EXCEPT ![c] = list.tail],
                         prev |-> [[[list.prev EXCEPT ![list.next[c]] = list.prev[c]]
                                     EXCEPT ![list.tail] = c] EXCEPT ![c] = NULL]]
<1>1. list.prev[c] # NULL /\ list.tail # NULL
  BY Successor, MetFacts, MinWinAssumption DEF Structure, RecencyOrder
<1>2. list \in ListType
  BY DEF TypeOK
<1>3. pop(list, c) = [head |-> list.head, tail |-> list.tail,
                      next |-> [list.next EXCEPT ![list.prev[c]] = list.next[c]],
                      prev |-> [list.prev EXCEPT ![list.next[c]] = list.prev[c]]]
  BY <1>1, <1>2 DEF pop, ListType, Pointer
<1> QED BY <1>1, <1>3 DEF Refreshed, Linked, emplace_back
-----------------------------------------------------------------------------
(* Reading a pattern character makes it the one met last and leaves the    *)
(* positions of the others alone.                                          *)
LEMMA VisitPositions ==
  ASSUME TypeOK, Structure, Visit
  PROVE  LET c == input[cur + 1] IN
         /\ charPos'[c] = cur /\ cur \in Int
         /\ \A d \in Met : charPos[d] \in Int /\ charPos[d] < cur
         /\ \A d \in Met \ {c} : charPos'[d] = charPos[d]
         /\ Markers' /\ LastSighting'
<1> DEFINE c == input[cur + 1]
<1>1. cur \in Nat /\ cur < Len(input) /\ c \in Chars
  BY CharRead DEF Visit
<1>2. charPos' = [charPos EXCEPT ![c] = cur] /\ input' = input /\ cur' = cur + 1
  BY DEF Visit
<1>3. charPos \in [Chars -> 0..MaxInput \cup {MARKER}]
  BY DEF TypeOK
<1>4. /\ charPos'[c] = cur
      /\ \A d \in Chars \ {c} : charPos'[d] = charPos[d]
  BY <1>1, <1>2, <1>3
<1>5. \A d \in Met : charPos[d] \in Sighted /\ charPos[d] \in Int /\ charPos[d] < cur
  BY MetFacts DEF Structure, RecencyOrder, LastSighting
<1>6. /\ c \in PatternChars /\ PatternChars' = PatternChars
      /\ Sighted' = Sighted \cup {cur} /\ Met' = Met \cup {c}
  BY VisitReads DEF Structure
<1>7. Markers'
  <2>1. cur # MARKER
    BY <1>1, MinWinAssumption DEF TypeOK
  <2> QED BY <1>4, <1>6, <2>1 DEF Structure, Markers
<1>8. LastSighting'
  <2>1. SUFFICES ASSUME NEW d \in Met'
                 PROVE  /\ charPos'[d] \in Sighted' /\ input[charPos'[d] + 1] = d
                        /\ \A k \in Sighted' : k > charPos'[d] => input[k + 1] # d
    BY <1>2 DEF LastSighting
  <2>2. CASE d = c
    BY <2>2, <1>1, <1>4, <1>6, MetFacts
  <2>3. CASE d # c
    <3>1. d \in Met /\ charPos'[d] = charPos[d]
      BY <2>3, <1>4, <1>6, MetFacts
    <3> QED BY <3>1, <2>3, <1>6 DEF Structure, RecencyOrder, LastSighting
  <2> QED BY <2>2, <2>3
<1> QED BY <1>1, <1>4, <1>5, <1>7, <1>8, MetFacts

(* The facts about the new list from which its order follows.              *)
LEMMA VisitOrder ==
  ASSUME TypeOK, Structure, Visit, NEW c, c = input[cur + 1],
         list'.tail = c, list'.prev[c] = NULL,
         Met \ {c} = {} => list'.head = c,
         Met \ {c} # {} => list'.head \in Met \ {c},
         \A d \in Met \ {c} : charPos[list'.head] <= charPos[d],
         \A d \in Met \ {c} :
           \/ /\ list'.prev[d] = c
              /\ \A e \in Met \ {c} : charPos[e] <= charPos[d]
           \/ /\ list'.prev[d] \in Met \ {c} /\ charPos[d] < charPos[list'.prev[d]]
              /\ \A e \in Met \ {c} : charPos[d] < charPos[e] => charPos[list'.prev[d]] <= charPos[e]
  PROVE  RecencyOrder'
<1>1. /\ charPos'[c] = cur /\ cur \in Int
      /\ \A d \in Met : charPos[d] \in Int /\ charPos[d] < cur
      /\ \A d \in Met \ {c} : charPos'[d] = charPos[d]
      /\ LastSighting'
  BY VisitPositions
<1>2. Met' = Met \cup {c}
  BY VisitReads DEF Structure
<1>3. /\ list'.head \in Met' /\ \A d \in Met' : charPos'[list'.head] <= charPos'[d]
      /\ list'.tail \in Met' /\ \A d \in Met' : charPos'[d] <= charPos'[list'.tail]
  <2>1. \A d \in Met' : charPos'[d] \in Int /\ charPos'[d] <= cur
    BY <1>1, <1>2
  <2>2. CASE Met \ {c} = {}
    BY <1>1, <1>2, <2>1, <2>2
  <2>3. CASE Met \ {c} # {}
    BY <1>1, <1>2, <2>1, <2>3
  <2> QED BY <2>2, <2>3
<1>4. ASSUME NEW d \in Met', d # list'.tail
      PROVE  MetRightAfter(d, list.prev[d])'
  <2>1. d \in Met \ {c} /\ charPos'[d] = charPos[d] /\ charPos[d] \in Int /\ charPos[d] < cur
    BY <1>1, <1>2, <1>4
  <2>2. CASE list'.prev[d] = c /\ \A e \in Met \ {c} : charPos[e] <= charPos[d]
    <3>1. \A e \in Met' : charPos'[d] < charPos'[e] => e = c
      BY <1>1, <1>2, <2>1, <2>2
    <3> QED BY <1>1, <1>2, <2>1, <2>2, <3>1 DEF MetRightAfter
  <2>3. CASE /\ list'.prev[d] \in Met \ {c} /\ charPos[d] < charPos[list'.prev[d]]
             /\ \A e \in Met \ {c} : charPos[d] < charPos[e] => charPos[list'.prev[d]] <= charPos[e]
    <3>1. charPos'[list'.prev[d]] = charPos[list'.prev[d]] /\ charPos[list'.prev[d]] <= cur
      BY <1>1, <2>3
    <3> QED BY <1>1, <1>2, <2>1, <2>3, <3>1 DEF MetRightAfter
  <2> QED BY <2>1, <2>2, <2>3
<1> QED BY <1>1, <1>2, <1>3, <1>4 DEF RecencyOrder

(* Whatever the place of the character read, the list is left in order.    *)
LEMMA VisitStructure ==
  ASSUME TypeOK, Structure, SizeCountsMet, Visit
  PROVE  Structure'
<1> DEFINE c == input[cur + 1]
<1>0. Markers /\ RecencyOrder /\ BackLinks /\ LeadLink
  BY DEF Structure
<1>1. /\ c \in Chars /\ Met' = Met \cup {c}
      /\ (DoubledLead' <=> DoubledLead \/ Met = {c})
  BY VisitReads, <1>0
<1>2. list' = Refreshed(c)
  BY DEF Visit
<1>3. /\ \A d \in Met : charPos[d] \in Int
      /\ Markers'
  BY VisitPositions
<1>4. /\ Met \subseteq Chars /\ NULL \notin Met /\ list \in ListType
      /\ list.next \in [Chars -> Pointer] /\ list.prev \in [Chars -> Pointer]
  BY MetFacts, MinWinAssumption DEF TypeOK, ListType
<1>5. \A d, e \in Met : charPos[d] = charPos[e] => d = e
  BY DistinctSightings, <1>0 DEF RecencyOrder
<1>6. SUFFICES RecencyOrder' /\ BackLinks' /\ LeadLink'
  BY <1>3 DEF Structure
<1> HIDE DEF c
<1>7. CASE Met = {}
  <2>1. /\ list'.head = c /\ list'.tail = c
        /\ list'.prev = list.prev /\ list'.next = list.next
    BY <1>1, <1>2, <1>7, LinkFirst
  <2>2. \A d \in Chars : list.prev[d] = NULL /\ list.next[d] = NULL
    BY <1>0, <1>7 DEF BackLinks
  <2>3. RecencyOrder'
    BY <1>1, <1>7, <2>1, <2>2, VisitOrder DEF c
  <2>4. BackLinks' /\ LeadLink'
    <3>1. ~DoubledLead'
      BY <1>1, <1>7 DEF DoubledLead, Met
    <3> QED BY <1>1, <1>7, <2>1, <2>2, <3>1 DEF BackLinks, LeadLink
  <2> QED BY <2>3, <2>4
<1>8. CASE Met # {} /\ c \notin Met
  <2>1. /\ list'.head = list.head /\ list'.tail = c
        /\ list'.prev = [list.prev EXCEPT ![list.tail] = c]
        /\ list'.next = [list.next EXCEPT ![c] = list.tail]
    BY <1>1, <1>2, <1>8, LinkNew
  <2>2. /\ list.head \in Met /\ list.tail \in Met /\ list.prev[list.tail] = NULL
        /\ list.prev[c] = NULL
    BY <1>0, <1>1, <1>8 DEF RecencyOrder, BackLinks
  <2>3. RecencyOrder'
    <3>1. list'.prev[c] = NULL
      BY <1>1, <1>4, <1>8, <2>1, <2>2
    <3>2. \A d \in Met \ {c} : charPos[list'.head] <= charPos[d]
      BY <1>0, <1>8, <2>1 DEF RecencyOrder
    <3>3. ASSUME NEW d \in Met \ {c}, d = list.tail
          PROVE  list'.prev[d] = c /\ \A e \in Met \ {c} : charPos[e] <= charPos[d]
      BY <1>0, <1>4, <1>8, <2>1, <3>3 DEF RecencyOrder
    <3>4. ASSUME NEW d \in Met \ {c}, d # list.tail
          PROVE  /\ list'.prev[d] \in Met \ {c} /\ charPos[d] < charPos[list'.prev[d]]
                 /\ \A e \in Met \ {c} : charPos[d] < charPos[e] => charPos[list'.prev[d]] <= charPos[e]
      <4>1. list'.prev[d] = list.prev[d] /\ MetRightAfter(d, list.prev[d])
        BY <1>0, <1>4, <2>1, <3>4 DEF RecencyOrder
      <4> QED BY <4>1, <1>8 DEF MetRightAfter
    <3> QED BY <1>8, <2>1, <2>2, <3>1, <3>2, <3>3, <3>4, VisitOrder DEF c
  <2>4. BackLinks'
    <3>1. ASSUME NEW d \in Met', d # list'.head
          PROVE  list'.next[d] \in Met' /\ list'.prev[list'.next[d]] = d
      <4>1. CASE d = c
        BY <4>1, <1>1, <1>4, <2>1, <2>2
      <4>2. CASE d # c
        <5>1. list.next[d] \in Met /\ list.prev[list.next[d]] = d
          BY <4>2, <3>1, <1>0, <1>1, <2>1 DEF BackLinks
        <5>2. list.next[d] # list.tail
          BY <5>1, <2>2, <1>1, <1>4, <3>1, <4>2
        <5> QED BY <5>1, <5>2, <4>2, <3>1, <1>1, <1>4, <2>1
      <4> QED BY <4>1, <4>2
    <3>2. list'.next[list'.head] = list.next[list.head]
      BY <1>4, <1>8, <2>1, <2>2
    <3>3. \A d \in Chars \ Met' : list'.next[d] = NULL /\ list'.prev[d] = NULL
      BY <1>0, <1>1, <1>4, <2>1, <2>2 DEF BackLinks
    <3> QED BY <1>0, <1>1, <1>8, <2>1, <3>1, <3>2, <3>3 DEF BackLinks
  <2>5. LeadLink'
    BY <1>1, <1>8 DEF LeadLink
  <2> QED BY <2>3, <2>4, <2>5
<1>9. CASE c \in Met /\ Unlinked(c)
  <2>1. /\ Met = {c} /\ list'.head = c /\ list'.tail = c
        /\ list'.prev = list.prev /\ list'.next = [list.next EXCEPT ![c] = c]
    BY <1>1, <1>2, <1>9, LinkAgain
  <2>2. list.prev[c] = NULL
    BY <1>9, SizeZero DEF Unlinked
  <2>3. RecencyOrder'
    BY <2>1, <2>2, VisitOrder DEF c
  <2>4. Met' = {c} /\ DoubledLead' /\ list'.next[c] = c /\ c # NULL
    BY <1>1, <1>4, <1>9, <2>1
  <2>5. BackLinks' /\ LeadLink'
    <3>1. \A d \in Chars \ Met' : list'.next[d] = NULL /\ list'.prev[d] = NULL
      BY <1>0, <1>4, <2>1, <2>4 DEF BackLinks
    <3> QED BY <2>1, <2>4, <3>1 DEF BackLinks, LeadLink
  <2> QED BY <2>3, <2>5
<1>10. CASE c \in Met /\ ~Unlinked(c) /\ c = list.tail
  <2>1. list' = list /\ list.prev[c] = NULL /\ Met' = Met
    BY <1>0, <1>1, <1>2, <1>10, StayLast DEF RecencyOrder
  <2>2. RecencyOrder'
    <3>1. \A d \in Met \ {c} : charPos[d] < charPos[c]
      BY <1>0, <1>3, <1>5, <1>10 DEF RecencyOrder
    <3>2. list.head \in Met /\ \A d \in Met : charPos[list.head] <= charPos[d]
      BY <1>0, <1>10 DEF RecencyOrder
    <3>3. Met \ {c} # {} => list.head # c
      BY <1>3, <1>10, <3>1, <3>2
    <3>4. ASSUME NEW d \in Met \ {c}
          PROVE  MetRightAfter(d, list.prev[d])
      BY <1>0, <1>10, <3>4 DEF RecencyOrder
    <3>5. ASSUME NEW d \in Met \ {c}, list.prev[d] = c
          PROVE  \A e \in Met \ {c} : charPos[e] <= charPos[d]
      BY <1>3, <1>10, <3>1, <3>4, <3>5 DEF MetRightAfter
    <3>6. ASSUME NEW d \in Met \ {c}, list.prev[d] # c
          PROVE  /\ list.prev[d] \in Met \ {c} /\ charPos[d] < charPos[list.prev[d]]
                 /\ \A e \in Met \ {c} : charPos[d] < charPos[e] => charPos[list.prev[d]] <= charPos[e]
      BY <3>4, <3>6 DEF MetRightAfter
    <3> QED BY <1>10, <2>1, <3>2, <3>3, <3>5, <3>6, VisitOrder DEF c
  <2>3. BackLinks'
    BY <1>0, <1>1, <2>1 DEF BackLinks
  <2>4. LeadLink'
    <3>1. Met = {c} => list.next[c] # NULL
      BY <1>10, <2>1 DEF Unlinked
    <3> QED BY <1>0, <1>1, <1>10, <2>1, <3>1 DEF LeadLink
  <2> QED BY <2>2, <2>3, <2>4
<1>11. CASE c \in Met /\ ~Unlinked(c) /\ c # list.tail
  <2> DEFINE p == list.prev[c]
             n == list.next[c]
  <2>1. /\ p \in Met /\ p # c /\ charPos[c] < charPos[p]
        /\ \A e \in Met : charPos[c] < charPos[e] => charPos[p] <= charPos[e]
    BY <1>0, <1>11, Successor DEF RecencyOrder, MetRightAfter
  <2>2. /\ list.head \in Met /\ list.tail \in Met /\ list.prev[list.tail] = NULL
        /\ \A d \in Met : charPos[list.head] <= charPos[d] /\ charPos[d] <= charPos[list.tail]
    BY <1>0, <1>11 DEF RecencyOrder
  <2>3. \A d \in Met : d # list.tail =>
          /\ list.prev[d] \in Met /\ charPos[d] < charPos[list.prev[d]]
          /\ \A e \in Met : charPos[d] < charPos[e] => charPos[list.prev[d]] <= charPos[e]
    BY <1>0 DEF RecencyOrder, MetRightAfter
  <2>4. \A d \in Met : d # list.head => list.next[d] \in Met /\ list.prev[list.next[d]] = d
    BY <1>0 DEF BackLinks
  <2>5. \A d \in Chars \ Met : list.next[d] = NULL /\ list.prev[d] = NULL
    BY <1>0 DEF BackLinks
  <2>6. Met' = Met
    BY <1>1, <1>11
  <2>7. CASE c = list.head
    <3>1. /\ list'.head = p /\ list'.tail = c
          /\ list'.prev = [[list.prev EXCEPT ![list.tail] = c] EXCEPT ![c] = NULL]
          /\ list'.next = [[list.next EXCEPT ![p] = NULL] EXCEPT ![c] = list.tail]
      BY <1>1, <1>2, <1>11, <2>7, MoveFront
    <3>2. /\ list'.prev[c] = NULL /\ list'.prev[list.tail] = c
          /\ \A d \in Chars : d # c /\ d # list.tail => list'.prev[d] = list.prev[d]
      BY <3>1, <1>1, <1>4, <1>11, <2>2
    <3>3. /\ list'.next[c] = list.tail /\ list'.next[p] = NULL
          /\ \A d \in Chars : d # c /\ d # p => list'.next[d] = list.next[d]
      BY <3>1, <1>1, <1>4, <1>11, <2>1
    <3>4. \A d \in Met \ {c} : charPos[c] < charPos[d] /\ charPos[p] <= charPos[d]
      BY <1>3, <1>5, <1>11, <2>1, <2>2, <2>7
    <3>5. \A d \in Met \ {c} : list.prev[d] # c
      BY <1>3, <1>4, <1>11, <2>2, <2>3, <3>4
    <3>6. RecencyOrder'
      <4>1. ASSUME NEW d \in Met \ {c}
            PROVE  \/ /\ list'.prev[d] = c
                      /\ \A e \in Met \ {c} : charPos[e] <= charPos[d]
                   \/ /\ list'.prev[d] \in Met \ {c} /\ charPos[d] < charPos[list'.prev[d]]
                      /\ \A e \in Met \ {c} : charPos[d] < charPos[e] => charPos[list'.prev[d]] <= charPos[e]
        <5>1. CASE d = list.tail
          BY <5>1, <2>2, <3>2
        <5>2. CASE d # list.tail
          <6>1. list'.prev[d] = list.prev[d]
            BY <5>2, <4>1, <3>2, <1>4
          <6> QED BY <6>1, <5>2, <4>1, <3>5, <2>3
        <5> QED BY <5>1, <5>2
      <4>2. list'.head \in Met \ {c} /\ \A d \in Met \ {c} : charPos[list'.head] <= charPos[d]
        BY <2>1, <3>1, <3>4
      <4> QED BY <1>11, <3>1, <3>2, <4>1, <4>2, VisitOrder DEF c
    <3>7. BackLinks'
      <4>1. ASSUME NEW d \in Met, d # p
            PROVE  list'.next[d] \in Met /\ list'.prev[list'.next[d]] = d
        <5>1. CASE d = c
          BY <5>1, <2>2, <3>2, <3>3
        <5>2. CASE d # c
          <6>1. list.next[d] \in Met /\ list.prev[list.next[d]] = d
            BY <5>2, <2>4, <2>7
          <6>2. list.next[d] # c /\ list.next[d] # list.tail
            BY <6>1, <4>1, <2>2, <1>4
          <6>3. list'.next[d] = list.next[d]
            BY <5>2, <4>1, <3>3, <1>4
          <6> QED BY <6>1, <6>2, <6>3, <3>2, <1>4
        <5> QED BY <5>1, <5>2
      <4>2. \A d \in Chars \ Met : list'.next[d] = NULL /\ list'.prev[d] = NULL
        BY <1>11, <2>1, <2>2, <2>5, <3>2, <3>3
      <4> QED BY <2>6, <3>1, <3>3, <4>1, <4>2 DEF BackLinks
    <3>8. LeadLink'
      BY <1>11, <2>1, <2>6 DEF LeadLink
    <3> QED BY <3>6, <3>7, <3>8
  <2>8. CASE c # list.head
    <3>1. /\ list'.head = list.head /\ list'.tail = c
          /\ list'.prev = [[[list.prev EXCEPT ![n] = p] EXCEPT ![list.tail] = c] EXCEPT ![c] = NULL]
          /\ list'.next = [[list.next EXCEPT ![p] = n] EXCEPT ![c] = list.tail]
      BY <1>1, <1>2, <1>11, <2>8, MoveMiddle
    <3>2. /\ n \in Met /\ list.prev[n] = c /\ n # list.tail
          /\ charPos[n] < charPos[c] /\ n # c
      BY <1>3, <1>4, <1>11, <2>2, <2>3, <2>4, <2>8
    <3>3. /\ list'.prev[c] = NULL /\ list'.prev[list.tail] = c /\ list'.prev[n] = p
          /\ \A d \in Chars : d \notin {c, n, list.tail} => list'.prev[d] = list.prev[d]
      BY <3>1, <3>2, <1>1, <1>4, <1>11, <2>2
    <3>4. /\ list'.next[c] = list.tail /\ list'.next[p] = n
          /\ \A d \in Chars : d # c /\ d # p => list'.next[d] = list.next[d]
      BY <3>1, <1>1, <1>4, <1>11, <2>1
    <3>5. ASSUME NEW d \in Met \ {c}, list.prev[d] = c PROVE d = n
      <4>1. /\ d # list.tail /\ charPos[d] < charPos[c] /\ charPos[n] < charPos[c]
            /\ charPos[d] < charPos[n] => charPos[c] <= charPos[n]
            /\ charPos[n] < charPos[d] => charPos[c] <= charPos[d]
        BY <3>5, <3>2, <2>2, <2>3, <1>4, <1>11
      <4> QED BY <4>1, <3>2, <1>3, <1>5, <1>11
    <3>6. ASSUME NEW d \in Met \ {c}
          PROVE  \/ /\ list'.prev[d] = c
                    /\ \A e \in Met \ {c} : charPos[e] <= charPos[d]
                 \/ /\ list'.prev[d] \in Met \ {c} /\ charPos[d] < charPos[list'.prev[d]]
                    /\ \A e \in Met \ {c} : charPos[d] < charPos[e] => charPos[list'.prev[d]] <= charPos[e]
      <4>1. CASE d = list.tail
        BY <4>1, <2>2, <3>3
      <4>2. CASE d = n
        <5>1. charPos[d] < charPos[p]
          BY <4>2, <3>2, <2>1, <1>3, <1>11
        <5>2. ASSUME NEW e \in Met \ {c}, charPos[d] < charPos[e]
              PROVE  charPos[p] <= charPos[e]
          <6>1. charPos[c] <= charPos[e] /\ charPos[c] # charPos[e]
            BY <5>2, <4>2, <3>2, <2>3, <1>5, <1>11
          <6> QED BY <6>1, <2>1, <1>3, <1>11
        <5> QED BY <4>2, <3>3, <2>1, <5>1, <5>2
      <4>3. CASE d # list.tail /\ d # n
        <5>1. list'.prev[d] = list.prev[d] /\ list.prev[d] # c
          BY <4>3, <3>3, <3>5, <1>4
        <5> QED BY <5>1, <4>3, <2>3
      <4> QED BY <4>1, <4>2, <4>3
    <3>7. RecencyOrder'
      <4>1. list'.head \in Met \ {c} /\ \A d \in Met \ {c} : charPos[list'.head] <= charPos[d]
        BY <2>2, <2>8, <3>1
      <4>2. list'.tail = c /\ list'.prev[c] = NULL
        BY <3>1, <3>3
      <4> QED BY <3>6, <4>1, <4>2, VisitOrder DEF c
    <3>8. BackLinks'
      <4>1. ASSUME NEW d \in Met, d # list.head
            PROVE  list'.next[d] \in Met /\ list'.prev[list'.next[d]] = d
        <5>1. CASE d = c
          BY <5>1, <2>2, <3>3, <3>4
        <5>2. CASE d = p
          BY <5>2, <3>2, <3>3, <3>4
        <5>3. CASE d # c /\ d # p
          <6>1. list.next[d] \in Met /\ list.prev[list.next[d]] = d
            BY <4>1, <2>4
          <6>2. list.next[d] \notin {c, n, list.tail}
            BY <6>1, <5>3, <4>1, <3>2, <2>2, <1>4
          <6>3. list'.next[d] = list.next[d]
            BY <5>3, <3>4, <1>4
          <6> QED BY <6>1, <6>2, <6>3, <3>3, <1>4
        <5> QED BY <5>1, <5>2, <5>3
      <4>2. list.head # p
        BY <1>3, <1>11, <2>1, <2>2
      <4>3. list'.next[list'.head] = list.next[list.head]
        BY <4>2, <3>1, <3>4, <2>2, <2>8, <1>4
      <4>4. \A d \in Chars \ Met : list'.next[d] = NULL /\ list'.prev[d] = NULL
        BY <1>11, <2>1, <2>2, <2>5, <3>2, <3>3, <3>4
      <4> QED BY <1>0, <1>1, <1>11, <2>6, <3>1, <4>1, <4>3, <4>4 DEF BackLinks
    <3>9. LeadLink'
      BY <1>11, <2>1, <2>6 DEF LeadLink
    <3> QED BY <3>7, <3>8, <3>9
  <2> QED BY <2>7, <2>8
<1> QED BY <1>7, <1>8, <1>9, <1>10, <1>11
-----------------------------------------------------------------------------
(* ++size keeps step with the characters met, the doubled lead character   *)
(* aside (lines 104 to 108).                                               *)
LEMMA VisitSize ==
  ASSUME TypeOK, Structure, SizeCountsMet, Visit
  PROVE  SizeCountsMet' /\ size' \in Nat
<1> DEFINE c == input[cur + 1]
<1>1. /\ c \in Chars /\ Met' = Met \cup {c}
      /\ (DoubledLead' <=> DoubledLead \/ Met = {c})
  BY VisitReads DEF Structure
<1>2. size' = IF Unlinked(c) THEN size + 1 ELSE size
  BY DEF Visit, Counted
<1>3. IsFiniteSet(Met) /\ Cardinality(Met) \in Nat
  BY MetFacts
<1>4. Cardinality(Met') = IF c \in Met THEN Cardinality(Met) ELSE Cardinality(Met) + 1
  BY <1>1, <1>3, FS_AddElement
<1> HIDE DEF c
<1>5. CASE c \notin Met
  <2>1. Unlinked(c)
    BY <1>1, <1>5, LinkFirst, LinkNew
  <2> QED BY <1>1, <1>2, <1>3, <1>4, <1>5, <2>1 DEF SizeCountsMet
<1>6. CASE c \in Met /\ Unlinked(c)
  <2>1. ~DoubledLead /\ DoubledLead'
    BY <1>1, <1>6, LinkAgain
  <2> QED BY <1>2, <1>3, <1>4, <1>6, <2>1 DEF SizeCountsMet
<1>7. CASE c \in Met /\ ~Unlinked(c)
  <2>1. ASSUME Met = {c} PROVE DoubledLead
    <3>1. list.prev[c] = NULL
      BY <2>1 DEF Structure, RecencyOrder
    <3>2. list.next[c] # NULL
      BY <3>1, <1>7 DEF Unlinked
    <3> QED BY <2>1, <3>2 DEF Structure, LeadLink
  <2> QED BY <1>1, <1>2, <1>3, <1>4, <1>7, <2>1 DEF SizeCountsMet
<1> QED BY <1>5, <1>6, <1>7

(* Linking and unlinking a character leave a list of characters.           *)
LEMMA ListTyped ==
  ASSUME NEW l \in ListType, NEW t \in Chars
  PROVE  emplace_back(l, t) \in ListType /\ pop(l, t) \in ListType
<1>1. emplace_back(l, t) \in ListType
  BY DEF emplace_back, ListType, Pointer
<1>2. pop_front(l) \in ListType
  BY DEF pop_front, ListType, Pointer
<1>3. pop_back(l) \in ListType
  BY DEF pop_back, ListType, Pointer
<1>4. pop(l, t) \in ListType
  BY <1>2, <1>3 DEF pop, ListType, Pointer
<1> QED BY <1>1, <1>4

(* The window that ends at the character read and starts at the head.      *)
LEMMA VisitDistance ==
  ASSUME TypeOK, Structure, SizeCountsMet, Visit
  PROVE  /\ charPos'[list'.head] \in 0..cur
         /\ list'.head \in Met' /\ Met' # {}
         /\ \A d \in Met' : charPos'[d] \in charPos'[list'.head]..cur
<1>1. RecencyOrder'
  BY VisitStructure DEF Structure
<1>2. Met' # {}
  BY VisitReads DEF Structure
<1>3. cur \in Nat /\ \A d \in Met' : charPos'[d] \in Nat /\ charPos'[d] <= cur
  <2>1. \A d \in Met' : charPos'[d] \in Sighted'
    BY <1>1 DEF RecencyOrder, LastSighting
  <2>2. Sighted' = Sighted \cup {cur} /\ cur \in Nat
    BY VisitReads, CharRead DEF Structure, Visit
  <2> QED BY <2>1, <2>2, MetFacts
<1> QED BY <1>1, <1>2, <1>3 DEF RecencyOrder

(* An iteration that reads a pattern character assigns values of the right *)
(* types; in particular cur - top->pos does not wrap.                      *)
LEMMA VisitTyped ==
  ASSUME TypeOK, Structure, SizeCountsMet, Visit
  PROVE  TypeOK'
<1> DEFINE c == input[cur + 1]
<1>1. cur \in Nat /\ cur < Len(input) /\ c \in Chars /\ Len(input) \in Nat
  BY CharRead DEF Visit
<1>2. charPos' \in [Chars -> 0..MaxInput \cup {MARKER}]
  BY <1>1, MinWinAssumption DEF TypeOK, Visit
<1>3. list' \in ListType
  <2>1. Linked(c) \in ListType
    BY <1>1, ListTyped DEF TypeOK, Linked
  <2>2. Refreshed(c) \in ListType
    BY <1>1, <2>1, ListTyped DEF Refreshed
  <2> QED BY <2>2 DEF Visit
<1>4. min_distance' \in 0..MaxInput \cup {MARKER} /\ pos' \in 0..MaxInput
  BY <1>1, VisitDistance, MinWinAssumption DEF TypeOK, Visit, Distance
<1> QED BY <1>1, <1>2, <1>3, <1>4, VisitSize DEF TypeOK, Visit
-----------------------------------------------------------------------------
(* The reference windows depend on the arguments alone.                    *)
LEMMA SameWindows ==
  ASSUME input' = input, pattern' = pattern
  PROVE  /\ Windows' = Windows /\ PatternChars' = PatternChars
         /\ DistinctPattern' <=> DistinctPattern
<1>1. PatternChars' = PatternChars
  BY DEF PatternChars
<1>2. Windows' = Windows
  BY <1>1 DEF Windows, Covers
<1> QED BY <1>1, <1>2 DEF DistinctPattern

(* The pattern has finitely many characters, and some unless it is empty.  *)
LEMMA PatternFacts ==
  ASSUME TypeOK
  PROVE  IsFiniteSet(PatternChars) /\ (pattern # <<>> => PatternChars # {})
<1>1. pattern \in Seq(Chars) /\ Len(pattern) \in Nat /\ DOMAIN pattern = 1..Len(pattern)
  BY DEF TypeOK
<1>2. IsFiniteSet(1..Len(pattern))
  BY <1>1, FS_Interval
<1>3. pattern \in Surjection(1..Len(pattern), PatternChars)
  <2>1. PatternChars = {pattern[k] : k \in 1..Len(pattern)}
    BY <1>1 DEF PatternChars, Range
  <2> QED BY <1>1, <2>1 DEF Surjection
<1>4. IsFiniteSet(PatternChars)
  BY <1>2, <1>3, FS_Surjection
<1>5. ASSUME pattern # <<>> PROVE PatternChars # {}
  <2>1. Len(pattern) # 0
    BY <1>1, <1>5, EmptySeq
  <2>2. 1 \in DOMAIN pattern
    BY <1>1, <2>1
  <2>3. pattern[1] \in PatternChars
    BY <2>2 DEF PatternChars, Range
  <2> QED BY <2>3
<1> QED BY <1>4, <1>5

(* The windows that end at a pattern character start at the head or before.*)
LEMMA VisitCovers ==
  ASSUME TypeOK, Structure, SizeCountsMet, Visit, NEW i \in 0..cur, PatternChars # {}
  PROVE  Covers(i, cur) <=> Met' = PatternChars /\ i <= charPos'[list'.head]
<1>1. cur \in Nat /\ input' = input
  BY CharRead DEF Visit
<1>2. /\ list'.head \in Met' /\ charPos'[list'.head] \in 0..cur
      /\ \A d \in Met' : charPos'[d] \in charPos'[list'.head]..cur
  BY VisitDistance
<1>3. LastSighting'
  BY VisitPositions
<1>4. Met' \subseteq PatternChars /\ PatternChars' = PatternChars
  BY VisitReads, MetFacts DEF Structure
<1>5. Sighted' = {k \in 0..cur : input[k + 1] \in PatternChars}
  <2>1. cur' = cur + 1
    BY DEF Visit
  <2> QED BY <1>1, <1>4, <2>1 DEF Sighted
<1>6. ASSUME Covers(i, cur) PROVE Met' = PatternChars /\ i <= charPos'[list'.head]
  <2>1. ASSUME NEW d \in PatternChars PROVE d \in Met'
    <3>1. PICK k \in i..cur : input[k + 1] = d
      BY <1>6 DEF Covers
    <3>2. k \in Sighted'
      BY <1>1, <1>5, <2>1, <3>1
    <3> QED BY <1>1, <3>1, <3>2 DEF Met
  <2>2. PICK k \in i..cur : input[k + 1] = list'.head
    BY <1>2, <1>4, <1>6 DEF Covers
  <2>3. k \in Sighted' /\ k \in Int
    BY <1>1, <1>2, <1>4, <1>5, <2>2
  <2>4. ~(k > charPos'[list'.head])
    BY <1>1, <1>2, <1>3, <2>2, <2>3 DEF LastSighting
  <2> QED BY <1>1, <1>2, <1>4, <2>1, <2>2, <2>3, <2>4
<1>7. ASSUME Met' = PatternChars, i <= charPos'[list'.head] PROVE Covers(i, cur)
  <2>1. SUFFICES ASSUME NEW d \in PatternChars PROVE \E k \in i..cur : input[k + 1] = d
    BY DEF Covers
  <2>2. charPos'[d] \in i..cur
    BY <1>1, <1>2, <1>7, <2>1
  <2>3. input[charPos'[d] + 1] = d
    BY <1>1, <1>3, <1>7, <2>1 DEF LastSighting
  <2> QED BY <2>2, <2>3
<1> QED BY <1>6, <1>7

(* An iteration that reads a pattern character leaves the best window of   *)
(* the input read so far in min_distance and pos (lines 114 to 123).       *)
LEMMA VisitWindow ==
  ASSUME IInv, Visit
  PROVE  BestWindow' /\ InRange'
<1>1. TypeOK /\ Structure /\ SizeCountsMet /\ InRange /\ BestWindow
  BY DEF IInv
<1>2. /\ cur \in Nat /\ cur < Len(input) /\ Len(input) \in Nat
      /\ cur' = cur + 1 /\ input' = input /\ pattern' = pattern /\ result' = result
  BY <1>1, CharRead DEF Visit
<1>3. pattern # <<>>
  <2>1. PatternChars # {}
    BY <1>1, VisitReads DEF Structure
  <2> QED BY <2>1 DEF PatternChars, Range
<1> DEFINE distance == cur - charPos'[list'.head]
<1>4. distance \in 0..cur /\ cur - distance = charPos'[list'.head]
  BY <1>1, <1>2, VisitDistance
<1>5. IF size' = Len(pattern) /\ distance < min_distance
      THEN min_distance' = distance /\ pos' = cur
      ELSE min_distance' = min_distance /\ pos' = pos
  BY DEF Visit, Distance, Improves
<1>6. /\ min_distance \in Nat /\ pos \in Nat /\ min_distance <= MARKER
      /\ MARKER \in Nat /\ cur < MARKER
  BY <1>1, <1>2, MinWinAssumption DEF TypeOK
<1> HIDE DEF distance
<1>7. InRange'
  <2>1. min_distance' # MARKER => pattern' # <<>> /\ pos' < cur' /\ min_distance' <= pos'
    BY <1>1, <1>2, <1>3, <1>4, <1>5, <1>6 DEF InRange
  <2>2. result' = NULL
    BY <1>1, <1>2 DEF InRange
  <2> QED BY <2>1, <2>2 DEF InRange
<1>8. ASSUME DistinctPattern', ~DoubledLead' PROVE
         /\ min_distance' # MARKER => <<pos' - min_distance', pos'>> \in Windows'
         /\ \A v \in Windows' : v[2] < cur' =>
              min_distance' # MARKER /\ NoBetter(v, min_distance, pos)'
  <2>1. Windows' = Windows /\ DistinctPattern /\ PatternChars' = PatternChars
    BY <1>2, <1>8, SameWindows
  <2>2. ~DoubledLead /\ Met' \subseteq PatternChars
    BY <1>1, <1>8, VisitReads, MetFacts DEF Structure
  <2>3. /\ min_distance # MARKER => <<pos - min_distance, pos>> \in Windows
        /\ \A v \in Windows : v[2] < cur =>
              min_distance # MARKER /\ NoBetter(v, min_distance, pos)
    BY <1>1, <1>3, <2>1, <2>2 DEF BestWindow
  <2>4. size' = Len(pattern) <=> Met' = PatternChars
    <3>1. size' = Cardinality(Met')
      <4>1. SizeCountsMet'
        BY <1>1, VisitSize
      <4>2. IsFiniteSet(Met')
        BY <1>1, <2>2, PatternFacts, FS_Subset
      <4>3. Cardinality(Met') \in Nat
        BY <4>2, FS_CardinalityType
      <4> QED BY <1>8, <4>1, <4>3 DEF SizeCountsMet
    <3>2. Cardinality(PatternChars) = Len(pattern) /\ IsFiniteSet(PatternChars)
      BY <1>1, <2>1, PatternFacts DEF DistinctPattern
    <3> QED BY <2>2, <3>1, <3>2, FS_Subset
  <2>5. \A i \in 0..cur : Covers(i, cur) <=> size' = Len(pattern) /\ i <= cur - distance
    BY <1>1, <1>3, <1>4, <2>4, PatternFacts, VisitCovers
  <2>6. ASSUME min_distance' # MARKER PROVE <<pos' - min_distance', pos'>> \in Windows
    <3>1. CASE size' = Len(pattern) /\ distance < min_distance
      <4>1. cur - distance \in 0..cur /\ Covers(cur - distance, cur)
        BY <1>2, <1>4, <2>5, <3>1
      <4> QED BY <1>2, <1>4, <1>5, <3>1, <4>1 DEF Windows
    <3>2. CASE ~(size' = Len(pattern) /\ distance < min_distance)
      BY <1>5, <2>3, <2>6, <3>2
    <3> QED BY <3>1, <3>2
  <2>7. ASSUME NEW v \in Windows, v[2] < cur'
        PROVE  min_distance' # MARKER /\ NoBetter(v, min_distance, pos)'
    <3>1. /\ v[1] \in Nat /\ v[2] \in Nat /\ v[1] <= v[2] /\ Covers(v[1], v[2])
          /\ v[2] <= cur
      BY <1>2, <2>7 DEF Windows
    <3>2. CASE v[2] < cur
      <4>1. min_distance # MARKER /\ NoBetter(v, min_distance, pos)
        BY <2>3, <3>2
      <4> QED BY <1>4, <1>5, <1>6, <3>1, <3>2, <4>1 DEF NoBetter, Span
    <3>3. CASE v[2] = cur
      <4>1. size' = Len(pattern) /\ v[1] <= cur - distance
        BY <1>2, <2>5, <3>1, <3>3
      <4>2. CASE distance < min_distance
        <5>1. min_distance' = distance /\ pos' = cur
          BY <1>5, <4>1, <4>2
        <5>2. distance \in Nat /\ distance <= cur - v[1] /\ distance # MARKER
          BY <1>2, <1>4, <1>6, <3>1, <4>1
        <5> QED BY <1>2, <3>1, <3>3, <5>1, <5>2 DEF NoBetter, Span
      <4>3. CASE ~(distance < min_distance)
        <5>1. min_distance' = min_distance /\ pos' = pos /\ min_distance <= distance
          BY <1>2, <1>4, <1>5, <1>6, <4>3
        <5>2. min_distance # MARKER /\ pos < cur
          BY <1>1, <1>2, <1>4, <1>6, <5>1 DEF InRange
        <5>3. distance <= cur - v[1] /\ distance \in Nat
          BY <1>2, <1>4, <3>1, <4>1
        <5> QED BY <1>2, <1>6, <3>1, <3>3, <5>1, <5>2, <5>3 DEF NoBetter, Span
      <4> QED BY <4>2, <4>3
    <3> QED BY <1>2, <3>1, <3>2, <3>3
  <2> QED BY <2>1, <2>6, <2>7
<1> QED BY <1>7, <1>8 DEF BestWindow

(* No best window ends at a character that is skipped.                     *)
LEMMA SkipWindow ==
  ASSUME IInv, Skip
  PROVE  BestWindow' /\ InRange'
<1>1. TypeOK /\ Structure /\ SizeCountsMet /\ InRange /\ BestWindow
  BY DEF IInv
<1>2. /\ cur \in Nat /\ cur < Len(input) /\ Len(input) \in Nat
      /\ cur' = cur + 1 /\ input' = input /\ pattern' = pattern /\ result' = result
      /\ min_distance' = min_distance /\ pos' = pos
  BY <1>1, CharRead DEF Skip
<1>3. input[cur + 1] \notin PatternChars
  BY <1>1, CharRead DEF Structure, Markers, Skip
<1>4. min_distance \in Nat /\ pos \in Nat
  BY <1>1, MinWinAssumption DEF TypeOK
<1>5. InRange'
  BY <1>1, <1>2, <1>4 DEF InRange
<1>6. ASSUME pattern # <<>>, DistinctPattern, ~DoubledLead, NEW v \in Windows, v[2] = cur
      PROVE  min_distance # MARKER /\ NoBetter(v, min_distance, pos)
  <2>1. v[1] \in Nat /\ v[1] <= cur /\ Covers(v[1], cur) /\ v = <<v[1], cur>>
    BY <1>6 DEF Windows
  <2>2. PICK d : d \in PatternChars
    BY <1>1, <1>6, PatternFacts
  <2>3. \A e \in PatternChars : \E k \in v[1]..(cur - 1) : input[k + 1] = e
    <3>1. SUFFICES ASSUME NEW e \in PatternChars
                   PROVE  \E k \in v[1]..(cur - 1) : input[k + 1] = e
      OBVIOUS
    <3>2. PICK k \in v[1]..cur : input[k + 1] = e
      BY <2>1 DEF Covers
    <3>3. k # cur
      BY <1>3, <3>1, <3>2
    <3> QED BY <1>2, <2>1, <3>2, <3>3
  <2>4. v[1] <= cur - 1
    BY <1>2, <2>1, <2>2, <2>3
  <2> DEFINE u == <<v[1], cur - 1>>
  <2>5. u \in Windows /\ u[2] < cur
    BY <1>2, <2>1, <2>3, <2>4 DEF Windows, Covers
  <2>6. min_distance # MARKER /\ NoBetter(u, min_distance, pos)
    BY <1>1, <1>6, <2>5 DEF BestWindow
  <2> QED BY <1>2, <1>4, <1>6, <2>1, <2>6 DEF NoBetter, Span
<1>7. BestWindow'
  <2>1. Windows' = Windows /\ (DistinctPattern' <=> DistinctPattern)
    BY <1>2, SameWindows
  <2>2. DoubledLead' <=> DoubledLead
    BY <1>1, SkipReads DEF Structure
  <2>3. \A v \in Windows : v[2] < cur' => v[2] < cur \/ v[2] = cur
    BY <1>2 DEF Windows
  <2> QED BY <1>1, <1>2, <1>6, <2>1, <2>2, <2>3 DEF BestWindow, NoBetter, Span
<1> QED BY <1>5, <1>7

(* An iteration that ends in `continue' leaves the list as it was.         *)
LEMMA SkipStructure ==
  ASSUME TypeOK, Structure, SizeCountsMet, Skip
  PROVE  TypeOK' /\ Structure' /\ SizeCountsMet'
<1>1. /\ Sighted' = Sighted /\ Met' = Met /\ (DoubledLead' <=> DoubledLead)
      /\ PatternChars' = PatternChars
  BY SkipReads DEF Structure
<1>2. TypeOK'
  BY CharRead DEF TypeOK, Skip
<1>3. input' = input /\ charPos' = charPos /\ list' = list /\ size' = size
  BY DEF Skip
<1>4. Structure'
  BY <1>1, <1>3 DEF Structure, Markers, RecencyOrder, LastSighting, MetRightAfter,
                    BackLinks, LeadLink
<1>5. SizeCountsMet'
  BY <1>1, <1>3 DEF SizeCountsMet
<1> QED BY <1>2, <1>4, <1>5

(* Returning from min_win changes nothing but the result, which is a part  *)
(* of the input.                                                           *)
LEMMA ReturnStep ==
  ASSUME IInv, Return
  PROVE  IInv'
<1>1. /\ UNCHANGED <<input, pattern, charPos, list, size, min_distance, pos, cur>>
      /\ TypeOK /\ Structure /\ SizeCountsMet /\ InRange /\ BestWindow
  BY DEF Return, IInv
<1>2. /\ Sighted' = Sighted /\ Met' = Met /\ (DoubledLead' <=> DoubledLead)
      /\ PatternChars' = PatternChars /\ Windows' = Windows
      /\ (DistinctPattern' <=> DistinctPattern)
  <2>1. PatternChars' = PatternChars
    BY <1>1 DEF PatternChars
  <2>2. Sighted' = Sighted
    BY <1>1, <2>1 DEF Sighted
  <2> QED BY <1>1, <2>1, <2>2, SameWindows DEF Met, DoubledLead
<1>3. result' \in Seq(Chars)
  <2>1. CASE min_distance = MARKER
    BY <2>1 DEF Return, Returned
  <2>2. CASE min_distance # MARKER
    <3>1. \A k \in (pos - min_distance + 1)..(pos + 1) : input[k] \in Chars
      BY <1>1, <2>2, MinWinAssumption DEF TypeOK, InRange
    <3>2. pos - min_distance + 1 \in Int /\ pos + 1 \in Int
      BY <1>1, <2>2, MinWinAssumption DEF TypeOK
    <3> QED BY <2>2, <3>1, <3>2, SubSeqProperties DEF Return, Returned
  <2> QED BY <2>1, <2>2
<1>4. TypeOK'
  BY <1>1, <1>3 DEF TypeOK
<1>5. Structure' /\ SizeCountsMet'
  BY <1>1, <1>2 DEF Structure, Markers, RecencyOrder, LastSighting, MetRightAfter,
                    BackLinks, LeadLink, SizeCountsMet
<1>6. BestWindow'
  BY <1>1, <1>2 DEF BestWindow, NoBetter, Span
<1>7. InRange'
  BY <1>1 DEF InRange, Return, Returned
<1> QED BY <1>4, <1>5, <1>6, <1>7 DEF IInv

(* The invariant holds when the loop of min_win is reached.                *)
LEMMA InitInv ==
  ASSUME Init
  PROVE  IInv
<1>1. /\ input \in Seq(Chars) /\ Len(input) \in Nat /\ Len(input) <= MaxInput
      /\ pattern \in Seq(Chars) /\ Len(pattern) <= MaxPattern
  BY MinWinAssumption DEF Init, SeqOf
<1>2. Sighted = {} /\ Met = {} /\ ~DoubledLead
  BY DEF Init, Sighted, Met, DoubledLead
<1>3. TypeOK
  BY <1>1, MinWinAssumption DEF Init, TypeOK, EmptyList, ListType, Pointer
<1>4. Structure
  <2>1. Markers
    BY MinWinAssumption DEF Init, Markers
  <2>2. RecencyOrder /\ BackLinks /\ LeadLink
    BY <1>2 DEF Init, RecencyOrder, LastSighting, BackLinks, LeadLink, EmptyList
  <2> QED BY <2>1, <2>2 DEF Structure
<1>5. SizeCountsMet
  BY <1>2, FS_EmptySet DEF Init, SizeCountsMet
<1>6. InRange
  BY DEF Init, InRange
<1>7. BestWindow
  BY <1>1 DEF Init, BestWindow, Windows
<1> QED BY <1>3, <1>4, <1>5, <1>6, <1>7 DEF IInv

(* Every iteration of min_win, and its return, preserve the invariant.     *)
LEMMA StepInv ==
  ASSUME IInv, [Next]_vars
  PROVE  IInv'
<1>1. CASE Skip
  BY <1>1, SkipStructure, SkipWindow DEF IInv
<1>2. CASE Visit
  BY <1>2, VisitTyped, VisitStructure, VisitSize, VisitWindow DEF IInv
<1>3. CASE Return
  BY <1>3, ReturnStep
<1>4. CASE UNCHANGED vars
  <2>1. PatternChars' = PatternChars
    BY <1>4 DEF vars, PatternChars
  <2>2. Sighted' = Sighted
    BY <1>4, <2>1 DEF vars, Sighted
  <2>3. Met' = Met /\ (DoubledLead' <=> DoubledLead)
    BY <1>4, <2>2 DEF vars, Met, DoubledLead
  <2>4. Windows' = Windows /\ (DistinctPattern' <=> DistinctPattern)
    BY <1>4, SameWindows DEF vars
  <2> QED BY <1>4, <2>1, <2>2, <2>3, <2>4
          DEF vars, IInv, TypeOK, Structure, Markers, RecencyOrder, LastSighting,
              MetRightAfter, BackLinks, LeadLink, SizeCountsMet, InRange,
              Returned, BestWindow, NoBetter, Span
<1> QED BY <1>1, <1>2, <1>3, <1>4 DEF Next

(* The inductive invariant of min_win's loop: types, the order and links   *)
(* of the list, the count, and the best window so far.                     *)
THEOREM Invariance == Spec => []IInv
<1>1. Init => IInv
  BY InitInv
<1>2. IInv /\ [Next]_vars => IInv'
  BY StepInv
<1> QED BY <1>1, <1>2, PTL DEF Spec

(* What the invariant says once min_win has returned.                      *)
LEMMA WindowReturned ==
  ASSUME IInv
  PROVE  MinWindowReturned
<1>1. SUFFICES ASSUME result # NULL, DistinctPattern, ~DoubledLead
               PROVE  IsMinWindow(result)
  BY DEF MinWindowReturned
<1>2. /\ cur = Len(input)
      /\ min_distance # MARKER => pattern # <<>>
      /\ result = IF min_distance = MARKER THEN <<>>
                  ELSE SubSeq(input, pos - min_distance + 1, pos + 1)
  BY <1>1 DEF IInv, InRange, Returned
<1>3. \A v \in Windows : v[1] \in Int /\ v[2] \in Int /\ v[2] < cur
  BY <1>2 DEF Windows, IInv, TypeOK
<1>4. CASE pattern = <<>>
  BY <1>2, <1>4 DEF IsMinWindow
<1>5. CASE pattern # <<>>
  <2>1. /\ min_distance # MARKER => <<pos - min_distance, pos>> \in Windows
        /\ \A v \in Windows : min_distance # MARKER /\ NoBetter(v, min_distance, pos)
    BY <1>1, <1>3, <1>5 DEF IInv, BestWindow
  <2>2. CASE min_distance = MARKER
    BY <1>2, <2>1, <2>2 DEF IsMinWindow
  <2>3. CASE min_distance # MARKER
    <3> DEFINE w == <<pos - min_distance, pos>>
    <3>1. w \in Windows /\ Span(w) = min_distance /\ w[2] = pos
      <4>1. pos \in Int /\ min_distance \in Int
        BY MinWinAssumption DEF IInv, TypeOK
      <4> QED BY <2>1, <2>3, <4>1 DEF Span
    <3>2. result = SubSeq(input, w[1] + 1, w[2] + 1)
      BY <1>2, <2>3
    <3> HIDE DEF w
    <3>3. \A v \in Windows : NoBetter(v, Span(w), w[2])
      BY <2>1, <3>1
    <3> QED BY <1>5, <3>1, <3>2, <3>3 DEF IsMinWindow
  <2> QED BY <2>2, <2>3
<1> QED BY <1>4, <1>5

(* min_win never leaves its types: no position, distance or substring is   *)
(* out of range (min_win's size_t arithmetic).                             *)
THEOREM TypeCorrect == Spec => []TypeOK
BY Invariance, PTL DEF IInv

(* For every alphabet, input and pattern, List keeps the pattern           *)
(* characters in the order of their last sighting.                         *)
THEOREM ListIsRecencyOrdered == Spec => []RecencyOrder
<1>1. IInv => RecencyOrder
  BY DEF IInv, Structure
<1> QED BY <1>1, Invariance, PTL

(* For every alphabet, input and pattern, the next pointers of List lead   *)
(* back along prev and only the listed characters are linked, whichever of *)
(* them pop unlinked.                                                      *)
THEOREM ListIsBackLinked == Spec => []BackLinks
<1>1. IInv => BackLinks
  BY DEF IInv, Structure
<1> QED BY <1>1, Invariance, PTL

(* For every input, `size' counts the pattern characters met, and one more *)
(* after a doubled lead character.                                         *)
THEOREM SizeIsMet == Spec => []SizeCountsMet
BY Invariance, PTL DEF IInv

(* For every input, the loop of min_win keeps the best window of what it   *)
(* has read, under the conditions of BestWindow.                           *)
THEOREM WindowIsBest == Spec => []BestWindow
BY Invariance, PTL DEF IInv

(* min_win is correct for every pattern of different characters and every  *)
(* input that does not open with one of them twice.                        *)
THEOREM ReturnsMinWindow == Spec => []MinWindowReturned
<1>1. IInv => MinWindowReturned
  BY WindowReturned
<1> QED BY <1>1, Invariance, PTL
=============================================================================
