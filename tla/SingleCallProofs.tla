---------------------------- MODULE SingleCallProofs ------------------------
(***************************************************************************)
(* The three components whose behaviour is one call: VisitTransform,       *)
(* Generator and Tracer.  visit_transform calls the function once for each *)
(* combination, in order, and hands over nothing stale but repeats;        *)
(* replaceAll is its reference, and Generate inserts where it should; and  *)
(* the traced client keeps TracePromise.                                   *)
(***************************************************************************)
EXTENDS VisitTransform, Generator, Tracer, FiniteSetTheorems, SequenceTheorems, WellFoundedInduction, TLAPS

(* A set of naturals that is not empty has a least element.              *)
LEMMA LeastElement ==
  ASSUME NEW S \in SUBSET Nat, S # {}
  PROVE  \E x \in S : \A y \in S : x <= y
<1>1. PICK x \in S : \A y \in S : ~(<<y, x>> \in OpToRel(<, Nat))
  BY NatLessThanWellFounded, WFMin
<1>2. \A y \in S : ~(y < x)
  BY <1>1 DEF OpToRel
<1>3. \A y \in S : x <= y
  BY <1>2
<1> QED BY <1>3

(* Min is it.                                                            *)
LEMMA MinIsMember ==
  ASSUME NEW S \in SUBSET Nat, S # {}
  PROVE  Min(S) \in S /\ \A y \in S : Min(S) <= y
<1>1. \E x \in S : \A y \in S : x <= y
  BY LeastElement
<1> QED BY <1>1 DEF Min

(* The equation of the fold over |: what it makes of the arguments in s. *)
Fold(f) ==
  [s \in SUBSET (DOMAIN [t \in Args |-> t]) |->
     IF s = {} THEN <<>> ELSE <<[t \in Args |-> t][Min(s)]>> \o f[s \ {Min(s)}]]

(* The element of s with j others below it; the one element of a set; and *)
(* the elements of s in ascending order.                                  *)
Rank(s, j) == {x \in s : Cardinality({y \in s : y < x}) = j}
Pick(S) == CHOOSE x \in S : TRUE
Sorted(s) == [j \in 1..Cardinality(s) |-> Pick(Rank(s, j - 1))]

(* A set in ascending order is its least element and then the rest.      *)
LEMMA SortedStep ==
  ASSUME NEW N \in Nat, NEW s \in SUBSET (1..N), s # {}
  PROVE  /\ Min(s) \in s
         /\ Sorted(s) = <<Min(s)>> \o Sorted(s \ {Min(s)})
<1> DEFINE m == Min(s)
           r == s \ {m}
<1>1. m \in s /\ m \in Nat /\ s \in SUBSET Nat /\ \A y \in s : y \in Nat /\ m <= y
  <2>1. s \in SUBSET Nat
    OBVIOUS
  <2>2. m \in s /\ \A y \in s : m <= y
    BY <2>1, MinIsMember
  <2> QED BY <2>1, <2>2
<1> HIDE DEF m
<1>2. IsFiniteSet(s) /\ \A u \in SUBSET s : IsFiniteSet(u)
  <2>1. IsFiniteSet(1..N)
    BY FS_Interval
  <2> QED BY <2>1, FS_Subset
<1>3. IsFiniteSet(r) /\ Cardinality(r) \in Nat /\ Cardinality(s) = Cardinality(r) + 1
  <2>1. s = r \cup {m} /\ m \notin r
    BY <1>1
  <2>2. IsFiniteSet(r)
    BY <1>2
  <2> QED BY <2>1, <2>2, FS_AddElement, FS_CardinalityType
<1>4. Rank(s, 0) = {m}
  <2>1. ASSUME NEW x \in s, Cardinality({y \in s : y < x}) = 0
        PROVE  x = m
    <3>1. {y \in s : y < x} = {}
      BY <1>2, <2>1, FS_EmptySet
    <3>2. ~(m < x)
      BY <1>1, <3>1
    <3> QED BY <1>1, <3>2
  <2>2. {y \in s : y < m} = {}
    <3>1. \A y \in s : ~(y < m)
      BY <1>1
    <3> QED BY <3>1
  <2>3. Cardinality({y \in s : y < m}) = 0
    BY <2>2, FS_EmptySet
  <2> QED BY <1>1, <2>1, <2>3 DEF Rank
<1>5. ASSUME NEW j \in Nat
      PROVE  Rank(s, j + 1) = Rank(r, j)
  <2>1. ASSUME NEW x \in r
        PROVE  Cardinality({y \in s : y < x}) = Cardinality({y \in r : y < x}) + 1
               /\ Cardinality({y \in r : y < x}) \in Nat
    <3>1. {y \in s : y < x} = {y \in r : y < x} \cup {m} /\ m \notin {y \in r : y < x}
      BY <1>1, <2>1
    <3>2. IsFiniteSet({y \in r : y < x})
      BY <1>2
    <3> QED BY <3>1, <3>2, FS_AddElement, FS_CardinalityType
  <2>2. m \notin Rank(s, j + 1)
    <3>1. m \in Rank(s, 0)
      BY <1>4
    <3> QED BY <3>1 DEF Rank
  <2>3. ASSUME NEW x \in r
        PROVE  Cardinality({y \in s : y < x}) = j + 1 <=> Cardinality({y \in r : y < x}) = j
    BY <2>1, <2>3
  <2>4. \A x \in Rank(s, j + 1) : x \in r /\ Cardinality({y \in s : y < x}) = j + 1
    BY <2>2 DEF Rank
  <2>5. \A x \in Rank(r, j) : x \in r /\ x \in s /\ Cardinality({y \in r : y < x}) = j
    BY DEF Rank
  <2>6. ASSUME NEW x \in Rank(s, j + 1) PROVE x \in Rank(r, j)
    BY <2>3, <2>4, <2>6 DEF Rank
  <2>7. ASSUME NEW x \in Rank(r, j) PROVE x \in Rank(s, j + 1)
    BY <2>3, <2>5, <2>7 DEF Rank
  <2> QED BY <2>6, <2>7
<1>6. Pick({m}) = m
  BY DEF Pick
<1>7. /\ Len(Sorted(s)) = Cardinality(r) + 1 /\ Len(Sorted(r)) = Cardinality(r)
      /\ Sorted(s)[1] = m
  <2> HIDE DEF r
  <2>1. DOMAIN Sorted(s) = 1..(Cardinality(r) + 1) /\ DOMAIN Sorted(r) = 1..Cardinality(r)
        /\ Sorted(s)[1] = Pick(Rank(s, 1 - 1))
    BY <1>3 DEF Sorted
  <2>2. Rank(s, 1 - 1) = {m}
    BY <1>4
  <2>3. Sorted(s)[1] = m
    BY <1>6, <2>1, <2>2
  <2> QED BY <1>3, <2>1, <2>3 DEF Sorted
<1>8. ASSUME NEW j \in 1..Cardinality(r)
      PROVE  Sorted(s)[j + 1] = Sorted(r)[j]
  <2>1. Sorted(s)[j + 1] = Pick(Rank(s, (j + 1) - 1)) /\ Sorted(r)[j] = Pick(Rank(r, j - 1))
    BY <1>3 DEF Sorted
  <2>2. (j + 1) - 1 = (j - 1) + 1 /\ j - 1 \in Nat
    BY <1>3
  <2>3. Rank(s, (j + 1) - 1) = Rank(r, j - 1)
    BY <2>2, <1>5
  <2> QED BY <2>1, <2>3
<1>9. ASSUME NEW j \in 2..(Cardinality(r) + 1)
      PROVE  Sorted(s)[j] = Sorted(r)[j - 1]
  <2>1. j - 1 \in 1..Cardinality(r) /\ (j - 1) + 1 = j
    BY <1>3
  <2> QED BY <1>8, <2>1
<1>10. PICK C \in Nat : C = Cardinality(r)
  BY <1>3
<1>11. Sorted(s) = [j \in 1..(C + 1) |-> IF j = 1 THEN m ELSE Sorted(r)[j - 1]]
  <2>1. Sorted(s) = [j \in 1..(C + 1) |-> Sorted(s)[j]]
    BY <1>3, <1>10 DEF Sorted
  <2>2. \A j \in 1..(C + 1) : Sorted(s)[j] = IF j = 1 THEN m ELSE Sorted(r)[j - 1]
    <3> SUFFICES ASSUME NEW j \in 1..(C + 1), j # 1 PROVE Sorted(s)[j] = Sorted(r)[j - 1]
      BY <1>7
    <3>1. j \in 2..(Cardinality(r) + 1)
      BY <1>10
    <3> QED BY <1>9, <3>1
  <2> HIDE DEF r
  <2> QED BY <2>1, <2>2
<1>12. <<m>> \o Sorted(r) = [j \in 1..(C + 1) |-> IF j = 1 THEN m ELSE Sorted(r)[j - 1]]
  <2> HIDE DEF r
  <2>1. Sorted(r) \in Seq({Sorted(r)[j] : j \in 1..C} \cup {m}) /\ Len(Sorted(r)) = C
    <3>1. Sorted(r) \in [1..C -> {Sorted(r)[j] : j \in 1..C} \cup {m}]
      BY <1>10 DEF Sorted
    <3> QED BY <1>7, <1>10, <3>1
  <2> QED BY <2>1
<1> QED BY <1>1, <1>11, <1>12 DEF m

(* The fold over | leaves the visitors in the order of the arguments.    *)
LEMMA VisitorsInOrder ==
  ASSUME NEW N \in Nat, N = Len(fan)
  PROVE  \A k \in 1..N : Visitors[k] = k
<1> DEFINE G == CHOOSE f : f = Fold(f)
           W == [s \in SUBSET (1..N) |-> Sorted(s)]
           Up(e) == [j \in 1..e |-> (N - e) + j]
<1>1. Args = 1..N /\ DOMAIN [t \in Args |-> t] = 1..N
  BY DEF Args
<1>2. Sorted({}) = <<>>
  BY FS_EmptySet DEF Sorted
<1>3. W = Fold(W)
  <2>1. ASSUME NEW s \in SUBSET (1..N)
        PROVE  Sorted(s) = IF s = {} THEN <<>> ELSE <<[t \in Args |-> t][Min(s)]>> \o W[s \ {Min(s)}]
    <3>1. CASE s = {}
      BY <1>2, <3>1
    <3>2. CASE s # {}
      <4>1. Min(s) \in 1..N /\ s \ {Min(s)} \in SUBSET (1..N)
            /\ Sorted(s) = <<Min(s)>> \o Sorted(s \ {Min(s)})
        BY <3>2, SortedStep
      <4> QED BY <1>1, <3>2, <4>1
    <3> QED BY <3>1, <3>2
  <2> QED BY <1>1, <2>1 DEF Fold
<1>4. G = Fold(G)
  BY <1>3
<1>5. Visitors = G[1..N]
  BY <1>1, Zenon DEF Visitors, FoldRight, MapThenFoldSet, Join, Fold
<1> HIDE DEF G
<1>6. ASSUME NEW s \in SUBSET (1..N)
      PROVE  G[s] = IF s = {} THEN <<>> ELSE <<[t \in Args |-> t][Min(s)]>> \o G[s \ {Min(s)}]
  BY <1>1, <1>4 DEF Fold
<1>7. ASSUME NEW e \in 1..N
      PROVE  G[(N - e + 1)..N] = <<N - e + 1>> \o G[(N - e + 2)..N]
  <2> DEFINE s == (N - e + 1)..N
  <2>1. s \in SUBSET (1..N) /\ s # {} /\ s \in SUBSET Nat
    OBVIOUS
  <2>2. Min(s) \in s /\ \A y \in s : Min(s) <= y
    BY <2>1, MinIsMember
  <2>3. Min(s) = N - e + 1 /\ Min(s) \in 1..N
    <3>1. N - e + 1 \in s
      OBVIOUS
    <3> QED BY <2>1, <2>2, <3>1
  <2>4. s \ {N - e + 1} = (N - e + 2)..N
    OBVIOUS
  <2>5. [t \in Args |-> t][Min(s)] = N - e + 1
    BY <1>1, <2>3
  <2> QED BY <1>6, <2>1, <2>3, <2>4, <2>5
<1>8. \A e \in 0..N : G[(N - e + 1)..N] = Up(e)
  <2> DEFINE Bad == {e \in 0..N : G[(N - e + 1)..N] # Up(e)}
  <2> SUFFICES ASSUME Bad # {} PROVE FALSE
    OBVIOUS
  <2>1. PICK e \in Bad : \A y \in Bad : e <= y
    <3>1. Bad \in SUBSET Nat
      OBVIOUS
    <3> HIDE DEF Bad
    <3> QED BY <3>1, MinIsMember
  <2>2. e # 0
    <3>1. (N - 0 + 1)..N = {} /\ Up(0) = <<>>
      OBVIOUS
    <3>2. G[{}] = <<>>
      BY <1>6
    <3> QED BY <3>1, <3>2
  <2>3. e - 1 \in 0..N /\ e - 1 \notin Bad /\ e \in 1..N
    <3>1. e \in 0..N
      BY <2>1
    <3>2. e - 1 \in 0..N /\ e \in 1..N /\ ~(e <= e - 1)
      BY <2>2, <3>1
    <3> HIDE DEF Bad
    <3> QED BY <2>1, <3>2
  <2>4. (N - (e - 1) + 1) = N - e + 2
    BY <2>3
  <2>5. G[(N - e + 2)..N] = Up(e - 1)
    BY <2>3, <2>4
  <2>6. <<N - e + 1>> \o Up(e - 1) = Up(e)
    <3>1. Up(e - 1) \in Seq(Int) /\ Len(Up(e - 1)) = e - 1
      BY <2>3
    <3> HIDE DEF Up
    <3>2. /\ Len(<<N - e + 1>> \o Up(e - 1)) = e
          /\ \A j \in 1..e : (<<N - e + 1>> \o Up(e - 1))[j] = IF j = 1 THEN N - e + 1 ELSE Up(e - 1)[j - 1]
          /\ <<N - e + 1>> \o Up(e - 1) \in Seq(Int)
      <4>1. PICK u \in Seq(Int) : u = Up(e - 1)
        BY <3>1
      <4>2. PICK x \in Int : x = N - e + 1
        BY <2>3
      <4>3. /\ Len(<<x>> \o u) = 1 + Len(u) /\ <<x>> \o u \in Seq(Int)
            /\ \A j \in 1..(1 + Len(u)) : (<<x>> \o u)[j] = IF j = 1 THEN x ELSE u[j - 1]
        OBVIOUS
      <4>4. 1 + Len(u) = e
        BY <2>3, <3>1, <4>1
      <4> QED BY <4>1, <4>2, <4>3, <4>4
    <3>3. ASSUME NEW j \in 1..e
          PROVE  (<<N - e + 1>> \o Up(e - 1))[j] = (N - e) + j
      <4>1. CASE j = 1
        BY <2>3, <3>2, <4>1
      <4>2. CASE j # 1
        <5>1. Up(e - 1)[j - 1] = (N - (e - 1)) + (j - 1)
          BY <2>3, <4>2 DEF Up
        <5> QED BY <2>3, <3>2, <4>2, <5>1
      <4> QED BY <4>1, <4>2
    <3>4. <<N - e + 1>> \o Up(e - 1) = [j \in 1..e |-> (<<N - e + 1>> \o Up(e - 1))[j]]
      BY <3>2
    <3> QED BY <3>3, <3>4 DEF Up
  <2> QED BY <1>7, <2>1, <2>3, <2>5, <2>6
<1>9. G[1..N] = Up(N)
  <2>1. N \in 0..N /\ N - N + 1 = 1
    OBVIOUS
  <2> HIDE DEF Up
  <2> QED BY <1>8, <2>1
<1> QED BY <1>5, <1>9

-----------------------------------------------------------------------------
(* Argument packs, and the calls of the transformer that may be active.  *)
Packs == Seq(Nat \X Nat)
FrameType == [n : Nat, t : Nat, args : Packs, alt : Nat, fresh : BOOLEAN, spent : BOOLEAN]

(* The types, that the stack is empty exactly outside of a visit, and that *)
(* nothing has been moved before it begins.                                *)
Shape ==
  /\ visitor \in {"visit_transform", "visit_transform2"} /\ yields \in Category
  /\ fan \in Seq(0..MaxFan) /\ Len(fan) >= 1 /\ category \in [Args -> Category]
  /\ stack \in Seq(FrameType) /\ Len(stack) <= Len(fan)
  /\ pc \in {"start", "visit", "done"} /\ (pc = "visit" <=> stack # <<>>)
  /\ moved \in SUBSET Args /\ (pc = "start" => moved = {})

(* The pack of the call at depth d: the results so far in visit_transform, *)
(* and in visit_transform2 the arguments left and then the results.        *)
Given(d) ==
  IF visitor = "visit_transform" THEN [k \in 1..(d - 1) |-> <<k, stack[k].alt>>]
  ELSE [k \in 1..(Len(fan) - 1) |->
          IF k <= Len(fan) - d THEN <<d + k, 0>>
          ELSE <<k - (Len(fan) - d), stack[k - (Len(fan) - d)].alt>>]

(* The call at depth d is about argument d, with the pack it should have; *)
(* all but the innermost have passed something on.                        *)
Frames ==
  \A d \in DOMAIN stack :
    /\ stack[d].n = Len(fan) - d + 1 /\ stack[d].t = d /\ stack[d].args = Given(d)
    /\ stack[d].alt <= fan[d] /\ (d < Len(stack) => stack[d].alt >= 1)

(* Since argument t came to its alternative, a continuation called after  *)
(* that has returned: of the innermost call, or the first of one between. *)
Later(t) ==
  /\ stack # <<>>
  /\ stack[Len(stack)].alt >= 1 \/ \E s \in (t + 1)..(Len(stack) - 1) : stack[s].alt > 1

(* What forward_as has moved from: the rvalues that are being visited, and *)
(* those visited earlier, which were reached if none before them is empty. *)
MovedSoFar ==
  pc # "done" =>
  \A t \in Args : t \in moved <=>
    /\ category[t] = "rvalue"
    /\ t <= Len(stack) \/ (Later(0) /\ \A s \in 1..(t - 1) : fan[s] >= 1)

(* The object at depth d was moved from before if an argument before it is *)
(* at a repetition, and what it yields has been given to the function if a *)
(* call was made since.                                                    *)
Objects ==
  \A d \in DOMAIN stack :
    /\ stack[d].fresh <=> (category[d] = "rvalue" => \A s \in 1..(d - 1) : stack[s].alt = 1)
    /\ stack[d].spent <=> /\ yields = "rvalue" /\ Later(d)
                          /\ \A s \in (d + 1)..Len(fan) : fan[s] >= 1

(* What the function is called with: for each argument a value.          *)
ValueType == [arg : Nat, alt : Nat, fresh : BOOLEAN]

(* All combinations of alternatives.                                     *)
Combos == {a \in [Args -> 1..MaxFan] : \A t \in Args : a[t] <= fan[t]}

(* The visit has passed combination a: it is lexicographically below the *)
(* alternatives on the stack or begins with them.                        *)
Behind(a) ==
  \/ pc = "done"
  \/ \E s \in DOMAIN stack :
       /\ \A r \in 1..(s - 1) : a[r] = stack[r].alt
       /\ a[s] < stack[s].alt \/ (s = Len(stack) /\ a[s] = stack[s].alt)

(* The calls are those of the combinations behind, in lexicographic order. *)
CallsSoFar ==
  /\ calls \in Seq(Seq(ValueType))
  /\ \A m \in DOMAIN calls : /\ DOMAIN calls[m] = Args
                             /\ \A t \in Args : calls[m][t].arg = t
  /\ \A m, n \in DOMAIN calls : m < n => Before(Alts(calls[m]), Alts(calls[n]))
  /\ \A a \in Combos : Behind(a) <=> \E m \in DOMAIN calls : Alts(calls[m]) = a
  /\ \A m \in DOMAIN calls : Alts(calls[m]) \in Combos

(* The inductive invariant of the visit.                                 *)
VisitInv == Shape /\ Frames /\ MovedSoFar /\ Objects /\ CallsSoFar /\ NothingStaleButRepeats

(* The alternatives on the stack once the innermost call passes on its next. *)
NewAlt(k) == IF k = Len(stack) THEN stack[k].alt + 1 ELSE stack[k].alt

(* The sizes and types that Shape gives.                                 *)
LEMMA Sizes ==
  ASSUME Shape
  PROVE  /\ Len(fan) \in Nat /\ Len(fan) >= 1 /\ Args = 1..Len(fan) /\ DOMAIN fan = Args
         /\ \A t \in Args : fan[t] \in Nat /\ fan[t] <= MaxFan
         /\ Len(stack) \in Nat /\ DOMAIN stack = 1..Len(stack) /\ Len(stack) <= Len(fan)
         /\ \A k \in 1..Len(stack) : stack[k] \in FrameType
         /\ pc = "visit" <=> Len(stack) > 0
<1>1. /\ Len(fan) \in Nat /\ Len(fan) >= 1 /\ Args = 1..Len(fan) /\ DOMAIN fan = Args
      /\ \A t \in Args : fan[t] \in Nat /\ fan[t] <= MaxFan
  <2>1. fan \in Seq(0..MaxFan) /\ Len(fan) >= 1
    BY DEF Shape
  <2>2. /\ Len(fan) \in Nat /\ Args = 1..Len(fan) /\ DOMAIN fan = Args
        /\ \A t \in 1..Len(fan) : fan[t] \in 0..MaxFan
    BY <2>1, VisitTransformAssumption DEF Args
  <2> QED BY <2>1, <2>2
<1>2. /\ Len(stack) \in Nat /\ DOMAIN stack = 1..Len(stack) /\ Len(stack) <= Len(fan)
      /\ \A k \in 1..Len(stack) : stack[k] \in FrameType
  BY DEF Shape
<1>3. pc = "visit" <=> Len(stack) > 0
  BY DEF Shape
<1> QED BY <1>1, <1>2, <1>3

(* A frame that passes on its next alternative is still a frame.         *)
LEMMA PassOn ==
  ASSUME NEW f \in FrameType
  PROVE  [f EXCEPT !.alt = f.alt + 1, !.spent = FALSE] \in FrameType
<1>1. [f EXCEPT !.alt = f.alt + 1] \in FrameType
  BY DEF FrameType
<1>2. \A g \in FrameType : [g EXCEPT !.spent = FALSE] \in FrameType
  BY DEF FrameType
<1> QED BY <1>1, <1>2

(* The stack once the innermost call has passed on its next alternative. *)
LEMMA PassedFacts ==
  ASSUME Shape, Frames, More, NEW d \in Nat, d = Len(stack), NEW N \in Nat, N = Len(fan)
  PROVE  /\ d >= 1 /\ d <= N /\ pc = "visit"
         /\ top = stack[d] /\ top.t = d /\ top.n = N - d + 1 /\ top.alt \in Nat /\ top.alt < fan[d]
         /\ Passed \in Seq(FrameType) /\ Len(Passed) = d
         /\ \A k \in 1..(d - 1) : Passed[k] = stack[k]
         /\ Passed[d] = [stack[d] EXCEPT !.alt = stack[d].alt + 1, !.spent = FALSE]
<1>1. d >= 1 /\ d <= N /\ d \in DOMAIN stack /\ pc = "visit" /\ stack[d] \in FrameType
  BY Sizes DEF More, Shape
<1>2. top = stack[d]
  BY DEF top, Last
<1>3. top.t = d /\ top.n = N - d + 1 /\ top.alt \in Nat /\ top.alt < fan[d]
  BY <1>1, <1>2 DEF Frames, More, FrameType
<1>4. [stack[d] EXCEPT !.alt = stack[d].alt + 1, !.spent = FALSE] \in FrameType
  BY <1>1, PassOn
<1>5. PICK f \in FrameType : f = [stack[d] EXCEPT !.alt = stack[d].alt + 1, !.spent = FALSE]
  BY <1>4
<1>6. Passed = Append(Front(stack), f)
  BY <1>2, <1>5 DEF Passed
<1>7. /\ Front(stack) \in Seq(FrameType) /\ Len(Front(stack)) = d - 1
      /\ \A k \in 1..(d - 1) : Front(stack)[k] = stack[k]
  <2>1. stack \in Seq(FrameType)
    BY DEF Shape
  <2> QED BY <1>1, <2>1 DEF Front
<1>8. /\ Passed \in Seq(FrameType) /\ Len(Passed) = d /\ Passed[d] = f
      /\ \A k \in 1..(d - 1) : Passed[k] = stack[k]
  BY <1>1, <1>6, <1>7
<1> QED BY <1>1, <1>2, <1>3, <1>5, <1>8

(* The same, field by field.                                             *)
LEMMA PassedFields ==
  ASSUME Shape, Frames, More, NEW d \in Nat, d = Len(stack), NEW N \in Nat, N = Len(fan)
  PROVE  /\ \A k \in 1..d : /\ Passed[k].n = stack[k].n /\ Passed[k].t = k
                            /\ Passed[k].args = stack[k].args /\ (Passed[k].fresh <=> stack[k].fresh)
                            /\ Passed[k].alt = NewAlt(k) /\ NewAlt(k) \in Nat
                            /\ NewAlt(k) >= 1 /\ NewAlt(k) <= fan[k]
         /\ \A k \in 1..(d - 1) : (Passed[k].spent <=> stack[k].spent)
         /\ ~Passed[d].spent
<1>1. /\ d >= 1 /\ d <= N /\ stack[d].t = d /\ stack[d].alt < fan[d]
      /\ \A k \in 1..(d - 1) : Passed[k] = stack[k]
      /\ Passed[d] = [stack[d] EXCEPT !.alt = stack[d].alt + 1, !.spent = FALSE]
  BY PassedFacts
<1>2. \A k \in 1..d : stack[k] \in FrameType /\ fan[k] \in Nat
  BY <1>1, Sizes
<1>3. \A k \in 1..d : stack[k].t = k /\ stack[k].alt <= fan[k] /\ (k < d => stack[k].alt >= 1)
  BY Sizes DEF Frames
<1>4. ASSUME NEW k \in 1..(d - 1)
      PROVE  /\ Passed[k].n = stack[k].n /\ Passed[k].t = k
             /\ Passed[k].args = stack[k].args /\ (Passed[k].fresh <=> stack[k].fresh)
             /\ (Passed[k].spent <=> stack[k].spent)
             /\ Passed[k].alt = NewAlt(k) /\ NewAlt(k) \in Nat
             /\ NewAlt(k) >= 1 /\ NewAlt(k) <= fan[k]
  <2>1. k \in 1..d /\ k < d /\ k # Len(stack)
    BY <1>1
  <2>2. stack[k].alt \in Nat
    BY <1>2, <2>1 DEF FrameType
  <2> QED BY <1>1, <1>3, <2>1, <2>2 DEF NewAlt
<1>5. /\ Passed[d].n = stack[d].n /\ Passed[d].t = d
      /\ Passed[d].args = stack[d].args /\ (Passed[d].fresh <=> stack[d].fresh)
      /\ ~Passed[d].spent
      /\ Passed[d].alt = NewAlt(d) /\ NewAlt(d) \in Nat
      /\ NewAlt(d) >= 1 /\ NewAlt(d) <= fan[d]
  <2>1. stack[d] \in FrameType /\ fan[d] \in Nat /\ stack[d].alt \in Nat
    BY <1>1, <1>2 DEF FrameType
  <2>2. NewAlt(d) = stack[d].alt + 1
    BY DEF NewAlt
  <2>3. /\ Passed[d].n = stack[d].n /\ Passed[d].t = stack[d].t
        /\ Passed[d].args = stack[d].args /\ (Passed[d].fresh <=> stack[d].fresh)
        /\ ~Passed[d].spent /\ Passed[d].alt = stack[d].alt + 1
    BY <1>1, <2>1 DEF FrameType
  <2> QED BY <1>1, <2>1, <2>2, <2>3
<1>6. \A k \in 1..d : k = d \/ k \in 1..(d - 1)
  BY <1>1
<1> QED BY <1>4, <1>5, <1>6

-----------------------------------------------------------------------------
(* A pack is a function of its places.                                   *)
LEMMA PackIsFunction ==
  ASSUME NEW y \in Packs
  PROVE  y = [k \in 1..Len(y) |-> y[k]]
<1>1. PICK S : S = Nat \X Nat /\ y \in Seq(S)
  BY DEF Packs
<1>2. y \in [1..Len(y) -> S]
  BY <1>1
<1> QED BY <1>2

(* z is q with e behind it.                                              *)
IsAppended(z, q, e, m) == z = [k \in 1..(m + 1) |-> IF k = m + 1 THEN e ELSE q[k]]

LEMMA AppendIs ==
  ASSUME NEW q \in Packs, NEW e \in Nat \X Nat, NEW m \in Nat, m = Len(q), NEW z, z = Append(q, e)
  PROVE  z \in Packs /\ IsAppended(z, q, e, m)
<1>1. /\ z \in Packs /\ Len(z) = m + 1
      /\ \A k \in 1..(m + 1) : z[k] = IF k = m + 1 THEN e ELSE q[k]
  BY DEF Packs
<1>2. z = [k \in 1..(m + 1) |-> z[k]]
  <2>1. z = [k \in 1..Len(z) |-> z[k]]
    BY <1>1, PackIsFunction
  <2> QED BY <1>1, <2>1
<1> QED BY <1>1, <1>2 DEF IsAppended

(* The pack that a continuation gets, in either visitor.                 *)
LEMMA PackIs ==
  ASSUME Shape, Frames, More, NEW d \in Nat, d = Len(stack), NEW N \in Nat, N = Len(fan)
  PROVE  /\ Pack \in Packs
         /\ visitor = "visit_transform" => Pack = [k \in 1..d |-> <<k, NewAlt(k)>>]
         /\ visitor # "visit_transform" =>
              Pack = [k \in 1..N |-> IF k <= N - d THEN <<d + k, 0>>
                                     ELSE <<k - (N - d), NewAlt(k - (N - d))>>]
<1>1. d >= 1 /\ d <= N /\ top = stack[d] /\ top.t = d /\ top.alt \in Nat /\ top \in FrameType
  <2>1. d >= 1 /\ d <= N /\ top = stack[d] /\ top.t = d /\ top.alt \in Nat
    BY PassedFacts
  <2>2. d \in 1..Len(stack)
    BY <2>1
  <2> QED BY <2>1, <2>2, Sizes
<1>2. top.args = Given(d) /\ top.args \in Packs
  BY <1>1, Sizes DEF Frames, FrameType
<1>3. PICK e \in Nat \X Nat : e = <<d, top.alt + 1>>
  <2>1. top.alt + 1 \in Nat
    BY <1>1
  <2>2. <<d, top.alt + 1>> \in Nat \X Nat
    BY <2>1
  <2> QED BY <2>2
<1>4. Pack = Append(Given(d), e) /\ Given(d) \in Packs
  BY <1>1, <1>2, <1>3 DEF Pack
<1>5. NewAlt(d) = top.alt + 1 /\ \A k \in 1..(d - 1) : NewAlt(k) = stack[k].alt
  BY <1>1 DEF NewAlt
<1>6. Pack \in Packs
  <2>1. PICK m \in Nat : m = Len(Given(d))
    BY <1>4 DEF Packs
  <2> QED BY <1>3, <1>4, <2>1, AppendIs
<1>7. CASE visitor = "visit_transform"
  <2>1. Given(d) = [k \in 1..(d - 1) |-> <<k, stack[k].alt>>]
    BY <1>7 DEF Given
  <2>2. Len(Given(d)) = d - 1 /\ d - 1 \in Nat /\ (d - 1) + 1 = d
    BY <1>1, <2>1
  <2>3. Pack = [k \in 1..d |-> IF k = d THEN e ELSE Given(d)[k]]
    <3>1. PICK m \in Nat : m = Len(Given(d)) /\ m + 1 = d
      BY <2>2
    <3>2. IsAppended(Pack, Given(d), e, m)
      BY <1>4, <3>1, AppendIs
    <3> QED BY <3>1, <3>2 DEF IsAppended
  <2>4. ASSUME NEW k \in 1..d
        PROVE  (IF k = d THEN e ELSE Given(d)[k]) = <<k, NewAlt(k)>>
    <3>1. CASE k = d
      BY <1>3, <1>5, <3>1
    <3>2. CASE k # d
      <4>1. k \in 1..(d - 1)
        BY <1>1, <3>2
      <4> QED BY <1>5, <2>1, <3>2, <4>1
    <3> QED BY <3>1, <3>2
  <2> QED BY <1>6, <1>7, <2>3, <2>4
<1>8. CASE visitor # "visit_transform"
  <2>1. Given(d) = [k \in 1..(N - 1) |-> IF k <= N - d THEN <<d + k, 0>>
                                         ELSE <<k - (N - d), stack[k - (N - d)].alt>>]
    BY <1>8 DEF Given
  <2>2. Len(Given(d)) = N - 1 /\ N - 1 \in Nat /\ (N - 1) + 1 = N
    BY <1>1, <2>1
  <2>3. Pack = [k \in 1..N |-> IF k = N THEN e ELSE Given(d)[k]]
    <3>1. PICK m \in Nat : m = Len(Given(d)) /\ m + 1 = N
      BY <2>2
    <3>2. IsAppended(Pack, Given(d), e, m)
      BY <1>4, <3>1, AppendIs
    <3> QED BY <3>1, <3>2 DEF IsAppended
  <2>4. ASSUME NEW k \in 1..N
        PROVE  (IF k = N THEN e ELSE Given(d)[k]) =
                 IF k <= N - d THEN <<d + k, 0>> ELSE <<k - (N - d), NewAlt(k - (N - d))>>
    <3>1. CASE k = N
      <4>1. ~(k <= N - d) /\ k - (N - d) = d
        BY <1>1, <3>1
      <4> QED BY <1>3, <1>5, <3>1, <4>1
    <3>2. CASE k # N /\ k <= N - d
      <4>1. k \in 1..(N - 1)
        BY <1>1, <3>2
      <4> QED BY <2>1, <3>2, <4>1
    <3>3. CASE k # N /\ ~(k <= N - d)
      <4>1. k \in 1..(N - 1) /\ k - (N - d) \in 1..(d - 1)
        BY <1>1, <3>3
      <4> QED BY <1>5, <2>1, <3>3, <4>1
    <3> QED BY <3>1, <3>2, <3>3
  <2>5. Pack = [k \in 1..N |-> IF k <= N - d THEN <<d + k, 0>>
                               ELSE <<k - (N - d), NewAlt(k - (N - d))>>]
    BY <2>3, <2>4, ZenonT(60)
  <2> QED BY <1>6, <1>8, <2>5
<1> QED BY <1>7, <1>8

(* z is the pack q without its head.                                     *)
IsTail(z, q, m) == z = [k \in 1..m |-> q[k + 1]]

LEMMA TailIs ==
  ASSUME NEW q \in Packs, NEW m \in Nat, Len(q) = m + 1, NEW z, z = Tail(q)
  PROVE  z \in Packs /\ IsTail(z, q, m)
<1>1. z \in Packs /\ Len(z) = m /\ \A k \in 1..m : z[k] = q[k + 1]
  BY DEF Packs
<1>2. z = [k \in 1..m |-> z[k]]
  <2>1. z = [k \in 1..Len(z) |-> z[k]]
    BY <1>1, PackIsFunction
  <2> QED BY <1>1, <2>1
<1> QED BY <1>1, <1>2 DEF IsTail

(* A new frame.                                                          *)
LEMMA FrameIs ==
  ASSUME NEW n \in Nat, NEW t \in Nat, NEW a \in Packs
  PROVE  /\ Frame(n, t, a) \in FrameType
         /\ Frame(n, t, a).n = n /\ Frame(n, t, a).t = t /\ Frame(n, t, a).args = a
         /\ Frame(n, t, a).alt = 0 /\ ~Frame(n, t, a).spent
         /\ Frame(n, t, a).fresh <=> t \notin moved
<1>1. PICK b \in BOOLEAN : b = (t \notin moved)
  OBVIOUS
<1>2. Frame(n, t, a) = [n |-> n, t |-> t, args |-> a, alt |-> 0, fresh |-> b, spent |-> FALSE]
  BY <1>1 DEF Frame
<1>3. /\ Frame(n, t, a).n = n /\ Frame(n, t, a).t = t /\ Frame(n, t, a).args = a
      /\ Frame(n, t, a).alt = 0 /\ ~Frame(n, t, a).spent
      /\ Frame(n, t, a).fresh = b
  BY <1>2
<1>4. Frame(n, t, a) \in FrameType
  BY <1>2 DEF FrameType
<1> QED BY <1>1, <1>3, <1>4

(* The pack of either visitor with alternatives A of the first d of N     *)
(* arguments: as the continuation gets it, and without the next argument. *)
InTurn(A, d) == [k \in 1..d |-> <<k, A[k]>>]
Turned(A, d, N) ==
  [k \in 1..N |-> IF k <= N - d THEN <<d + k, 0>> ELSE <<k - (N - d), A[k - (N - d)]>>]
Rest(A, d, N) ==
  [k \in 1..(N - 1) |-> IF k <= N - (d + 1) THEN <<d + 1 + k, 0>>
                        ELSE <<k - (N - (d + 1)), A[k - (N - (d + 1))]>>]

(* The call of the transformer on argument d + 1, when alternatives A of *)
(* the arguments up to d have been passed on.                            *)
LEMMA VisitIs ==
  ASSUME Shape, NEW N \in Nat, N = Len(fan), NEW d \in Nat, d < N, NEW A, NEW p \in Packs,
         visitor = "visit_transform" => p = InTurn(A, d),
         visitor # "visit_transform" => p = Turned(A, d, N),
         NEW f, f = Visit(N - d, p)
  PROVE  /\ f \in FrameType
         /\ f.n = N - d /\ f.t = d + 1 /\ f.alt = 0 /\ ~f.spent /\ (f.fresh <=> d + 1 \notin moved)
         /\ visitor = "visit_transform" => f.args = InTurn(A, d)
         /\ visitor # "visit_transform" => f.args = Rest(A, d, N)
<1>1. CASE visitor = "visit_transform"
  <2>1. Visitors[N - (N - d) + 1] = d + 1
    <3>1. N - (N - d) + 1 = d + 1 /\ d + 1 \in 1..N
      OBVIOUS
    <3> QED BY <3>1, VisitorsInOrder
  <2>2. f = Frame(N - d, d + 1, p) /\ N - d \in Nat /\ d + 1 \in Nat
    BY <1>1, <2>1 DEF Visit, Nested
  <2>3. /\ f \in FrameType /\ f.n = N - d /\ f.t = d + 1 /\ f.args = p /\ f.alt = 0
        /\ ~f.spent /\ (f.fresh <=> d + 1 \notin moved)
    <3>1. PICK n \in Nat, u \in Nat : n = N - d /\ u = d + 1
      BY <2>2
    <3>2. f = Frame(n, u, p)
      BY <2>2, <3>1
    <3>3. /\ f \in FrameType /\ f.n = n /\ f.t = u /\ f.args = p /\ f.alt = 0
          /\ ~f.spent /\ (f.fresh <=> u \notin moved)
      BY <3>2, FrameIs
    <3> QED BY <3>1, <3>3
  <2> QED BY <1>1, <2>3
<1>2. CASE visitor # "visit_transform"
  <2>1. p \in Seq(Nat \X Nat)
    BY DEF Packs
  <2>2. PICK m \in Nat : m + 1 = N
    <3>1. N - 1 \in Nat /\ (N - 1) + 1 = N
      OBVIOUS
    <3> QED BY <3>1
  <2>3. Len(p) = m + 1 /\ p[1] = <<d + 1, 0>>
    <3>1. 1 \in 1..N /\ 1 <= N - d
      OBVIOUS
    <3>2. Len(p) = N
      BY <1>2 DEF Turned
    <3> QED BY <1>2, <2>2, <3>1, <3>2 DEF Turned
  <2>4. Head(p) = <<d + 1, 0>> /\ Tail(p) \in Packs /\ Tail(p) = [k \in 1..m |-> p[k + 1]]
    <3>1. Head(p) = p[1]
      BY <2>1, <2>3
    <3>2. Tail(p) \in Packs /\ IsTail(Tail(p), p, m)
      BY <2>3, TailIs
    <3> QED BY <2>3, <3>1, <3>2 DEF IsTail
  <2>5. ASSUME NEW k \in 1..m
        PROVE  p[k + 1] = IF k <= N - (d + 1) THEN <<d + 1 + k, 0>>
                          ELSE <<k - (N - (d + 1)), A[k - (N - (d + 1))]>>
    <3>1. /\ k + 1 \in 1..N /\ (k + 1 <= N - d <=> k <= N - (d + 1))
          /\ d + (k + 1) = d + 1 + k /\ (k + 1) - (N - d) = k - (N - (d + 1))
      BY <2>2
    <3> QED BY <1>2, <3>1 DEF Turned
  <2>6. Tail(p) = Rest(A, d, N)
    <3>1. m = N - 1
      BY <2>2
    <3> QED BY <2>4, <2>5, <3>1 DEF Rest
  <2>7. f = Frame(N - d, Head(p)[1], Tail(p))
    BY <1>2 DEF Visit, Rotated
  <2>8. Head(p)[1] = d + 1 /\ N - d \in Nat /\ d + 1 \in Nat
    BY <2>4
  <2>9. /\ f \in FrameType /\ f.n = N - d /\ f.t = d + 1 /\ f.args = Rest(A, d, N) /\ f.alt = 0
        /\ ~f.spent /\ (f.fresh <=> d + 1 \notin moved)
    <3>1. PICK n \in Nat, u \in Nat : n = N - d /\ u = d + 1
      BY <2>8
    <3>2. PICK r \in Packs : r = Tail(p)
      BY <2>4
    <3>3. f = Frame(n, u, r)
      BY <2>7, <2>8, <3>1, <3>2
    <3>4. /\ f \in FrameType /\ f.n = n /\ f.t = u /\ f.args = r /\ f.alt = 0
          /\ ~f.spent /\ (f.fresh <=> u \notin moved)
      BY <3>3, FrameIs
    <3> QED BY <2>6, <3>1, <3>2, <3>4
  <2> QED BY <1>2, <2>9
<1> QED BY <1>1, <1>2

(* What Continue does to the stack.                                      *)
LEMMA ContinueEffect ==
  ASSUME Shape, Frames, Continue, NEW d \in Nat, d = Len(stack), NEW N \in Nat, N = Len(fan)
  PROVE  /\ More /\ d >= 1 /\ d < N /\ pc = "visit" /\ pc' = pc /\ input' = input /\ calls' = calls
         /\ stack' \in Seq(FrameType) /\ Len(stack') = d + 1
         /\ \A k \in 1..d : stack'[k] = Passed[k]
         /\ stack'[d + 1].n = N - (d + 1) + 1 /\ stack'[d + 1].t = d + 1
         /\ stack'[d + 1].args = Given(d + 1)'
         /\ stack'[d + 1].alt = 0 /\ ~stack'[d + 1].spent
         /\ stack'[d + 1].fresh <=> d + 1 \notin moved
         /\ moved' = moved \cup (IF category[d + 1] = "rvalue" THEN {d + 1} ELSE {})
<1>1. /\ More /\ d >= 1 /\ d <= N /\ pc = "visit" /\ top.n = N - d + 1 /\ top.n > 1
      /\ Passed \in Seq(FrameType) /\ Len(Passed) = d
  BY PassedFacts DEF Continue
<1>2. d < N /\ top.n - 1 = N - d
  BY <1>1
<1>3. PICK f : f = Visit(N - d, Pack)
  OBVIOUS
<1>4. /\ stack' = Append(Passed, f) /\ moved' = moved \cup forward_as(f.t)
      /\ pc' = pc /\ input' = input /\ calls' = calls
  BY <1>2, <1>3 DEF Continue, Push
<1> DEFINE A == [k \in 1..d |-> NewAlt(k)]
<1>5. /\ Pack \in Packs
      /\ visitor = "visit_transform" => Pack = InTurn(A, d)
      /\ visitor # "visit_transform" => Pack = Turned(A, d, N)
  <2>1. \A k \in 1..N : ~(k <= N - d) => k - (N - d) \in 1..d
    BY <1>1
  <2>2. \A k \in 1..d : A[k] = NewAlt(k)
    OBVIOUS
  <2> HIDE DEF A
  <2>3. /\ Pack \in Packs
        /\ visitor = "visit_transform" => Pack = [k \in 1..d |-> <<k, NewAlt(k)>>]
        /\ visitor # "visit_transform" =>
             Pack = [k \in 1..N |-> IF k <= N - d THEN <<d + k, 0>>
                                    ELSE <<k - (N - d), NewAlt(k - (N - d))>>]
    BY <1>1, PackIs
  <2>4. [k \in 1..d |-> <<k, NewAlt(k)>>] = [k \in 1..d |-> <<k, A[k]>>]
    BY <2>2
  <2>5. [k \in 1..N |-> IF k <= N - d THEN <<d + k, 0>> ELSE <<k - (N - d), NewAlt(k - (N - d))>>] =
        [k \in 1..N |-> IF k <= N - d THEN <<d + k, 0>> ELSE <<k - (N - d), A[k - (N - d)]>>]
    BY <2>1, <2>2
  <2> QED BY <2>3, <2>4, <2>5 DEF InTurn, Turned
<1> HIDE DEF A
<1>6. /\ f \in FrameType /\ f.n = N - d /\ f.t = d + 1 /\ f.alt = 0 /\ ~f.spent
      /\ (f.fresh <=> d + 1 \notin moved)
      /\ visitor = "visit_transform" => f.args = InTurn(A, d)
      /\ visitor # "visit_transform" => f.args = Rest(A, d, N)
  BY <1>2, <1>3, <1>5, VisitIs
<1>7. /\ stack' \in Seq(FrameType) /\ Len(stack') = d + 1 /\ stack'[d + 1] = f
      /\ \A k \in 1..d : stack'[k] = Passed[k]
  BY <1>1, <1>4, <1>6
<1>8. \A k \in 1..d : A[k] = stack'[k].alt
  BY <1>1, <1>7, PassedFields DEF A
<1>9. f.args = Given(d + 1)'
  <2>1. visitor' = visitor /\ fan' = fan
    BY <1>4 DEF input
  <2>2. CASE visitor = "visit_transform"
    <3>1. Given(d + 1)' = [k \in 1..((d + 1) - 1) |-> <<k, stack'[k].alt>>]
      BY <2>1, <2>2 DEF Given
    <3>2. (d + 1) - 1 = d
      OBVIOUS
    <3>3. [k \in 1..d |-> <<k, A[k]>>] = [k \in 1..d |-> <<k, stack'[k].alt>>]
      BY <1>8
    <3> QED BY <1>6, <2>2, <3>1, <3>2, <3>3 DEF InTurn
  <2>3. CASE visitor # "visit_transform"
    <3>1. Given(d + 1)' = [k \in 1..(N - 1) |-> IF k <= N - (d + 1) THEN <<(d + 1) + k, 0>>
                             ELSE <<k - (N - (d + 1)), stack'[k - (N - (d + 1))].alt>>]
      BY <2>1, <2>3 DEF Given
    <3>2. \A k \in 1..(N - 1) : ~(k <= N - (d + 1)) => k - (N - (d + 1)) \in 1..d
      BY <1>2
    <3>3. \A k \in 1..(N - 1) : d + 1 + k = (d + 1) + k
      OBVIOUS
    <3>4. [k \in 1..(N - 1) |-> IF k <= N - (d + 1) THEN <<d + 1 + k, 0>>
                                ELSE <<k - (N - (d + 1)), A[k - (N - (d + 1))]>>] =
          [k \in 1..(N - 1) |-> IF k <= N - (d + 1) THEN <<(d + 1) + k, 0>>
                                ELSE <<k - (N - (d + 1)), stack'[k - (N - (d + 1))].alt>>]
      BY <1>8, <3>2, <3>3
    <3> QED BY <1>6, <2>3, <3>1, <3>4 DEF Rest
  <2> QED BY <2>2, <2>3
<1>10. N - d = N - (d + 1) + 1
  OBVIOUS
<1> QED BY <1>1, <1>2, <1>4, <1>6, <1>7, <1>9, <1>10 DEF forward_as

(* What Start does.                                                      *)
LEMMA StartEffect ==
  ASSUME Shape, Start, NEW N \in Nat, N = Len(fan)
  PROVE  /\ N >= 1 /\ Len(stack) = 0 /\ pc = "start" /\ pc' = "visit"
         /\ input' = input /\ calls' = calls
         /\ stack' \in Seq(FrameType) /\ Len(stack') = 1
         /\ stack'[1].n = N /\ stack'[1].t = 1 /\ stack'[1].args = Given(1)'
         /\ stack'[1].alt = 0 /\ ~stack'[1].spent /\ stack'[1].fresh
         /\ moved = {} /\ moved' = IF category[1] = "rvalue" THEN {1} ELSE {}
<1>1. N >= 1 /\ Args = 1..N
  BY Sizes
<1>2. pc = "start" /\ stack = <<>> /\ moved = {} /\ Len(stack) = 0
  BY DEF Shape, Start
<1> DEFINE A == <<>>
           p == IF visitor = "visit_transform" THEN <<>> ELSE [t \in Args |-> <<t, 0>>]
<1>3. visitor = "visit_transform" => p = InTurn(A, 0)
  BY DEF InTurn
<1>4. visitor # "visit_transform" => p = Turned(A, 0, N)
  <2> SUFFICES ASSUME visitor # "visit_transform" PROVE p = Turned(A, 0, N)
    OBVIOUS
  <2>1. \A k \in 1..N : k <= N - 0 /\ 0 + k = k
    OBVIOUS
  <2> QED BY <1>1, <2>1 DEF Turned
<1>5. p \in Packs
  <2>1. CASE visitor = "visit_transform"
    BY <2>1 DEF Packs
  <2>2. CASE visitor # "visit_transform"
    <3>1. [t \in Args |-> <<t, 0>>] \in [1..N -> Nat \X Nat]
      BY <1>1
    <3>2. [t \in Args |-> <<t, 0>>] \in Seq(Nat \X Nat)
      BY <3>1
    <3> QED BY <2>2, <3>2 DEF Packs
  <2> QED BY <2>1, <2>2
<1>6. PICK f : f = Visit(N - 0, p)
  OBVIOUS
<1>7. /\ stack' = Append(<<>>, f) /\ moved' = moved \cup forward_as(f.t)
      /\ pc' = "visit" /\ input' = input /\ calls' = calls
  <2>1. N - 0 = N
    OBVIOUS
  <2> QED BY <1>6, <2>1 DEF Start, Push
<1> HIDE DEF p, A
<1>8. /\ f \in FrameType /\ f.n = N - 0 /\ f.t = 0 + 1 /\ f.alt = 0 /\ ~f.spent
      /\ (f.fresh <=> 0 + 1 \notin moved)
      /\ visitor = "visit_transform" => f.args = InTurn(A, 0)
      /\ visitor # "visit_transform" => f.args = Rest(A, 0, N)
  <2>1. 0 \in Nat /\ 0 < N
    BY <1>1
  <2> QED BY <1>3, <1>4, <1>5, <1>6, <2>1, VisitIs
<1>9. stack' \in Seq(FrameType) /\ Len(stack') = 1 /\ stack'[1] = f
  BY <1>7, <1>8
<1>10. f.args = Given(1)'
  <2>1. visitor' = visitor /\ fan' = fan
    BY <1>7 DEF input
  <2>2. CASE visitor = "visit_transform"
    <3>1. Given(1)' = [k \in 1..(1 - 1) |-> <<k, stack'[k].alt>>]
      BY <2>1, <2>2 DEF Given
    <3> QED BY <1>8, <2>2, <3>1 DEF InTurn
  <2>3. CASE visitor # "visit_transform"
    <3>1. Given(1)' = [k \in 1..(N - 1) |-> IF k <= N - 1 THEN <<1 + k, 0>>
                         ELSE <<k - (N - 1), stack'[k - (N - 1)].alt>>]
      BY <2>1, <2>3 DEF Given
    <3>2. \A k \in 1..(N - 1) : k <= N - 1 /\ k <= N - (0 + 1) /\ 0 + 1 + k = 1 + k
      OBVIOUS
    <3>3. Given(1)' = [k \in 1..(N - 1) |-> <<1 + k, 0>>]
      BY <3>1, <3>2
    <3>4. Rest(A, 0, N) = [k \in 1..(N - 1) |-> <<1 + k, 0>>]
      BY <3>2 DEF Rest
    <3> QED BY <1>8, <2>3, <3>3, <3>4
  <2> QED BY <2>2, <2>3
<1>11. f.n = N /\ f.t = 1 /\ f.fresh
  BY <1>2, <1>8
<1> QED BY <1>1, <1>2, <1>7, <1>8, <1>9, <1>10, <1>11 DEF forward_as

(* What Return does.                                                     *)
LEMMA ReturnEffect ==
  ASSUME Shape, Frames, Return, NEW d \in Nat, d = Len(stack), NEW N \in Nat, N = Len(fan)
  PROVE  /\ d >= 1 /\ d <= N /\ pc = "visit" /\ stack[d].alt = fan[d]
         /\ pc' = (IF d = 1 THEN "done" ELSE "visit")
         /\ input' = input /\ calls' = calls /\ moved' = moved
         /\ stack' \in Seq(FrameType) /\ Len(stack') = d - 1
         /\ \A k \in 1..(d - 1) : stack'[k] = stack[k]
<1>1. pc = "visit" /\ ~More /\ d >= 1 /\ d <= N /\ stack # <<>> /\ stack \in Seq(FrameType)
  BY Sizes DEF Return, Shape
<1>2. stack[d].t = d /\ stack[d].alt <= fan[d] /\ stack[d].alt \in Nat /\ fan[d] \in Nat
  <2>1. d \in DOMAIN stack /\ d \in Args /\ stack[d] \in FrameType
    BY <1>1, Sizes
  <2> QED BY <2>1, Sizes DEF Frames, FrameType
<1>3. stack[d].alt = fan[d]
  <2>1. ~(stack[d].alt < fan[d])
    BY <1>1, <1>2 DEF More, top, Last
  <2> QED BY <1>2, <2>1
<1>4. /\ stack' = Front(stack) /\ pc' = (IF d = 1 THEN "done" ELSE "visit")
      /\ input' = input /\ calls' = calls /\ moved' = moved
  BY <1>1 DEF Return
<1>5. /\ Front(stack) \in Seq(FrameType) /\ Len(Front(stack)) = d - 1
      /\ \A k \in 1..(d - 1) : Front(stack)[k] = stack[k]
  BY <1>1 DEF Front
<1> QED BY <1>1, <1>3, <1>4, <1>5

(* What CallFunction does.                                               *)
LEMMA CallEffect ==
  ASSUME Shape, Frames, CallFunction, NEW N \in Nat, N = Len(fan)
  PROVE  /\ More /\ N >= 1 /\ Len(stack) = N /\ pc = "visit" /\ pc' = pc
         /\ input' = input /\ moved' = moved
         /\ stack' \in Seq(FrameType) /\ Len(stack') = N
         /\ \A k \in 1..N : /\ stack'[k].n = stack[k].n /\ stack'[k].t = k
                            /\ stack'[k].args = stack[k].args /\ (stack'[k].fresh <=> stack[k].fresh)
                            /\ stack'[k].alt = NewAlt(k)
                            /\ (stack'[k].spent <=> yields = "rvalue")
         /\ \E c \in Seq(ValueType) :
                   /\ calls' = Append(calls, c) /\ DOMAIN c = 1..N /\ Len(c) = N
                   /\ \A k \in 1..N : /\ c[k].arg = k /\ c[k].alt = NewAlt(k)
                                      /\ (c[k].fresh <=> stack[k].fresh /\ ~Passed[k].spent)
<1>0. PICK d \in Nat : d = Len(stack)
  BY Sizes
<1>1. /\ More /\ d >= 1 /\ d <= N /\ pc = "visit" /\ top.n = N - d + 1 /\ top.n = 1
      /\ Passed \in Seq(FrameType) /\ Len(Passed) = d
  BY <1>0, PassedFacts DEF CallFunction
<1>2. d = N
  BY <1>1
<1>3. /\ \A k \in 1..N : /\ Passed[k].n = stack[k].n /\ Passed[k].t = k
                         /\ Passed[k].args = stack[k].args /\ (Passed[k].fresh <=> stack[k].fresh)
                         /\ Passed[k].alt = NewAlt(k) /\ NewAlt(k) \in Nat
  BY <1>0, <1>1, <1>2, PassedFields
<1>4. DOMAIN Pack = 1..N /\ \A k \in 1..N : Pack[k] = <<k, NewAlt(k)>>
  <2>1. CASE visitor = "visit_transform"
    BY <1>0, <1>1, <1>2, <2>1, PackIs
  <2>2. CASE visitor # "visit_transform"
    <3>1. Pack = [k \in 1..N |-> IF k <= N - N THEN <<N + k, 0>> ELSE <<k - (N - N), NewAlt(k - (N - N))>>]
      BY <1>0, <1>1, <1>2, <2>2, PackIs
    <3>2. \A k \in 1..N : ~(k <= N - N) /\ k - (N - N) = k
      OBVIOUS
    <3> QED BY <3>1, <3>2
  <2> QED BY <2>1, <2>2
<1>5. ASSUME NEW k \in 1..N
      PROVE  Value(Pack[k]) = [arg |-> k, alt |-> NewAlt(k), fresh |-> Passed[k].fresh /\ ~Passed[k].spent]
  <2>1. Passed[k] \in ToSet(Passed)
    BY <1>1, <1>2 DEF ToSet
  <2>2. \A f \in ToSet(Passed) : f.t = k => f = Passed[k]
    BY <1>1, <1>2, <1>3 DEF ToSet
  <2>3. (CHOOSE f \in ToSet(Passed) : f.t = k) = Passed[k]
    BY <1>3, <2>1, <2>2
  <2>4. Pack[k][1] = k /\ Pack[k][2] = NewAlt(k)
    BY <1>4
  <2> QED BY <2>3, <2>4 DEF Value
<1>6. PICK c : c = [k \in DOMAIN Pack |-> Value(Pack[k])]
  OBVIOUS
<1>7. DOMAIN c = 1..N /\ Len(c) = N /\ calls' = Append(calls, c)
  BY <1>4, <1>6 DEF CallFunction
<1>8. ASSUME NEW k \in 1..N
      PROVE  /\ c[k].arg = k /\ c[k].alt = NewAlt(k)
             /\ (c[k].fresh <=> stack[k].fresh /\ ~Passed[k].spent)
  <2>1. c[k] = [arg |-> k, alt |-> NewAlt(k), fresh |-> Passed[k].fresh /\ ~Passed[k].spent]
    BY <1>4, <1>5, <1>6
  <2>2. PICK b \in BOOLEAN : b = (Passed[k].fresh /\ ~Passed[k].spent)
    OBVIOUS
  <2>3. c[k] = [arg |-> k, alt |-> NewAlt(k), fresh |-> b]
    BY <2>1, <2>2
  <2>4. c[k].arg = k /\ c[k].alt = NewAlt(k) /\ (c[k].fresh <=> b)
    BY <2>3
  <2> QED BY <1>3, <2>2, <2>4
<1>9. c \in Seq(ValueType)
  <2>1. ASSUME NEW k \in 1..N PROVE c[k] \in ValueType
    <3>1. PICK b \in BOOLEAN : b = (Passed[k].fresh /\ ~Passed[k].spent)
      OBVIOUS
    <3>2. c[k] = [arg |-> k, alt |-> NewAlt(k), fresh |-> b]
      BY <1>4, <1>5, <1>6, <3>1
    <3> QED BY <1>3, <3>2 DEF ValueType
  <2>2. c \in [1..N -> ValueType]
    BY <1>4, <1>6, <2>1
  <2> QED BY <2>2
<1>10. PICK b \in BOOLEAN : b = (yields = "rvalue")
  OBVIOUS
<1>11. stack' = [k \in 1..N |-> [Passed[k] EXCEPT !.spent = b]]
  BY <1>1, <1>2, <1>10 DEF CallFunction
<1>12. ASSUME NEW f \in FrameType
       PROVE  LET g == [f EXCEPT !.spent = b] IN
              /\ g \in FrameType /\ g.n = f.n /\ g.t = f.t /\ g.args = f.args /\ g.alt = f.alt
              /\ (g.fresh <=> f.fresh) /\ (g.spent <=> b)
  BY DEF FrameType
<1>13. ASSUME NEW k \in 1..N
       PROVE  /\ stack'[k] \in FrameType /\ stack'[k].n = stack[k].n /\ stack'[k].t = k
              /\ stack'[k].args = stack[k].args /\ (stack'[k].fresh <=> stack[k].fresh)
              /\ stack'[k].alt = NewAlt(k)
              /\ (stack'[k].spent <=> yields = "rvalue")
  <2>1. PICK f \in FrameType : f = Passed[k]
    BY <1>1, <1>2
  <2>2. stack'[k] = [f EXCEPT !.spent = b]
    BY <1>11, <2>1
  <2>3. /\ stack'[k] \in FrameType /\ stack'[k].n = f.n /\ stack'[k].t = f.t
        /\ stack'[k].args = f.args /\ stack'[k].alt = f.alt
        /\ (stack'[k].fresh <=> f.fresh) /\ (stack'[k].spent <=> b)
    BY <1>12, <2>2
  <2> QED BY <1>3, <1>10, <2>1, <2>3
<1>14. stack' \in Seq(FrameType) /\ Len(stack') = N
  <2>1. stack' \in [1..N -> FrameType]
    BY <1>11, <1>13
  <2> QED BY <2>1
<1>15. pc' = pc /\ input' = input /\ moved' = moved
  BY DEF CallFunction
<1> QED BY <1>0, <1>1, <1>2, <1>7, <1>8, <1>9, <1>13, <1>14, <1>15

-----------------------------------------------------------------------------
(* The pack of a frame depends on the alternatives passed on before it.  *)
LEMMA GivenKept ==
  ASSUME Shape, input' = input, NEW N \in Nat, N = Len(fan), NEW m \in 1..N,
         \A j \in 1..(m - 1) : stack'[j].alt = stack[j].alt
  PROVE  Given(m)' = Given(m)
<1>1. visitor' = visitor /\ fan' = fan
  BY DEF input
<1>2. CASE visitor = "visit_transform"
  BY <1>1, <1>2 DEF Given
<1>3. CASE visitor # "visit_transform"
  <2>1. \A k \in 1..(N - 1) : ~(k <= N - m) => k - (N - m) \in 1..(m - 1)
    OBVIOUS
  <2>2. Given(m) = [k \in 1..(N - 1) |-> IF k <= N - m THEN <<m + k, 0>>
                      ELSE <<k - (N - m), stack[k - (N - m)].alt>>]
    BY <1>3 DEF Given
  <2>3. Given(m)' = [k \in 1..(N - 1) |-> IF k <= N - m THEN <<m + k, 0>>
                      ELSE <<k - (N - m), stack'[k - (N - m)].alt>>]
    BY <1>1, <1>3 DEF Given
  <2> QED BY <2>1, <2>2, <2>3
<1> QED BY <1>2, <1>3

(* The shape of the stack is kept by every step.                         *)
LEMMA ShapeStep ==
  ASSUME Shape, Frames, Next
  PROVE  Shape'
<1>1. PICK N \in Nat : N = Len(fan) /\ N >= 1 /\ Args = 1..N
  BY Sizes
<1>2. PICK d \in Nat : d = Len(stack)
  BY Sizes
<1>3. input' = input
  BY DEF Next, Start, Continue, CallFunction, Return
<1>4. /\ visitor' \in {"visit_transform", "visit_transform2"} /\ yields' \in Category
      /\ fan' \in Seq(0..MaxFan) /\ Len(fan') = N /\ category' \in [Args' -> Category]
      /\ Args' = 1..N /\ moved \in SUBSET (1..N)
  BY <1>1, <1>3 DEF Shape, input, Args, Category
<1>5. SUFFICES /\ stack' \in Seq(FrameType) /\ Len(stack') <= N
               /\ pc' \in {"visit", "done"} /\ (pc' = "visit" <=> Len(stack') # 0)
               /\ moved' \in SUBSET (1..N)
  BY <1>1, <1>4 DEF Shape
<1>6. CASE Start
  <2>1. /\ pc' = "visit" /\ stack' \in Seq(FrameType) /\ Len(stack') = 1
        /\ moved' = IF category[1] = "rvalue" THEN {1} ELSE {}
    BY <1>1, <1>6, StartEffect
  <2> QED BY <1>1, <2>1
<1>7. CASE Continue
  <2>1. /\ d < N /\ pc = "visit" /\ pc' = pc /\ stack' \in Seq(FrameType) /\ Len(stack') = d + 1
        /\ moved' = moved \cup (IF category[d + 1] = "rvalue" THEN {d + 1} ELSE {})
    BY <1>1, <1>2, <1>7, ContinueEffect
  <2>2. d + 1 \in 1..N /\ d + 1 <= N /\ d + 1 # 0
    BY <2>1
  <2> QED BY <1>4, <2>1, <2>2
<1>8. CASE CallFunction
  <2>1. /\ pc = "visit" /\ pc' = pc /\ stack' \in Seq(FrameType) /\ Len(stack') = N /\ moved' = moved
    BY <1>1, <1>8, CallEffect
  <2> QED BY <1>1, <1>4, <2>1
<1>9. CASE Return
  <2>1. /\ d >= 1 /\ d <= N /\ pc' = (IF d = 1 THEN "done" ELSE "visit") /\ moved' = moved
        /\ stack' \in Seq(FrameType) /\ Len(stack') = d - 1
    BY <1>1, <1>2, <1>9, ReturnEffect
  <2>2. d - 1 <= N /\ (d - 1 # 0 <=> d # 1)
    BY <2>1
  <2> QED BY <1>4, <2>1, <2>2
<1> QED BY <1>6, <1>7, <1>8, <1>9 DEF Next

(* So are the places, the packs and the alternatives of the frames.      *)
LEMMA FramesStep ==
  ASSUME Shape, Frames, Next, Shape'
  PROVE  Frames'
<1>1. PICK N \in Nat : N = Len(fan) /\ N >= 1 /\ Args = 1..N
  BY Sizes
<1>2. PICK d \in Nat : d = Len(stack) /\ d <= N /\ DOMAIN stack = 1..d
  BY <1>1, Sizes
<1>3. input' = input /\ fan' = fan
  BY DEF Next, Start, Continue, CallFunction, Return, input
<1>4. \A k \in 1..d : /\ stack[k].n = N - k + 1 /\ stack[k].t = k /\ stack[k].args = Given(k)
                      /\ stack[k].alt <= fan[k] /\ (k < d => stack[k].alt >= 1)
                      /\ stack[k].alt \in Nat
  BY <1>1, <1>2, Sizes DEF Frames, FrameType
<1>5. \A k \in 1..N : fan[k] \in Nat
  BY <1>1, Sizes
<1>6. CASE Start
  <2>1. /\ Len(stack') = 1 /\ stack' \in Seq(FrameType)
        /\ stack'[1].n = N /\ stack'[1].t = 1 /\ stack'[1].args = Given(1)' /\ stack'[1].alt = 0
    BY <1>1, <1>6, StartEffect
  <2>2. DOMAIN stack' = 1..1
    BY <2>1
  <2>3. N = N - 1 + 1 /\ 0 <= fan[1] /\ ~(1 < 1)
    BY <1>1, <1>5
  <2>4. ASSUME NEW k \in DOMAIN stack'
        PROVE  /\ stack'[k].n = N - k + 1 /\ stack'[k].t = k /\ stack'[k].args = Given(k)'
               /\ stack'[k].alt <= fan[k] /\ (k < 1 => stack'[k].alt >= 1)
    <3>1. k = 1
      BY <2>2
    <3> QED BY <2>1, <2>3, <3>1
  <2> QED BY <1>1, <1>3, <2>1, <2>4 DEF Frames
<1>7. CASE Continue
  <2>1. /\ More /\ d >= 1 /\ d < N /\ Len(stack') = d + 1 /\ stack' \in Seq(FrameType)
        /\ \A k \in 1..d : stack'[k] = Passed[k]
        /\ stack'[d + 1].n = N - (d + 1) + 1 /\ stack'[d + 1].t = d + 1
        /\ stack'[d + 1].args = Given(d + 1)' /\ stack'[d + 1].alt = 0
    BY <1>1, <1>2, <1>7, ContinueEffect
  <2>2. \A k \in 1..d : /\ stack'[k].n = stack[k].n /\ stack'[k].t = k /\ stack'[k].args = stack[k].args
                        /\ stack'[k].alt = NewAlt(k) /\ NewAlt(k) >= 1 /\ NewAlt(k) <= fan[k]
    BY <1>1, <1>2, <2>1, PassedFields
  <2>3. \A k \in 1..d : k < d => stack'[k].alt = stack[k].alt
    BY <1>2, <2>2 DEF NewAlt
  <2>4. ASSUME NEW k \in 1..d PROVE Given(k)' = Given(k)
    <3>1. \A j \in 1..(k - 1) : stack'[j].alt = stack[j].alt
      BY <2>3
    <3>2. k \in 1..N
      BY <1>2
    <3> QED BY <1>1, <1>3, <3>1, <3>2, GivenKept
  <2>5. ASSUME NEW k \in DOMAIN stack'
        PROVE  /\ stack'[k].n = N - k + 1 /\ stack'[k].t = k /\ stack'[k].args = Given(k)'
               /\ stack'[k].alt <= fan[k] /\ (k < d + 1 => stack'[k].alt >= 1)
    <3>1. k \in 1..d \/ k = d + 1
      BY <2>1
    <3>2. CASE k \in 1..d
      BY <1>4, <2>2, <2>4, <3>2
    <3>3. CASE k = d + 1
      BY <1>5, <2>1, <3>3
    <3> QED BY <3>1, <3>2, <3>3
  <2> QED BY <1>1, <1>3, <2>1, <2>5 DEF Frames
<1>8. CASE CallFunction
  <2>1. /\ More /\ d = N /\ Len(stack') = N /\ stack' \in Seq(FrameType)
        /\ \A k \in 1..N : /\ stack'[k].n = stack[k].n /\ stack'[k].t = k
                           /\ stack'[k].args = stack[k].args /\ stack'[k].alt = NewAlt(k)
    BY <1>1, <1>2, <1>8, CallEffect
  <2>2. \A k \in 1..N : NewAlt(k) >= 1 /\ NewAlt(k) <= fan[k]
    BY <1>1, <1>2, <2>1, PassedFields
  <2>3. \A k \in 1..N : k < N => stack'[k].alt = stack[k].alt
    BY <1>2, <2>1 DEF NewAlt
  <2>4. ASSUME NEW k \in 1..N PROVE Given(k)' = Given(k)
    <3>1. \A j \in 1..(k - 1) : stack'[j].alt = stack[j].alt
      BY <2>3
    <3> QED BY <1>1, <1>3, <3>1, GivenKept
  <2>5. ASSUME NEW k \in DOMAIN stack'
        PROVE  /\ stack'[k].n = N - k + 1 /\ stack'[k].t = k /\ stack'[k].args = Given(k)'
               /\ stack'[k].alt <= fan[k] /\ (k < N => stack'[k].alt >= 1)
    <3>1. k \in 1..N
      BY <2>1
    <3> QED BY <1>4, <2>1, <2>2, <2>4, <3>1
  <2> QED BY <1>1, <1>3, <2>1, <2>5 DEF Frames
<1>9. CASE Return
  <2>1. /\ d >= 1 /\ Len(stack') = d - 1 /\ stack' \in Seq(FrameType)
        /\ \A k \in 1..(d - 1) : stack'[k] = stack[k]
    BY <1>1, <1>2, <1>9, ReturnEffect
  <2>2. ASSUME NEW k \in 1..(d - 1) PROVE Given(k)' = Given(k)
    <3>1. \A j \in 1..(k - 1) : stack'[j].alt = stack[j].alt
      BY <2>1
    <3>2. k \in 1..N
      BY <1>2
    <3> QED BY <1>1, <1>3, <3>1, <3>2, GivenKept
  <2>3. ASSUME NEW k \in DOMAIN stack'
        PROVE  /\ stack'[k].n = N - k + 1 /\ stack'[k].t = k /\ stack'[k].args = Given(k)'
               /\ stack'[k].alt <= fan[k] /\ (k < d - 1 => stack'[k].alt >= 1)
    <3>1. k \in 1..(d - 1) /\ k \in 1..d /\ k < d
      BY <2>1
    <3> QED BY <1>4, <2>1, <2>2, <3>1
  <2> QED BY <1>1, <1>3, <2>1, <2>3 DEF Frames
<1> QED BY <1>6, <1>7, <1>8, <1>9 DEF Next

(* What has been passed on before, as the steps change it.               *)
LEMMA LaterSteps ==
  ASSUME Shape, Frames, Shape', NEW N \in Nat, N = Len(fan), NEW d \in Nat, d = Len(stack)
  PROVE  /\ Start => \A t \in 0..N : ~Later(t)'
         /\ Continue => /\ \A t \in 0..(d - 1) : Later(t)' <=> Later(t)
                        /\ ~Later(d)' /\ ~Later(d + 1)'
         /\ CallFunction => \A t \in 0..N : Later(t)'
         /\ Return /\ d > 1 => \A t \in 0..N : Later(t)'
<1>1. \A k \in 1..d : stack[k].alt \in Nat /\ (k < d => stack[k].alt >= 1)
  BY Sizes DEF Frames, FrameType
<1>2. stack' # <<>> <=> Len(stack') > 0
  BY DEF Shape
<1>3. stack # <<>> <=> d > 0
  BY DEF Shape
<1>4. ASSUME Start, NEW t \in 0..N PROVE ~Later(t)'
  <2>1. Len(stack') = 1 /\ stack'[1].alt = 0
    BY <1>4, StartEffect
  <2>2. stack'[Len(stack')].alt = 0 /\ (t + 1)..(Len(stack') - 1) = {}
    BY <2>1
  <2>3. ~(stack'[Len(stack')].alt >= 1)
    BY <2>2
  <2> QED BY <2>2, <2>3 DEF Later
<1>5. ASSUME Continue
      PROVE  /\ \A t \in 0..(d - 1) : Later(t)' <=> Later(t)
             /\ ~Later(d)' /\ ~Later(d + 1)'
  <2>1. /\ More /\ d >= 1 /\ Len(stack') = d + 1 /\ stack'[d + 1].alt = 0
        /\ \A k \in 1..d : stack'[k] = Passed[k]
    BY <1>5, ContinueEffect
  <2>2. \A k \in 1..d : stack'[k].alt = NewAlt(k)
    BY <2>1, PassedFields
  <2>3. stack'[d].alt = stack[d].alt + 1 /\ \A k \in 1..(d - 1) : stack'[k].alt = stack[k].alt
    BY <2>1, <2>2 DEF NewAlt
  <2>4. stack'[Len(stack')].alt = 0 /\ Len(stack') - 1 = d
    BY <2>1
  <2>5. ASSUME NEW t \in Nat
        PROVE  Later(t)' <=> \E s \in (t + 1)..d : stack'[s].alt > 1
    BY <1>2, <2>1, <2>4 DEF Later
  <2>6. ASSUME NEW t \in 0..(d - 1)
        PROVE  Later(t)' <=> Later(t)
    <3>1. Later(t) <=> stack[d].alt >= 1 \/ \E s \in (t + 1)..(d - 1) : stack[s].alt > 1
      BY <1>3, <2>1 DEF Later
    <3>2. stack'[d].alt > 1 <=> stack[d].alt >= 1
      BY <1>1, <2>1, <2>3
    <3>3. \A s \in (t + 1)..d : s = d \/ s \in (t + 1)..(d - 1)
      OBVIOUS
    <3>4. d \in (t + 1)..d /\ \A s \in (t + 1)..(d - 1) : s \in (t + 1)..d /\ s \in 1..(d - 1)
      BY <2>1
    <3>5. \A s \in (t + 1)..(d - 1) : stack'[s].alt > 1 <=> stack[s].alt > 1
      BY <2>3, <3>4
    <3>6. (\E s \in (t + 1)..d : stack'[s].alt > 1) <=>
            stack'[d].alt > 1 \/ \E s \in (t + 1)..(d - 1) : stack'[s].alt > 1
      BY <3>3, <3>4
    <3>7. Later(t)' <=> \E s \in (t + 1)..d : stack'[s].alt > 1
      BY <2>5
    <3> QED BY <3>1, <3>2, <3>5, <3>6, <3>7
  <2>7. (d + 1)..d = {} /\ (d + 2)..d = {} /\ (d + 1) + 1 = d + 2
    OBVIOUS
  <2> QED BY <2>5, <2>6, <2>7
<1>6. ASSUME CallFunction, NEW t \in 0..N PROVE Later(t)'
  <2>1. /\ More /\ N >= 1 /\ Len(stack') = N /\ d = N /\ stack'[N].alt = NewAlt(N)
    BY <1>6, CallEffect
  <2>2. NewAlt(N) >= 1
    BY <2>1, PassedFields
  <2> QED BY <1>2, <2>1, <2>2 DEF Later
<1>7. ASSUME Return, d > 1, NEW t \in 0..N PROVE Later(t)'
  <2>1. Len(stack') = d - 1 /\ stack'[d - 1] = stack[d - 1]
    BY <1>7, ReturnEffect
  <2>2. stack'[d - 1].alt >= 1 /\ d - 1 > 0
    BY <1>1, <1>7, <2>1
  <2> QED BY <1>2, <2>1, <2>2 DEF Later
<1> QED BY <1>4, <1>5, <1>6, <1>7

(* An argument that an rvalue is moved from has been visited, and one that *)
(* has been visited is, throughout.                                        *)
LEMMA MovedStep ==
  ASSUME Shape, Frames, MovedSoFar, Next, Shape'
  PROVE  MovedSoFar'
<1>1. PICK N \in Nat : N = Len(fan) /\ N >= 1 /\ Args = 1..N
  BY Sizes
<1>2. PICK d \in Nat : d = Len(stack) /\ d <= N
  BY <1>1, Sizes
<1>3. fan' = fan /\ category' = category /\ Args' = Args
  BY DEF Next, Start, Continue, CallFunction, Return, input, Args
<1>4. \A k \in 1..N : fan[k] \in Nat
  BY <1>1, Sizes
<1>5. \A k \in 1..d : stack[k].alt \in Nat /\ stack[k].alt <= fan[k] /\ (k < d => stack[k].alt >= 1)
  BY <1>2, Sizes DEF Frames, FrameType
<1>6. SUFFICES ASSUME pc' # "done", NEW t \in 1..N
               PROVE  t \in moved' <=>
                        /\ category[t] = "rvalue"
                        /\ t <= Len(stack') \/ (Later(0)' /\ \A s \in 1..(t - 1) : fan[s] >= 1)
  BY <1>1, <1>3 DEF MovedSoFar
<1>7. pc # "done" => (t \in moved <=> /\ category[t] = "rvalue"
                                      /\ t <= d \/ (Later(0) /\ \A s \in 1..(t - 1) : fan[s] >= 1))
  BY <1>1, <1>2 DEF MovedSoFar
<1>8. CASE Start
  <2>1. Len(stack') = 1 /\ moved' = IF category[1] = "rvalue" THEN {1} ELSE {}
    BY <1>1, <1>8, StartEffect
  <2>2. ~Later(0)'
    BY <1>1, <1>2, <1>8, LaterSteps
  <2>3. t <= 1 <=> t = 1
    OBVIOUS
  <2> QED BY <2>1, <2>2, <2>3
<1>9. CASE Continue
  <2>1. /\ pc = "visit" /\ d >= 1 /\ Len(stack') = d + 1
        /\ moved' = moved \cup (IF category[d + 1] = "rvalue" THEN {d + 1} ELSE {})
    BY <1>1, <1>2, <1>9, ContinueEffect
  <2>2. Later(0)' <=> Later(0)
    <3>1. 0 \in 0..(d - 1)
      BY <2>1
    <3> QED BY <1>1, <1>2, <1>9, <3>1, LaterSteps
  <2>3. t <= d + 1 <=> t <= d \/ t = d + 1
    OBVIOUS
  <2> QED BY <1>7, <2>1, <2>2, <2>3
<1>10. CASE CallFunction
  <2>1. pc = "visit" /\ d = N /\ Len(stack') = N /\ moved' = moved
    BY <1>1, <1>2, <1>10, CallEffect
  <2> QED BY <1>7, <2>1
<1>11. CASE Return
  <2>1. /\ pc = "visit" /\ d >= 1 /\ Len(stack') = d - 1 /\ moved' = moved
        /\ stack[d].alt = fan[d] /\ pc' = (IF d = 1 THEN "done" ELSE "visit")
    BY <1>1, <1>2, <1>11, ReturnEffect
  <2>2. d > 1 /\ Later(0)'
    <3>1. d > 1
      BY <1>6, <2>1
    <3> QED BY <1>1, <1>2, <1>11, <3>1, LaterSteps
  <2>3. \A s \in 1..(d - 1) : fan[s] >= 1
    BY <1>2, <1>4, <1>5
  <2>4. CASE t < d
    <3>1. t <= d /\ t <= d - 1
      BY <2>4
    <3> QED BY <1>7, <2>1, <3>1
  <2>5. CASE t = d
    <3>1. t <= d /\ \A s \in 1..(t - 1) : fan[s] >= 1
      BY <2>3, <2>5
    <3> QED BY <1>7, <2>1, <2>2, <3>1
  <2>6. CASE t > d
    <3>1. ~(t <= d) /\ ~(t <= d - 1) /\ d \in 1..(t - 1)
      BY <2>1, <2>6
    <3>2. (\A s \in 1..(t - 1) : fan[s] >= 1) => Later(0)
      <4>1. fan[d] >= 1 => stack[d].alt >= 1
        BY <2>1
      <4> QED BY <1>2, <2>1, <3>1, <4>1 DEF Later, Shape
    <3> QED BY <1>7, <2>1, <2>2, <3>1, <3>2
  <2> QED BY <1>2, <2>4, <2>5, <2>6
<1> QED BY <1>8, <1>9, <1>10, <1>11 DEF Next

(* Which objects are fresh, and which have been given to the function.   *)
LEMMA ObjectsStep ==
  ASSUME Shape, Frames, MovedSoFar, Objects, Next, Shape'
  PROVE  Objects'
<1>1. PICK N \in Nat : N = Len(fan) /\ N >= 1 /\ Args = 1..N
  BY Sizes
<1>2. PICK d \in Nat : d = Len(stack) /\ d <= N /\ DOMAIN stack = 1..d
  BY <1>1, Sizes
<1>3. fan' = fan /\ category' = category /\ yields' = yields
  BY DEF Next, Start, Continue, CallFunction, Return, input
<1>4. \A k \in 1..N : fan[k] \in Nat
  BY <1>1, Sizes
<1>5. \A k \in 1..d : stack[k].alt \in Nat /\ stack[k].alt <= fan[k] /\ (k < d => stack[k].alt >= 1)
  BY <1>2, Sizes DEF Frames, FrameType
<1>6. \A k \in 1..d :
        /\ stack[k].fresh <=> (category[k] = "rvalue" => \A s \in 1..(k - 1) : stack[s].alt = 1)
        /\ stack[k].spent <=> /\ yields = "rvalue" /\ Later(k)
                              /\ \A s \in (k + 1)..N : fan[s] >= 1
  BY <1>1, <1>2 DEF Objects
<1>7. DOMAIN stack' = 1..Len(stack') /\ Len(stack') \in Nat
  BY DEF Shape
<1>8. SUFFICES ASSUME NEW k \in 1..Len(stack')
               PROVE  /\ stack'[k].fresh
                            <=> (category[k] = "rvalue" => \A s \in 1..(k - 1) : stack'[s].alt = 1)
                      /\ stack'[k].spent <=> /\ yields = "rvalue" /\ Later(k)'
                                             /\ \A s \in (k + 1)..N : fan[s] >= 1
  BY <1>1, <1>3, <1>7 DEF Objects
<1>9. CASE Start
  <2>1. Len(stack') = 1 /\ stack'[1].fresh /\ ~stack'[1].spent
    BY <1>1, <1>9, StartEffect
  <2>2. k = 1 /\ k \in 0..N
    BY <1>1, <2>1
  <2>3. ~Later(k)'
    BY <1>1, <1>2, <1>9, <2>2, LaterSteps
  <2>4. 1..(k - 1) = {}
    BY <2>2
  <2> QED BY <2>1, <2>2, <2>3, <2>4
<1>10. CASE Continue
  <2>1. /\ More /\ pc = "visit" /\ d >= 1 /\ d < N /\ Len(stack') = d + 1
        /\ \A j \in 1..d : stack'[j] = Passed[j]
        /\ ~stack'[d + 1].spent /\ (stack'[d + 1].fresh <=> d + 1 \notin moved)
    BY <1>1, <1>2, <1>10, ContinueEffect
  <2>2. /\ \A j \in 1..d : (stack'[j].fresh <=> stack[j].fresh) /\ stack'[j].alt = NewAlt(j)
        /\ \A j \in 1..(d - 1) : stack'[j].spent <=> stack[j].spent
        /\ ~stack'[d].spent
    <3>1. /\ \A j \in 1..d : (Passed[j].fresh <=> stack[j].fresh) /\ Passed[j].alt = NewAlt(j)
          /\ \A j \in 1..(d - 1) : Passed[j].spent <=> stack[j].spent
          /\ ~Passed[d].spent
      BY <1>1, <1>2, <2>1, PassedFields
    <3>2. \A j \in 1..(d - 1) : stack'[j] = Passed[j]
      BY <2>1
    <3>3. stack'[d] = Passed[d]
      BY <2>1
    <3> QED BY <2>1, <3>1, <3>2, <3>3
  <2>3. stack'[d].alt = stack[d].alt + 1 /\ \A j \in 1..(d - 1) : stack'[j].alt = stack[j].alt
    BY <1>2, <2>1, <2>2 DEF NewAlt
  <2>4. /\ \A t \in 0..(d - 1) : Later(t)' <=> Later(t)
        /\ ~Later(d)' /\ ~Later(d + 1)'
    BY <1>1, <1>2, <1>10, LaterSteps
  <2>5. CASE k < d
    <3>1. k \in 1..d /\ k \in 1..(d - 1) /\ k \in 0..(d - 1)
      BY <2>5
    <3>2. \A s \in 1..(k - 1) : stack'[s].alt = stack[s].alt
      BY <2>3, <3>1
    <3>3. Later(k)' <=> Later(k)
      BY <2>4, <3>1
    <3> QED BY <1>6, <2>2, <3>1, <3>2, <3>3
  <2>6. CASE k = d
    <3>1. k \in 1..d /\ \A s \in 1..(k - 1) : stack'[s].alt = stack[s].alt
      BY <2>1, <2>3, <2>6
    <3> QED BY <1>6, <2>2, <2>4, <2>6, <3>1
  <2>7. CASE k = d + 1
    <3>1. \A s \in 1..d : fan[s] >= 1
      <4>1. stack[d].alt < fan[d]
        BY <1>1, <1>2, <2>1, PassedFacts
      <4> QED BY <1>2, <1>4, <1>5, <4>1
    <3>2. d + 1 \in moved <=> category[d + 1] = "rvalue" /\ Later(0)
      <4>1. d + 1 \in Args /\ ~(d + 1 <= d) /\ (d + 1) - 1 = d /\ pc # "done"
        BY <1>1, <2>1
      <4> QED BY <1>2, <3>1, <4>1 DEF MovedSoFar
    <3>3. Later(0) <=> ~(\A s \in 1..d : stack'[s].alt = 1)
      <4>1. Later(0) <=> stack[d].alt >= 1 \/ \E s \in 1..(d - 1) : stack[s].alt > 1
        BY <1>2, <2>1 DEF Later, Shape
      <4>2. stack[d].alt >= 1 <=> stack'[d].alt # 1
        BY <1>5, <2>1, <2>3
      <4>3. \A s \in 1..(d - 1) : stack[s].alt > 1 <=> stack'[s].alt # 1
        BY <1>5, <2>3
      <4>4. d \in 1..d /\ \A s \in 1..d : s = d \/ s \in 1..(d - 1)
        BY <2>1
      <4>5. \A s \in 1..(d - 1) : s \in 1..d
        OBVIOUS
      <4> QED BY <4>1, <4>2, <4>3, <4>4, <4>5
    <3>4. k - 1 = d
      BY <2>7
    <3> QED BY <2>1, <2>4, <2>7, <3>2, <3>3, <3>4
  <2> QED BY <2>1, <2>5, <2>6, <2>7
<1>11. CASE CallFunction
  <2>1. /\ More /\ d = N /\ Len(stack') = N
        /\ \A j \in 1..N : /\ (stack'[j].fresh <=> stack[j].fresh) /\ stack'[j].alt = NewAlt(j)
                           /\ (stack'[j].spent <=> yields = "rvalue")
    BY <1>1, <1>2, <1>11, CallEffect
  <2>2. \A j \in 1..N : NewAlt(j) >= 1 /\ NewAlt(j) <= fan[j]
    BY <1>1, <1>2, <2>1, PassedFields
  <2>3. k \in 1..N /\ k \in 0..N
    BY <2>1
  <2>4. \A s \in 1..(k - 1) : stack'[s].alt = stack[s].alt
    BY <1>2, <2>1, <2>3 DEF NewAlt
  <2>5. Later(k)'
    BY <1>1, <1>2, <1>11, <2>3, LaterSteps
  <2>6. \A s \in (k + 1)..N : fan[s] >= 1
    <3>1. ASSUME NEW s \in (k + 1)..N PROVE fan[s] >= 1
      <4>1. s \in 1..N
        BY <2>3
      <4>2. NewAlt(s) \in Nat
        BY <1>1, <1>2, <2>1, <4>1, PassedFields
      <4> QED BY <1>4, <2>2, <4>1, <4>2
    <3> QED BY <3>1
  <2> QED BY <1>6, <2>1, <2>3, <2>4, <2>5, <2>6
<1>12. CASE Return
  <2>1. /\ d >= 1 /\ Len(stack') = d - 1 /\ stack[d].alt = fan[d]
        /\ \A j \in 1..(d - 1) : stack'[j] = stack[j]
    BY <1>1, <1>2, <1>12, ReturnEffect
  <2>2. d > 1 /\ k \in 1..d /\ k \in 1..(d - 1) /\ k \in 0..N /\ d \in (k + 1)..N
    BY <1>2, <2>1
  <2>3. Later(k)'
    BY <1>1, <1>2, <1>12, <2>2, LaterSteps
  <2>4. (\A s \in (k + 1)..N : fan[s] >= 1) => Later(k)
    <3>1. fan[d] >= 1 => stack[d].alt >= 1
      BY <2>1
    <3> QED BY <1>2, <2>1, <2>2, <3>1 DEF Later, Shape
  <2>5. \A s \in 1..(k - 1) : stack'[s] = stack[s]
    BY <2>1, <2>2
  <2> QED BY <1>6, <2>1, <2>2, <2>3, <2>4, <2>5
<1> QED BY <1>9, <1>10, <1>11, <1>12 DEF Next

-----------------------------------------------------------------------------
(* A combination of alternatives is behind after a step if it was before, *)
(* or is the one the function is called with.                             *)
LEMMA BehindSteps ==
  ASSUME Shape, Frames, Shape', NEW N \in Nat, N = Len(fan), NEW d \in Nat, d = Len(stack),
         NEW a \in Combos
  PROVE  /\ Start \/ Continue \/ Return => (Behind(a)' <=> Behind(a))
         /\ CallFunction => (Behind(a)' <=> Behind(a) \/ \A t \in 1..N : a[t] = NewAlt(t))
<1>1. N >= 1 /\ Args = 1..N /\ d <= N /\ \A t \in 1..N : fan[t] \in Nat
  BY Sizes
<1>2. \A t \in 1..N : a[t] \in Nat /\ a[t] >= 1 /\ a[t] <= fan[t]
  <2>1. a \in [1..N -> 1..MaxFan] /\ \A t \in 1..N : a[t] <= fan[t]
    BY <1>1 DEF Combos
  <2> QED BY <2>1, VisitTransformAssumption
<1>3. \A k \in 1..d : stack[k].alt \in Nat /\ stack[k].alt <= fan[k] /\ (k < d => stack[k].alt >= 1)
  BY Sizes DEF Frames, FrameType
<1>4. DOMAIN stack = 1..d /\ DOMAIN stack' = 1..Len(stack')
  BY DEF Shape
<1>5. Behind(a) <=> \/ pc = "done"
                    \/ \E s \in 1..d : /\ \A r \in 1..(s - 1) : a[r] = stack[r].alt
                                       /\ a[s] < stack[s].alt \/ (s = d /\ a[s] = stack[s].alt)
  BY <1>4 DEF Behind
<1>6. Behind(a)' <=> \/ pc' = "done"
                     \/ \E s \in 1..Len(stack') :
                          /\ \A r \in 1..(s - 1) : a[r] = stack'[r].alt
                          /\ a[s] < stack'[s].alt \/ (s = Len(stack') /\ a[s] = stack'[s].alt)
  BY <1>4 DEF Behind
<1>7. ASSUME Start PROVE Behind(a)' <=> Behind(a)
  <2>1. Len(stack') = 1 /\ stack'[1].alt = 0 /\ d = 0 /\ pc = "start" /\ pc' = "visit"
    BY <1>7, StartEffect
  <2>2. a[1] \in Nat /\ a[1] >= 1
    BY <1>1, <1>2
  <2>3. ~Behind(a)
    BY <1>5, <2>1
  <2>4. ~Behind(a)'
    <3>1. \A s \in 1..Len(stack') : s = 1
      BY <2>1
    <3>2. ~(a[1] < stack'[1].alt) /\ a[1] # stack'[1].alt
      BY <2>1, <2>2
    <3> QED BY <1>6, <2>1, <3>1, <3>2
  <2> QED BY <2>3, <2>4
<1>8. ASSUME Continue PROVE Behind(a)' <=> Behind(a)
  <2>1. /\ More /\ d >= 1 /\ d < N /\ Len(stack') = d + 1 /\ pc = "visit" /\ pc' = "visit"
        /\ stack'[d + 1].alt = 0 /\ \A k \in 1..d : stack'[k] = Passed[k]
    BY <1>8, ContinueEffect
  <2>2. \A k \in 1..d : stack'[k].alt = NewAlt(k)
    BY <2>1, PassedFields
  <2>3. stack'[d].alt = stack[d].alt + 1 /\ \A k \in 1..(d - 1) : stack'[k].alt = stack[k].alt
    BY <2>1, <2>2 DEF NewAlt
  <2>4. ASSUME NEW s \in 1..d
        PROVE  /\ (\A r \in 1..(s - 1) : a[r] = stack'[r].alt) <=> \A r \in 1..(s - 1) : a[r] = stack[r].alt
               /\ a[s] < stack'[s].alt <=> a[s] < stack[s].alt \/ (s = d /\ a[s] = stack[s].alt)
    <3>1. \A r \in 1..(s - 1) : stack'[r].alt = stack[r].alt
      BY <2>3
    <3>2. CASE s = d
      <4>1. a[d] \in Nat /\ stack[d].alt \in Nat
        BY <1>2, <1>3, <2>1
      <4>2. stack'[d].alt = stack[d].alt + 1
        BY <2>3
      <4>3. a[d] < stack'[d].alt <=> a[d] < stack[d].alt \/ a[d] = stack[d].alt
        BY <4>1, <4>2
      <4>4. (\A r \in 1..(s - 1) : a[r] = stack'[r].alt) <=> \A r \in 1..(s - 1) : a[r] = stack[r].alt
        BY <3>1
      <4> QED BY <3>2, <4>3, <4>4
    <3>3. CASE s # d
      BY <2>3, <3>1, <3>3
    <3> QED BY <3>2, <3>3
  <2>5. ~(a[d + 1] < stack'[d + 1].alt) /\ a[d + 1] # stack'[d + 1].alt
    BY <1>2, <2>1
  <2>6. \A s \in 1..(d + 1) : s \in 1..d \/ s = d + 1
    OBVIOUS
  <2>7. \A s \in 1..d : s \in 1..(d + 1) /\ s # d + 1
    OBVIOUS
  <2> QED BY <1>5, <1>6, <2>1, <2>4, <2>5, <2>6, <2>7
<1>9. ASSUME Return PROVE Behind(a)' <=> Behind(a)
  <2>1. /\ d >= 1 /\ pc = "visit" /\ Len(stack') = d - 1 /\ stack[d].alt = fan[d]
        /\ pc' = (IF d = 1 THEN "done" ELSE "visit")
        /\ \A k \in 1..(d - 1) : stack'[k] = stack[k]
    BY <1>9, ReturnEffect
  <2>2. a[d] < stack[d].alt \/ a[d] = stack[d].alt
    BY <1>1, <1>2, <2>1
  <2>3. CASE d = 1
    <3>1. 1 \in 1..d /\ \A r \in 1..(1 - 1) : a[r] = stack[r].alt
      BY <2>3
    <3> QED BY <1>5, <1>6, <2>1, <2>2, <2>3, <3>1
  <2>4. CASE d > 1
    <3>1. pc' = "visit" /\ d - 1 \in 1..d /\ d - 1 \in 1..(d - 1)
      BY <2>1, <2>4
    <3>2. ASSUME NEW s \in 1..(d - 1),
                 \A r \in 1..(s - 1) : a[r] = stack'[r].alt,
                 a[s] < stack'[s].alt \/ (s = d - 1 /\ a[s] = stack'[s].alt)
          PROVE  Behind(a)
      <4>1. s \in 1..d /\ stack'[s] = stack[s] /\ \A r \in 1..(s - 1) : a[r] = stack[r].alt
        <5>1. s \in 1..d /\ \A r \in 1..(s - 1) : r \in 1..(d - 1)
          OBVIOUS
        <5>2. stack'[s] = stack[s] /\ \A r \in 1..(s - 1) : stack'[r] = stack[r]
          BY <2>1, <5>1
        <5> QED BY <3>2, <5>1, <5>2
      <4>2. CASE a[s] < stack'[s].alt
        BY <1>5, <4>1, <4>2
      <4>3. CASE s = d - 1 /\ a[s] = stack'[s].alt
        <5>1. \A r \in 1..(d - 1) : r \in 1..(s - 1) \/ r = s
          BY <4>3
        <5>2. \A r \in 1..(d - 1) : a[r] = stack[r].alt
          BY <4>1, <4>3, <5>1
        <5>3. d \in 1..d
          BY <2>1
        <5> QED BY <1>5, <2>2, <5>2, <5>3
      <4> QED BY <3>2, <4>2, <4>3
    <3>3. ASSUME NEW s \in 1..d,
                 \A r \in 1..(s - 1) : a[r] = stack[r].alt,
                 a[s] < stack[s].alt \/ (s = d /\ a[s] = stack[s].alt)
          PROVE  Behind(a)'
      <4>1. CASE s = d
        <5>1. a[d - 1] = stack'[d - 1].alt
          BY <2>1, <3>1, <3>3, <4>1
        <5>2. \A r \in 1..((d - 1) - 1) : a[r] = stack'[r].alt
          BY <2>1, <3>3, <4>1
        <5> QED BY <1>6, <2>1, <3>1, <5>1, <5>2
      <4>2. CASE s # d
        <5>1. s \in 1..(d - 1) /\ stack'[s] = stack[s] /\ a[s] < stack[s].alt
          BY <2>1, <3>3, <4>2
        <5>2. \A r \in 1..(s - 1) : a[r] = stack'[r].alt
          BY <2>1, <3>3, <5>1
        <5> QED BY <1>6, <2>1, <5>1, <5>2
      <4> QED BY <4>1, <4>2
    <3> QED BY <1>5, <1>6, <2>1, <3>1, <3>2, <3>3
  <2> QED BY <2>1, <2>3, <2>4
<1>10. ASSUME CallFunction
       PROVE  Behind(a)' <=> Behind(a) \/ \A t \in 1..N : a[t] = NewAlt(t)
  <2>1. /\ More /\ d = N /\ pc = "visit" /\ pc' = pc /\ Len(stack') = N
        /\ \A k \in 1..N : stack'[k].alt = NewAlt(k)
    BY <1>10, CallEffect
  <2>2. stack'[N].alt = stack[N].alt + 1 /\ \A k \in 1..(N - 1) : stack'[k].alt = stack[k].alt
    BY <1>1, <2>1 DEF NewAlt
  <2>3. a[N] \in Nat /\ stack[N].alt \in Nat
    BY <1>1, <1>2, <1>3, <2>1
  <2>4. ASSUME NEW s \in 1..N
        PROVE  /\ (\A r \in 1..(s - 1) : a[r] = stack'[r].alt) <=> \A r \in 1..(s - 1) : a[r] = stack[r].alt
               /\ a[s] < stack'[s].alt <=> a[s] < stack[s].alt \/ (s = N /\ a[s] = stack[s].alt)
    <3>1. \A r \in 1..(s - 1) : stack'[r].alt = stack[r].alt
      BY <2>2
    <3>2. CASE s = N
      <4>1. a[N] < stack[N].alt + 1 <=> a[N] < stack[N].alt \/ a[N] = stack[N].alt
        BY <2>3
      <4>2. a[N] < stack'[N].alt <=> a[N] < stack[N].alt \/ a[N] = stack[N].alt
        BY <2>2, <4>1
      <4> QED BY <3>1, <3>2, <4>2
    <3>3. CASE s # N
      BY <2>2, <3>1, <3>3
    <3> QED BY <3>2, <3>3
  <2>5. (\A t \in 1..N : a[t] = NewAlt(t)) <=>
          (\A r \in 1..(N - 1) : a[r] = stack'[r].alt) /\ a[N] = stack'[N].alt
    <3>1. N \in 1..N /\ \A t \in 1..N : t = N \/ t \in 1..(N - 1)
      BY <1>1
    <3>2. \A t \in 1..(N - 1) : t \in 1..N
      OBVIOUS
    <3> QED BY <2>1, <3>1, <3>2
  <2>6. N \in 1..N
    BY <1>1
  <2> QED BY <1>5, <1>6, <2>1, <2>4, <2>5, <2>6
<1> QED BY <1>7, <1>8, <1>9, <1>10

(* No step but CallFunction touches the calls, and what lies behind stays *)
(* behind: CallsSoFar is kept.                                            *)
LEMMA CallsKept ==
  ASSUME Shape, Frames, Shape', CallsSoFar, Start \/ Continue \/ Return
  PROVE  CallsSoFar'
<1>1. PICK N \in Nat : N = Len(fan)
  BY Sizes
<1>2. PICK d \in Nat : d = Len(stack)
  BY Sizes
<1>3. calls' = calls /\ fan' = fan
  BY DEF Start, Continue, Return, input
<1>4. Args' = Args /\ Combos' = Combos
  BY <1>3 DEF Args, Combos
<1>5. \A a \in Combos : Behind(a)' <=> Behind(a)
  BY <1>1, <1>2, BehindSteps
<1>6. \A a, b : Before(a, b)' <=> Before(a, b)
  BY <1>4 DEF Before
<1> QED BY <1>3, <1>4, <1>5, <1>6 DEF CallsSoFar

(* CallFunction adds the combination it has just reached, which comes    *)
(* after every one behind it.                                            *)
LEMMA CallMade ==
  ASSUME Shape, Frames, Shape', CallsSoFar, CallFunction
  PROVE  CallsSoFar'
<1>1. PICK N \in Nat : N = Len(fan)
  BY Sizes
<1>2. PICK c \in Seq(ValueType) :
        /\ calls' = Append(calls, c) /\ DOMAIN c = 1..N
        /\ \A k \in 1..N : c[k].arg = k /\ c[k].alt = NewAlt(k)
  BY <1>1, CallEffect
<1>3. /\ More /\ N >= 1 /\ Len(stack) = N /\ pc = "visit" /\ input' = input
  BY <1>1, CallEffect
<1>4. fan' = fan /\ Args = 1..N /\ Args' = Args
  BY <1>1, <1>3 DEF input, Args
<1>5. Combos' = Combos /\ \A a, b : Before(a, b)' <=> Before(a, b)
  BY <1>4 DEF Combos, Before
<1> DEFINE b == Alts(c)
<1>6. DOMAIN b = 1..N /\ \A t \in 1..N : b[t] = NewAlt(t)
  BY <1>2 DEF Alts
<1>7. \A t \in 1..N : NewAlt(t) \in Nat /\ NewAlt(t) >= 1 /\ NewAlt(t) <= fan[t]
  BY <1>1, <1>3, PassedFields
<1>8. b \in Combos
  <2>1. \A t \in 1..N : fan[t] \in Nat /\ fan[t] <= MaxFan
    BY <1>4, Sizes
  <2>2. \A t \in 1..N : NewAlt(t) \in 1..MaxFan
    BY <1>7, <2>1, VisitTransformAssumption
  <2>3. b = [t \in 1..N |-> NewAlt(t)]
    BY <1>2 DEF Alts
  <2>4. b \in [1..N -> 1..MaxFan]
    BY <2>2, <2>3
  <2> HIDE DEF b
  <2> QED BY <1>4, <1>6, <1>7, <2>4 DEF Combos
<1> HIDE DEF b
<1>9. PICK L \in Nat : L = Len(calls)
  BY DEF CallsSoFar
<1>10. /\ calls \in Seq(Seq(ValueType)) /\ DOMAIN calls = 1..L
       /\ calls' \in Seq(Seq(ValueType)) /\ DOMAIN calls' = 1..(L + 1)
       /\ calls'[L + 1] = c /\ \A m \in 1..L : calls'[m] = calls[m]
  <2>1. calls \in Seq(Seq(ValueType))
    BY DEF CallsSoFar
  <2> QED BY <1>2, <1>9, <2>1
<1>11. \A m \in 1..(L + 1) : m \in 1..L \/ m = L + 1
  OBVIOUS
<1>12. \A m \in 1..L : m \in 1..(L + 1) /\ m < L + 1
  OBVIOUS
<1>13. \A m \in 1..L : /\ DOMAIN calls[m] = Args /\ Alts(calls[m]) \in Combos
                       /\ \A t \in Args : calls[m][t].arg = t
  BY <1>10 DEF CallsSoFar
<1>14. ASSUME NEW a \in Combos, Behind(a) PROVE Before(a, b)
  <2>1. PICK s \in 1..N : /\ \A r \in 1..(s - 1) : a[r] = stack[r].alt
                          /\ a[s] < stack[s].alt \/ (s = N /\ a[s] = stack[s].alt)
    <3>1. DOMAIN stack = 1..N
      BY <1>3, Sizes
    <3> QED BY <1>3, <1>14, <3>1 DEF Behind
  <2>2. \A r \in 1..(s - 1) : r \in 1..N /\ b[r] = stack[r].alt
    <3>1. \A r \in 1..(s - 1) : r \in 1..N /\ r # N
      OBVIOUS
    <3> QED BY <1>3, <1>6, <3>1 DEF NewAlt
  <2>3. a[s] < b[s]
    <3>1. a[s] \in Nat /\ stack[s].alt \in Nat
      <4>1. a \in [1..N -> 1..MaxFan]
        BY <1>4 DEF Combos
      <4>2. stack[s] \in FrameType
        BY <1>3, Sizes
      <4> QED BY <4>1, <4>2, VisitTransformAssumption DEF FrameType
    <3>2. b[s] = IF s = N THEN stack[s].alt + 1 ELSE stack[s].alt
      BY <1>3, <1>6 DEF NewAlt
    <3> QED BY <2>1, <3>1, <3>2
  <2> QED BY <1>4, <2>1, <2>2, <2>3 DEF Before
<1>15. \A a \in Combos : Behind(a) <=> \E m \in 1..L : Alts(calls[m]) = a
  BY <1>10 DEF CallsSoFar
<1>16. \A m \in 1..L : Before(Alts(calls[m]), b)
  BY <1>13, <1>14, <1>15
<1>17. \A m, n \in 1..L : m < n => Before(Alts(calls[m]), Alts(calls[n]))
  BY <1>10 DEF CallsSoFar
<1>18. ASSUME NEW m \in 1..(L + 1), NEW n \in 1..(L + 1), m < n
       PROVE  Before(Alts(calls'[m]), Alts(calls'[n]))
  <2>1. m \in 1..L
    BY <1>18
  <2>2. CASE n \in 1..L
    BY <1>10, <1>17, <1>18, <2>1, <2>2
  <2>3. CASE n = L + 1
    BY <1>10, <1>16, <2>1, <2>3 DEF b
  <2> QED BY <1>11, <2>2, <2>3
<1>19. ASSUME NEW a \in Combos
       PROVE  Behind(a)' <=> \E m \in 1..(L + 1) : Alts(calls'[m]) = a
  <2>1. Behind(a)' <=> Behind(a) \/ \A t \in 1..N : a[t] = NewAlt(t)
    BY <1>1, <1>3, BehindSteps
  <2>2. (\A t \in 1..N : a[t] = NewAlt(t)) <=> a = b
    <3>1. a \in [1..N -> 1..MaxFan] /\ b \in [1..N -> 1..MaxFan]
      BY <1>4, <1>8 DEF Combos
    <3> QED BY <1>6, <3>1
  <2>3. (\E m \in 1..(L + 1) : Alts(calls'[m]) = a) <=>
           (\E m \in 1..L : Alts(calls[m]) = a) \/ b = a
    <3>1. Alts(calls'[L + 1]) = b /\ L + 1 \in 1..(L + 1)
      BY <1>10 DEF b
    <3>2. \A m \in 1..L : Alts(calls'[m]) = Alts(calls[m])
      BY <1>10
    <3> QED BY <1>11, <1>12, <3>1, <3>2
  <2> QED BY <1>15, <2>1, <2>2, <2>3
<1>20. ASSUME NEW m \in 1..(L + 1)
       PROVE  /\ DOMAIN calls'[m] = Args /\ \A t \in Args : calls'[m][t].arg = t
              /\ Alts(calls'[m]) \in Combos
  <2>1. CASE m \in 1..L
    BY <1>10, <1>13, <2>1
  <2>2. CASE m = L + 1
    BY <1>2, <1>4, <1>8, <1>10, <2>2 DEF b
  <2> QED BY <1>11, <2>1, <2>2
<1> QED BY <1>4, <1>5, <1>10, <1>18, <1>19, <1>20 DEF CallsSoFar

(* What the function is given is stale only where a continuation was     *)
(* called again.                                                         *)
LEMMA StaleStep ==
  ASSUME Shape, Frames, Objects, CallsSoFar, NothingStaleButRepeats, Next
  PROVE  NothingStaleButRepeats'
<1>1. PICK N \in Nat : N = Len(fan)
  BY Sizes
<1>2. ASSUME Start \/ Continue \/ Return PROVE NothingStaleButRepeats'
  <2>1. calls' = calls /\ fan' = fan /\ category' = category /\ yields' = yields
    BY <1>2 DEF Start, Continue, Return, input
  <2>2. Args' = Args
    BY <2>1 DEF Args
  <2> QED BY <2>1, <2>2 DEF NothingStaleButRepeats
<1>3. ASSUME CallFunction PROVE NothingStaleButRepeats'
  <2>1. PICK c \in Seq(ValueType) :
          /\ calls' = Append(calls, c)
          /\ \A k \in 1..N : /\ c[k].alt = NewAlt(k)
                             /\ (c[k].fresh <=> stack[k].fresh /\ ~Passed[k].spent)
    BY <1>1, <1>3, CallEffect
  <2>2. More /\ N >= 1 /\ Len(stack) = N /\ input' = input
    BY <1>1, <1>3, CallEffect
  <2>3. fan' = fan /\ category' = category /\ yields' = yields /\ Args = 1..N /\ Args' = Args
    BY <1>1, <2>2 DEF input, Args
  <2>4. \A k \in 1..N : NewAlt(k) \in Nat /\ NewAlt(k) >= 1 /\ NewAlt(k) <= fan[k] /\ fan[k] \in Nat
    BY <1>1, <2>2, <2>3, PassedFields, Sizes
  <2>5. /\ \A k \in 1..(N - 1) : NewAlt(k) = stack[k].alt /\ (Passed[k].spent <=> stack[k].spent)
        /\ NewAlt(N) = stack[N].alt + 1 /\ ~Passed[N].spent /\ stack[N].alt \in Nat
    <3>1. \A k \in 1..(N - 1) : k # N
      OBVIOUS
    <3>2. stack[N] \in FrameType
      BY <2>2, Sizes
    <3>3. \A k \in 1..(N - 1) : (Passed[k].spent <=> stack[k].spent)
      BY <1>1, <2>2, PassedFields
    <3>4. ~Passed[N].spent
      BY <1>1, <2>2, PassedFields
    <3>5. stack[N].alt \in Nat
      BY <3>2 DEF FrameType
    <3> QED BY <2>2, <3>1, <3>3, <3>4, <3>5 DEF NewAlt
  <2>6. ASSUME NEW t \in 1..N
        PROVE  stack[t].fresh <=> (category[t] = "rvalue" => \A s \in 1..(t - 1) : c[s].alt = 1)
    <3>1. \A s \in 1..(t - 1) : s \in 1..N /\ s \in 1..(N - 1)
      OBVIOUS
    <3>2. \A s \in 1..(t - 1) : c[s].alt = stack[s].alt
      BY <2>1, <2>5, <3>1
    <3>3. t \in DOMAIN stack
      BY <2>2, Sizes
    <3>4. stack[t].fresh <=> (category[t] = "rvalue" => \A s \in 1..(t - 1) : stack[s].alt = 1)
      BY <3>3 DEF Objects
    <3> QED BY <3>2, <3>4
  <2>7. ASSUME NEW t \in 1..N
        PROVE  ~Passed[t].spent <=> (yields = "rvalue" => \A s \in (t + 1)..N : c[s].alt = 1)
    <3>1. CASE t = N
      <4>1. \A s \in (N + 1)..N : FALSE
        OBVIOUS
      <4> QED BY <2>5, <3>1, <4>1
    <3>2. CASE t # N
      <4>1. t \in 1..(N - 1) /\ t \in DOMAIN stack
        BY <2>2, <3>2, Sizes
      <4>2. \A s \in (t + 1)..N : s \in 1..N /\ fan[s] >= 1 /\ c[s].alt = NewAlt(s)
        <5>1. \A s \in (t + 1)..N : s \in 1..N
          OBVIOUS
        <5>2. \A s \in 1..N : fan[s] >= 1
          BY <2>4
        <5> QED BY <2>1, <5>1, <5>2
      <4>3. stack[t].spent <=> yields = "rvalue" /\ Later(t)
        BY <1>1, <4>1, <4>2 DEF Objects
      <4>4. Later(t) <=> stack[N].alt >= 1 \/ \E s \in (t + 1)..(N - 1) : stack[s].alt > 1
        BY <2>2 DEF Later, More
      <4>5. stack[N].alt >= 1 <=> NewAlt(N) # 1
        BY <2>5
      <4>6. \A s \in (t + 1)..(N - 1) : s \in 1..N /\ (stack[s].alt > 1 <=> NewAlt(s) # 1)
        <5>1. \A s \in (t + 1)..(N - 1) : s \in 1..N /\ s \in 1..(N - 1)
          OBVIOUS
        <5>2. \A s \in 1..N : NewAlt(s) > 1 <=> NewAlt(s) # 1
          BY <2>4
        <5> QED BY <2>5, <5>1, <5>2
      <4>7. /\ N \in (t + 1)..N /\ \A s \in (t + 1)..N : s = N \/ s \in (t + 1)..(N - 1)
            /\ \A s \in (t + 1)..(N - 1) : s \in (t + 1)..N
        BY <3>2
      <4>8. Later(t) <=> \E s \in (t + 1)..N : NewAlt(s) # 1
        BY <4>4, <4>5, <4>6, <4>7
      <4>9. Later(t) <=> ~\A s \in (t + 1)..N : c[s].alt = 1
        BY <4>2, <4>8
      <4> QED BY <2>5, <4>1, <4>3, <4>9
    <3> QED BY <3>1, <3>2
  <2>8. ToSet(calls') = ToSet(calls) \cup {c}
    <3>1. calls \in Seq(Seq(ValueType))
      BY DEF CallsSoFar
    <3>2. PICK q \in Seq(Seq(ValueType)) : q = calls
      BY <3>1
    <3>3. Append(q, c) \in Seq(Seq(ValueType)) /\ Len(Append(q, c)) = Len(q) + 1
          /\ Append(q, c)[Len(q) + 1] = c /\ \A m \in 1..Len(q) : Append(q, c)[m] = q[m]
      OBVIOUS
    <3>4. \A m \in 1..(Len(q) + 1) : m \in 1..Len(q) \/ m = Len(q) + 1
      OBVIOUS
    <3>5. Len(q) + 1 \in 1..(Len(q) + 1) /\ \A m \in 1..Len(q) : m \in 1..(Len(q) + 1)
      OBVIOUS
    <3>6. {Append(q, c)[m] : m \in 1..(Len(q) + 1)} = {q[m] : m \in 1..Len(q)} \cup {c}
      BY <3>3, <3>4, <3>5
    <3>7. DOMAIN q = 1..Len(q) /\ DOMAIN Append(q, c) = 1..(Len(q) + 1)
      BY <3>3
    <3>8. ToSet(q) = {q[m] : m \in 1..Len(q)}
      BY <3>7 DEF ToSet
    <3>9. ToSet(Append(q, c)) = {Append(q, c)[m] : m \in 1..(Len(q) + 1)}
      BY <3>7 DEF ToSet
    <3> QED BY <2>1, <3>2, <3>6, <3>8, <3>9
  <2>9. \A t \in 1..N :
          c[t].fresh <=> /\ category[t] = "rvalue" => \A s \in 1..(t - 1) : c[s].alt = 1
                         /\ yields = "rvalue" => \A s \in (t + 1)..Len(fan) : c[s].alt = 1
    BY <1>1, <2>1, <2>6, <2>7
  <2>10. \A f \in ToSet(calls') : f = c \/ f \in ToSet(calls)
    BY <2>8
  <2> DEFINE Rightly(f, t) ==
        f[t].fresh <=> /\ category[t] = "rvalue" => \A s \in 1..(t - 1) : f[s].alt = 1
                       /\ yields = "rvalue" => \A s \in (t + 1)..Len(fan) : f[s].alt = 1
  <2>11. \A f \in ToSet(calls), t \in 1..N : Rightly(f, t)
    BY <2>3 DEF NothingStaleButRepeats
  <2>12. \A t \in 1..N : Rightly(c, t)
    BY <2>9
  <2>13. ASSUME \A f \in ToSet(calls'), t \in 1..N : Rightly(f, t) PROVE NothingStaleButRepeats'
    BY <2>3, <2>13 DEF NothingStaleButRepeats
  <2> HIDE DEF Rightly
  <2>14. \A f \in ToSet(calls'), t \in 1..N : Rightly(f, t)
    BY <2>10, <2>11, <2>12
  <2> QED BY <2>13, <2>14
<1> QED BY <1>2, <1>3 DEF Next

-----------------------------------------------------------------------------
(* Before the call there is neither stack nor call.                      *)
LEMMA InitEstablishes ==
  ASSUME Init
  PROVE  VisitInv
<1>1. PICK k \in 1..MaxArgs : category \in [1..k -> Category] /\ fan \in [1..k -> 0..MaxFan]
  BY DEF Init
<1>2. k \in Nat /\ k >= 1 /\ MaxFan \in Nat
  BY VisitTransformAssumption
<1>3. fan \in Seq(0..MaxFan) /\ Len(fan) = k /\ Args = 1..k
  BY <1>1, <1>2 DEF Args
<1>4. /\ pc = "start" /\ stack = <<>> /\ moved = {} /\ calls = <<>>
      /\ visitor \in {"visit_transform", "visit_transform2"} /\ yields \in Category
  BY DEF Init
<1>5. stack \in Seq(FrameType) /\ Len(stack) = 0 /\ DOMAIN stack = {}
  BY <1>4
<1>6. Shape
  BY <1>1, <1>2, <1>3, <1>4, <1>5 DEF Shape
<1>7. Frames /\ Objects
  BY <1>5 DEF Frames, Objects
<1>8. MovedSoFar
  <2>1. ~Later(0)
    BY <1>4 DEF Later
  <2>2. \A t \in Args : ~(t <= Len(stack))
    BY <1>3, <1>5
  <2> QED BY <1>4, <2>1, <2>2 DEF MovedSoFar
<1>9. calls \in Seq(Seq(ValueType)) /\ DOMAIN calls = {}
  BY <1>4
<1>10. \A a : ~Behind(a)
  BY <1>4, <1>5 DEF Behind
<1>11. CallsSoFar
  BY <1>9, <1>10 DEF CallsSoFar
<1>12. NothingStaleButRepeats
  BY <1>9 DEF NothingStaleButRepeats, ToSet
<1> QED BY <1>6, <1>7, <1>8, <1>11, <1>12 DEF VisitInv

(* The stack, the objects and the calls stay as VisitInv has them through the *)
(* whole visit, by either visitor.                                            *)
THEOREM VisitInvariance == Spec => []VisitInv
<1>1. Init => VisitInv
  BY InitEstablishes
<1>2. ASSUME VisitInv, [Next]_vars PROVE VisitInv'
  <2>1. CASE Next
    <3>1. Shape'
      BY <1>2, <2>1, ShapeStep DEF VisitInv
    <3>2. Frames' /\ MovedSoFar' /\ Objects'
      BY <1>2, <2>1, <3>1, FramesStep, MovedStep, ObjectsStep DEF VisitInv
    <3>3. CallsSoFar'
      BY <1>2, <2>1, <3>1, CallsKept, CallMade DEF VisitInv, Next
    <3>4. NothingStaleButRepeats'
      BY <1>2, <2>1, StaleStep DEF VisitInv
    <3> QED BY <3>1, <3>2, <3>3, <3>4 DEF VisitInv
  <2>2. CASE UNCHANGED vars
    <3>1. /\ UNCHANGED <<visitor, category, fan, yields>>
          /\ UNCHANGED <<pc, stack, moved, calls>>
      BY <2>2 DEF vars, input
    <3>2. /\ Args' = Args /\ Combos' = Combos /\ \A a, b : Before(a, b)' <=> Before(a, b)
      BY <3>1 DEF Args, Combos, Before
    <3>3. /\ \A t : Given(t)' = Given(t) /\ (Later(t)' <=> Later(t))
      BY <3>1 DEF Given, Later
    <3>4. \A a : Behind(a)' <=> Behind(a)
      BY <3>1 DEF Behind
    <3>5. Shape' /\ Frames' /\ MovedSoFar' /\ Objects'
      BY <1>2, <3>1, <3>2, <3>3 DEF VisitInv, Shape, Frames, MovedSoFar, Objects
    <3>6. CallsSoFar'
      BY <1>2, <3>1, <3>2, <3>4 DEF VisitInv, CallsSoFar
    <3>7. NothingStaleButRepeats'
      BY <1>2, <3>1, <3>2 DEF VisitInv, NothingStaleButRepeats
    <3> QED BY <3>5, <3>6, <3>7 DEF VisitInv
  <2> QED BY <1>2, <2>1, <2>2
<1> QED BY <1>1, <1>2, PTL DEF Spec

(* Both visitors call the function once for every combination of         *)
(* alternatives, in lexicographic order, the results in the order of the *)
(* arguments.                                                            *)
THEOREM EachCombinationInOrder == Spec => []CallsInOrder
<1>1. ASSUME VisitInv PROVE CallsInOrder
  <2>1. Shape /\ CallsSoFar
    BY <1>1 DEF VisitInv
  <2>2. PICK N \in Nat : N = Len(fan) /\ Args = 1..N
    BY <2>1, Sizes
  <2>3. \A m \in DOMAIN calls : /\ calls[m] \in Seq(ValueType) /\ DOMAIN calls[m] = 1..N
                                /\ \A t \in Args : calls[m][t].arg = t
    BY <2>1, <2>2 DEF CallsSoFar
  <2>4. \A m \in DOMAIN calls : Len(calls[m]) = Len(fan)
    BY <2>2, <2>3
  <2>5. \A c \in ToSet(calls) : Len(c) = Len(fan) /\ \A t \in Args : c[t].arg = t
    BY <2>3, <2>4 DEF ToSet
  <2>6. \A m, n \in DOMAIN calls : m < n => Before(Alts(calls[m]), Alts(calls[n]))
    BY <2>1 DEF CallsSoFar
  <2>7. ASSUME pc = "done" PROVE {Alts(c) : c \in ToSet(calls)} = Combos
    <3>1. \A a \in Combos : Behind(a)
      BY <2>7 DEF Behind
    <3>2. \A a \in Combos : \E m \in DOMAIN calls : Alts(calls[m]) = a
      BY <2>1, <3>1 DEF CallsSoFar
    <3>3. \A m \in DOMAIN calls : Alts(calls[m]) \in Combos
      BY <2>1 DEF CallsSoFar
    <3> QED BY <3>2, <3>3 DEF ToSet
  <2> QED BY <2>5, <2>6, <2>7 DEF CallsInOrder, Combos
<1> QED BY <1>1, VisitInvariance, PTL

(* The function is given a moved-from value exactly where a continuation *)
(* was called again.                                                     *)
THEOREM NothingStale == Spec => []NothingStaleButRepeats
<1>1. VisitInv => NothingStaleButRepeats
  BY DEF VisitInv
<1> QED BY <1>1, VisitInvariance, PTL
-----------------------------------------------------------------------------
(***************************************************************************)
(* Generator: replaceAll and Generate.                                     *)
(***************************************************************************)

(* One turn of the recursion that Reference is, with f for what follows, *)
(* and the function it defines.                                          *)
Keep(f, s, k) == IF k = Len(s) THEN <<>> ELSE <<s[k + 1]>> \o f[k + 1]
Turn(f, s, old, new, k) ==
  IF k + Len(old) > Len(s) \/ SubSeq(s, k + 1, k + Len(old)) # old THEN Keep(f, s, k)
  ELSE new \o (IF Len(old) = 0 THEN Keep(f, s, k) ELSE f[k + Len(old)])
Recursion(f, s, old, new) == f = [k \in 0..Len(s) |-> Turn(f, s, old, new, k)]
From(s, old, new) == CHOOSE f : Recursion(f, s, old, new)

(* A turn looks only at what follows.                                    *)
LEMMA TurnLocal ==
  ASSUME NEW C, NEW s \in Seq(C), NEW old \in Seq(C), NEW new, NEW k \in 0..Len(s), NEW f, NEW g,
         \A j \in (k + 1)..Len(s) : f[j] = g[j]
  PROVE  Turn(f, s, old, new, k) = Turn(g, s, old, new, k)
<1>1. PICK N \in Nat, L \in Nat : N = Len(s) /\ L = Len(old)
  OBVIOUS
<1>2. Keep(f, s, k) = Keep(g, s, k)
  <2>1. CASE k = N
    BY <1>1, <2>1 DEF Keep
  <2>2. CASE k # N
    <3>1. k + 1 \in (k + 1)..N
      BY <1>1, <2>2
    <3> QED BY <1>1, <2>2, <3>1 DEF Keep
  <2> QED BY <2>1, <2>2
<1>3. ASSUME L # 0, ~(k + L > N) PROVE f[k + L] = g[k + L]
  <2>1. k + L \in (k + 1)..N
    BY <1>1, <1>3
  <2> QED BY <1>1, <2>1
<1> QED BY <1>1, <1>2, <1>3 DEF Turn

(* The recursion defines a function.                                     *)
LEMMA FromExists ==
  ASSUME NEW C, NEW s \in Seq(C), NEW old \in Seq(C), NEW new
  PROVE  \E f : Recursion(f, s, old, new)
<1>1. PICK N \in Nat : N = Len(s)
  OBVIOUS
<1> DEFINE Upto(e) == \E g : g = [k \in (N - e)..N |-> Turn(g, s, old, new, k)]
           Bad == {e \in 0..N : ~Upto(e)}
<1>2. Upto(0)
  <2> DEFINE g == [k \in (N - 0)..N |-> Turn(<<>>, s, old, new, k)]
  <2>1. \A k \in (N - 0)..N : k \in 0..N /\ \A j \in (k + 1)..N : FALSE
    OBVIOUS
  <2>2. \A k \in (N - 0)..N : Turn(<<>>, s, old, new, k) = Turn(g, s, old, new, k)
    BY <1>1, <2>1, TurnLocal
  <2>3. g = [k \in (N - 0)..N |-> Turn(g, s, old, new, k)]
    BY <2>2
  <2> QED BY <2>3
<1>3. ASSUME NEW e \in 1..N, Upto(e - 1) PROVE Upto(e)
  <2>1. PICK g : g = [k \in (N - (e - 1))..N |-> Turn(g, s, old, new, k)]
    BY <1>3
  <2> DEFINE h == [k \in (N - e)..N |-> IF k = N - e THEN Turn(g, s, old, new, k) ELSE g[k]]
  <2>2. ASSUME NEW k \in (N - e)..N PROVE h[k] = Turn(h, s, old, new, k)
    <3>1. \A j \in (k + 1)..N : g[j] = h[j]
      OBVIOUS
    <3>2. k \in 0..N
      OBVIOUS
    <3>3. Turn(g, s, old, new, k) = Turn(h, s, old, new, k)
      <4> HIDE DEF h
      <4> QED BY <1>1, <3>1, <3>2, TurnLocal
    <3>4. CASE k = N - e
      BY <3>3, <3>4
    <3>5. CASE k # N - e
      <4>1. k \in (N - (e - 1))..N
        BY <3>5
      <4>2. h[k] = g[k]
        BY <3>5
      <4> HIDE DEF h
      <4> QED BY <2>1, <3>3, <4>1, <4>2
    <3> QED BY <3>4, <3>5
  <2>3. h = [k \in (N - e)..N |-> h[k]]
    OBVIOUS
  <2> HIDE DEF h
  <2>4. h = [k \in (N - e)..N |-> Turn(h, s, old, new, k)]
    BY <2>2, <2>3
  <2> QED BY <2>4
<1> HIDE DEF Upto
<1>4. Bad = {}
  <2> SUFFICES ASSUME Bad # {} PROVE FALSE
    OBVIOUS
  <2>1. Bad \in SUBSET Nat
    OBVIOUS
  <2>2. PICK e \in Bad : \A y \in Bad : e <= y
    <3> HIDE DEF Bad
    <3> QED BY <2>1, LeastElement
  <2>3. e \in 0..N /\ ~Upto(e)
    OBVIOUS
  <2>4. e \in 1..N /\ e - 1 \in 0..N /\ ~(e <= e - 1)
    <3>1. e # 0
      BY <1>2, <2>3
    <3> QED BY <2>3, <3>1
  <2>5. Upto(e - 1)
    BY <2>2, <2>4
  <2> QED BY <1>3, <2>3, <2>4, <2>5
<1>5. Upto(N)
  BY <1>4
<1>6. N - N = 0
  OBVIOUS
<1> QED BY <1>1, <1>5, <1>6 DEF Upto, Recursion

(* ... of which this is each value.                                      *)
LEMMA FromStep ==
  ASSUME NEW C, NEW s \in Seq(C), NEW old \in Seq(C), NEW new \in Seq(C)
  PROVE  \A k \in 0..Len(s) : /\ From(s, old, new)[k] = Turn(From(s, old, new), s, old, new, k)
                              /\ From(s, old, new)[k] \in Seq(C)
<1>1. PICK N \in Nat, L \in Nat : N = Len(s) /\ L = Len(old)
  OBVIOUS
<1> DEFINE R == From(s, old, new)
<1>2. Recursion(R, s, old, new)
  BY FromExists DEF From
<1> HIDE DEF R
<1>3. \A k \in 0..N : R[k] = Turn(R, s, old, new, k)
  BY <1>1, <1>2 DEF Recursion
<1> DEFINE Bad == {e \in 0..N : R[N - e] \notin Seq(C)}
<1>4. Bad = {}
  <2> SUFFICES ASSUME Bad # {} PROVE FALSE
    OBVIOUS
  <2>1. Bad \in SUBSET Nat
    OBVIOUS
  <2>2. PICK e \in Bad : \A y \in Bad : e <= y
    <3> HIDE DEF Bad
    <3> QED BY <2>1, LeastElement
  <2>3. e \in 0..N /\ R[N - e] \notin Seq(C)
    OBVIOUS
  <2>4. PICK k \in 0..N : k = N - e
    BY <2>3
  <2>5. ASSUME NEW j \in (k + 1)..N PROVE R[j] \in Seq(C)
    <3>1. N - j \in 0..N /\ ~(e <= N - j) /\ N - (N - j) = j
      BY <2>3, <2>4
    <3>2. N - j \notin Bad
      <4> HIDE DEF Bad
      <4> QED BY <2>2, <3>1
    <3> QED BY <3>1, <3>2
  <2>6. Keep(R, s, k) \in Seq(C)
    <3>1. CASE k = N
      BY <1>1, <3>1 DEF Keep
    <3>2. CASE k # N
      <4>1. k + 1 \in (k + 1)..N /\ k + 1 \in 1..N
        BY <3>2
      <4>2. <<s[k + 1]>> \in Seq(C) /\ R[k + 1] \in Seq(C)
        BY <1>1, <2>5, <4>1
      <4> QED BY <1>1, <3>2, <4>2, ConcatProperties DEF Keep
    <3> QED BY <3>1, <3>2
  <2>7. ASSUME L # 0, ~(k + L > N) PROVE R[k + L] \in Seq(C)
    <3>1. k + L \in (k + 1)..N
      BY <2>7
    <3> QED BY <2>5, <3>1
  <2>8. Turn(R, s, old, new, k) \in Seq(C)
    BY <1>1, <2>6, <2>7, ConcatProperties DEF Turn
  <2> QED BY <1>3, <2>3, <2>4, <2>8
<1>5. ASSUME NEW k \in 0..N PROVE R[k] \in Seq(C)
  <2>1. N - k \in 0..N /\ N - (N - k) = k
    OBVIOUS
  <2>2. N - k \notin Bad
    <3> HIDE DEF Bad
    <3> QED BY <1>4
  <2> QED BY <2>1, <2>2
<1> QED BY <1>1, <1>3, <1>5 DEF R

(* Reference is that function from the beginning of the text.            *)
LEMMA ReferenceIs ==
  ASSUME NEW s, NEW old, NEW new
  PROVE  Reference(s, old, new) = From(s, old, new)[0]
BY Zenon DEF Reference, From, Recursion, Turn, Keep

-----------------------------------------------------------------------------
(* Concatenation and substrings under names that the provers do not open. *)
Cat(x, y) == x \o y

(* The characters of s from position k up to m.                          *)
Cut(s, k, m) == SubSeq(s, k + 1, m)

(* old occurs in text s at position q.                                   *)
Occurs(s, old, q) == q + Len(old) <= Len(s) /\ \A j \in 1..Len(old) : s[q + j] = old[j]

(* It does not at positions k up to m.                                   *)
Free(s, old, k, m) == \A q \in k..(m - 1) : ~Occurs(s, old, q)

(* It occurs where the substring there is old.                           *)
LEMMA OccursIs ==
  ASSUME NEW C, NEW s \in Seq(C), NEW old \in Seq(C), NEW q \in Nat
  PROVE  q + Len(old) <= Len(s) /\ Cut(s, q, q + Len(old)) = old <=> Occurs(s, old, q)
<1>1. PICK N \in Nat, L \in Nat : N = Len(s) /\ L = Len(old)
  OBVIOUS
<1> SUFFICES ASSUME q + L <= N
             PROVE  SubSeq(s, q + 1, q + L) = old <=> \A j \in 1..L : s[q + j] = old[j]
  BY <1>1 DEF Occurs, Cut
<1>2. \A j \in (q + 1)..(q + L) : s[j] \in C
  BY <1>1
<1>3. /\ SubSeq(s, q + 1, q + L) \in Seq(C)
      /\ Len(SubSeq(s, q + 1, q + L)) = L
      /\ \A j \in 1..L : SubSeq(s, q + 1, q + L)[j] = s[q + j]
  <2>1. q + 1 \in Int /\ q + L \in Int /\ (q + L) - (q + 1) + 1 = L
        /\ (IF q + 1 <= q + L THEN (q + L) - (q + 1) + 1 ELSE 0) = L
    OBVIOUS
  <2>2. \A j \in 1..L : (q + 1) + j - 1 = q + j
    OBVIOUS
  <2>3. /\ SubSeq(s, q + 1, q + L) \in Seq(C)
        /\ Len(SubSeq(s, q + 1, q + L)) = L
        /\ \A j \in 1..L : SubSeq(s, q + 1, q + L)[j] = s[(q + 1) + j - 1]
    BY <1>2, <2>1, SubSeqProperties
  <2> QED BY <2>2, <2>3
<1>4. ASSUME \A j \in 1..L : s[q + j] = old[j] PROVE SubSeq(s, q + 1, q + L) = old
  <2>1. \A j \in 1..L : SubSeq(s, q + 1, q + L)[j] = old[j]
    BY <1>3, <1>4
  <2> QED BY <1>1, <1>3, <2>1, SeqEqual
<1> QED BY <1>3, <1>4

(* Concatenation is associative.                                         *)
LEMMA Assoc ==
  ASSUME NEW C, NEW x \in Seq(C), NEW y \in Seq(C), NEW z \in Seq(C)
  PROVE  Cat(Cat(x, y), z) = Cat(x, Cat(y, z))
BY DEF Cat

(* Where old does not occur, the reference copies.                       *)
LEMMA Skip ==
  ASSUME NEW C, NEW s \in Seq(C), NEW N \in Nat, N = Len(s),
         NEW old \in Seq(C), NEW new \in Seq(C), NEW k \in 0..N, NEW m \in k..N,
         Free(s, old, k, m)
  PROVE  From(s, old, new)[k] = Cat(Cut(s, k, m), From(s, old, new)[m])
<1> DEFINE R == From(s, old, new)
<1>1. N = Len(s)
  OBVIOUS
<1>2. \A j \in 0..N : R[j] = Turn(R, s, old, new, j) /\ R[j] \in Seq(C)
  BY <1>1, FromStep
<1> HIDE DEF R
<1> DEFINE Holds(e) == R[m - e] = SubSeq(s, m - e + 1, m) \o R[m]
           Bad == {e \in 0..(m - k) : ~Holds(e)}
<1>3. Holds(0)
  <2>1. SubSeq(s, m - 0 + 1, m) = <<>>
    BY <1>1, SubSeqEmpty
  <2>2. R[m] \in Seq(C) /\ m - 0 = m
    BY <1>1, <1>2
  <2> QED BY <2>1, <2>2, ConcatEmptySeq
<1>4. ASSUME NEW e \in 1..(m - k), Holds(e - 1) PROVE Holds(e)
  <2>1. PICK j \in k..(m - 1) : j = m - e /\ m - (e - 1) = j + 1 /\ j + 1 \in 1..N /\ j \in 0..N /\ j # N
    BY <1>1
  <2>2. R[j + 1] = SubSeq(s, j + 2, m) \o R[m]
    <3>1. m - (e - 1) + 1 = j + 2
      BY <2>1
    <3> QED BY <1>4, <2>1, <3>1
  <2>3. R[j] = <<s[j + 1]>> \o R[j + 1]
    <3>1. ~Occurs(s, old, j)
      BY <2>1 DEF Free
    <3>2. j + Len(old) > Len(s) \/ SubSeq(s, j + 1, j + Len(old)) # old
      <4>1. ~(j + Len(old) <= Len(s) /\ Cut(s, j, j + Len(old)) = old)
        BY <2>1, <3>1, OccursIs
      <4> QED BY <1>1, <2>1, <4>1 DEF Cut
    <3>3. Turn(R, s, old, new, j) = Keep(R, s, j)
      BY <3>2 DEF Turn
    <3> QED BY <1>1, <1>2, <2>1, <3>3 DEF Keep
  <2>4. SubSeq(s, j + 1, m) = <<s[j + 1]>> \o SubSeq(s, (j + 1) + 1, m)
    <3>1. j + 1 \in 1..Len(s) /\ m \in (j + 1)..Len(s)
      BY <1>1, <2>1
    <3> QED BY <3>1, SubSeqRecursiveFirst
  <2>5. <<s[j + 1]>> \in Seq(C) /\ SubSeq(s, j + 2, m) \in Seq(C) /\ R[m] \in Seq(C)
    <3>1. s[j + 1] \in C /\ R[m] \in Seq(C)
      BY <1>1, <1>2, <2>1
    <3>2. \A x \in (j + 2)..m : s[x] \in C
      BY <1>1, <2>1
    <3>3. j + 2 \in Int /\ m \in Int
      OBVIOUS
    <3> QED BY <3>1, <3>2, <3>3, SubSeqProperties
  <2>6. (<<s[j + 1]>> \o SubSeq(s, j + 2, m)) \o R[m] = <<s[j + 1]>> \o (SubSeq(s, j + 2, m) \o R[m])
    <3>1. PICK x \in Seq(C), y \in Seq(C), z \in Seq(C) :
            x = <<s[j + 1]>> /\ y = SubSeq(s, j + 2, m) /\ z = R[m]
      BY <2>5
    <3>2. Cat(Cat(x, y), z) = Cat(x, Cat(y, z))
      BY Assoc
    <3> QED BY <3>1, <3>2 DEF Cat
  <2>7. (j + 1) + 1 = j + 2 /\ m - e + 1 = j + 1 /\ m - e = j
    BY <2>1
  <2> QED BY <2>2, <2>3, <2>4, <2>6, <2>7
<1> HIDE DEF Holds
<1>5. Bad = {}
  <2> SUFFICES ASSUME Bad # {} PROVE FALSE
    OBVIOUS
  <2>1. Bad \in SUBSET Nat
    OBVIOUS
  <2>2. PICK e \in Bad : \A y \in Bad : e <= y
    <3> HIDE DEF Bad
    <3> QED BY <2>1, LeastElement
  <2>3. e \in 0..(m - k) /\ ~Holds(e)
    OBVIOUS
  <2>4. e \in 1..(m - k) /\ e - 1 \in 0..(m - k) /\ ~(e <= e - 1)
    <3>1. e # 0
      BY <1>3, <2>3
    <3> QED BY <1>1, <2>3, <3>1
  <2>5. Holds(e - 1)
    BY <2>2, <2>4
  <2> QED BY <1>4, <2>3, <2>4, <2>5
<1>6. m - k \in 0..(m - k) /\ m - (m - k) = k /\ m - (m - k) + 1 = k + 1
  BY <1>1
<1>7. Holds(m - k)
  BY <1>5, <1>6
<1> QED BY <1>6, <1>7 DEF Holds, R, Cut, Cat

(* z has the characters of x and then those of y.                        *)
IsConcat(z, x, y) ==
  /\ Len(z) = Len(x) + Len(y)
  /\ \A j \in 1..Len(x) : z[j] = x[j]
  /\ \A j \in 1..Len(y) : z[Len(x) + j] = y[j]

(* A concatenation has these characters,                                 *)
LEMMA ConcatIs ==
  ASSUME NEW C, NEW x \in Seq(C), NEW y \in Seq(C)
  PROVE  Cat(x, y) \in Seq(C) /\ IsConcat(Cat(x, y), x, y)
<1>1. PICK M \in Nat, E \in Nat : M = Len(x) /\ E = Len(y)
  OBVIOUS
<1>2. /\ x \o y \in Seq(C) /\ Len(x \o y) = M + E
      /\ \A j \in 1..(M + E) : (x \o y)[j] = IF j <= M THEN x[j] ELSE y[j - M]
  BY <1>1, ConcatProperties
<1>3. \A j \in 1..M : j \in 1..(M + E) /\ j <= M
  OBVIOUS
<1>4. \A j \in 1..E : M + j \in 1..(M + E) /\ ~(M + j <= M) /\ (M + j) - M = j
  OBVIOUS
<1> QED BY <1>1, <1>2, <1>3, <1>4 DEF IsConcat, Cat

(* r has the characters of s from position k up to m.                    *)
IsCut(r, s, k, m) == Len(r) = m - k /\ \A j \in 1..(m - k) : r[j] = s[k + j]

(* and a cut has those.                                                  *)
LEMMA CutIs ==
  ASSUME NEW C, NEW s \in Seq(C), NEW N \in Nat, N = Len(s), NEW k \in 0..N, NEW m \in k..N
  PROVE  Cut(s, k, m) \in Seq(C) /\ IsCut(Cut(s, k, m), s, k, m)
<1>1. \A j \in (k + 1)..m : s[j] \in C
  OBVIOUS
<1>2. /\ k + 1 \in Int /\ m \in Int /\ m - (k + 1) + 1 = m - k
      /\ (IF k + 1 <= m THEN m - (k + 1) + 1 ELSE 0) = m - k
  OBVIOUS
<1>3. \A j \in 1..(m - k) : (k + 1) + j - 1 = k + j
  OBVIOUS
<1>4. /\ SubSeq(s, k + 1, m) \in Seq(C) /\ Len(SubSeq(s, k + 1, m)) = m - k
      /\ \A j \in 1..(m - k) : SubSeq(s, k + 1, m)[j] = s[(k + 1) + j - 1]
  BY <1>1, <1>2, SubSeqProperties
<1> QED BY <1>3, <1>4 DEF Cut, IsCut

(* t is out and the rest of s from position k.                           *)
Partly(t, out, s, k) == t = Cat(out, Cut(s, k, Len(s)))

(* The same, character by character.                                     *)
IsPartly(t, out, s, k) ==
  /\ Len(t) = Len(out) + (Len(s) - k)
  /\ \A j \in 1..Len(out) : t[j] = out[j]
  /\ \A j \in 1..(Len(s) - k) : t[Len(out) + j] = s[k + j]

(* The one follows from the other.                                       *)
LEMMA PartlyIs ==
  ASSUME NEW C, NEW s \in Seq(C), NEW N \in Nat, N = Len(s), NEW out \in Seq(C), NEW k \in 0..N,
         NEW t, Partly(t, out, s, k)
  PROVE  t \in Seq(C) /\ IsPartly(t, out, s, k)
<1>1. PICK r \in Seq(C) : r = Cut(s, k, N) /\ IsCut(r, s, k, N)
  <2>1. N \in k..N
    OBVIOUS
  <2> QED BY <2>1, CutIs
<1>2. t = Cat(out, r)
  BY <1>1 DEF Partly
<1>3. PICK M \in Nat, E \in Nat : M = Len(out) /\ E = N - k
  <2>1. N - k \in Nat /\ Len(out) \in Nat
    OBVIOUS
  <2> QED BY <2>1
<1>4. Len(r) = E /\ \A j \in 1..E : r[j] = s[k + j]
  BY <1>1, <1>3 DEF IsCut
<1>5. /\ t \in Seq(C) /\ Len(t) = M + E /\ \A j \in 1..M : t[j] = out[j]
      /\ \A j \in 1..E : t[M + j] = r[j]
  <2>1. Len(r) \in Nat /\ IsConcat(t, out, r) /\ t \in Seq(C)
    BY <1>2, ConcatIs
  <2> QED BY <1>3, <1>4, <2>1 DEF IsConcat
<1>6. \A j \in 1..E : t[M + j] = s[k + j]
  BY <1>4, <1>5
<1> QED BY <1>3, <1>5, <1>6 DEF IsPartly

(* In the rest, old occurs where it occurs in s.                         *)
LEMMA OccursShifted ==
  ASSUME NEW C, NEW s \in Seq(C), NEW old \in Seq(C), NEW out \in Seq(C), NEW N \in Nat, N = Len(s),
         NEW k \in 0..N, NEW t, IsPartly(t, out, s, k), NEW x \in Nat
  PROVE  Occurs(t, old, Len(out) + x) <=> Occurs(s, old, k + x)
<1>1. PICK M \in Nat, L \in Nat, E \in Nat : M = Len(out) /\ L = Len(old) /\ E = N - k
  <2>1. N - k \in Nat /\ Len(out) \in Nat /\ Len(old) \in Nat
    OBVIOUS
  <2> QED BY <2>1
<1>2. Len(t) = M + E /\ \A j \in 1..E : t[M + j] = s[k + j]
  BY <1>1 DEF IsPartly
<1>3. M + x + L <= M + E <=> k + x + L <= N
  BY <1>1
<1>4. ASSUME k + x + L <= N, NEW j \in 1..L PROVE t[M + x + j] = s[k + x + j]
  <2>1. x + j \in 1..E /\ M + (x + j) = M + x + j /\ k + (x + j) = k + x + j
    BY <1>1, <1>4
  <2>2. t[M + (x + j)] = s[k + (x + j)]
    BY <1>2, <2>1
  <2> QED BY <2>1, <2>2
<1>5. Occurs(t, old, M + x) <=> M + x + L <= M + E /\ \A j \in 1..L : t[M + x + j] = old[j]
  BY <1>1, <1>2 DEF Occurs
<1>6. Occurs(s, old, k + x) <=> k + x + L <= N /\ \A j \in 1..L : s[k + x + j] = old[j]
  BY <1>1 DEF Occurs
<1> QED BY <1>1, <1>3, <1>4, <1>5, <1>6

(* Where t is free of old in the rest, s is.                             *)
LEMMA FreeShifted ==
  ASSUME NEW C, NEW s \in Seq(C), NEW old \in Seq(C), NEW out \in Seq(C), NEW N \in Nat, N = Len(s),
         NEW k \in 0..N, NEW t, IsPartly(t, out, s, k), NEW x \in Nat,
         NEW p, p = Len(out) + x, Free(t, old, Len(out), p), NEW m, m = k + x
  PROVE  Free(s, old, k, m)
<1> SUFFICES ASSUME NEW q \in k..(k + x - 1) PROVE ~Occurs(s, old, q)
  BY DEF Free
<1>1. PICK M \in Nat : M = Len(out)
  OBVIOUS
<1>2. PICK y \in Nat : y = q - k
  <2>1. q - k \in Nat
    OBVIOUS
  <2> QED BY <2>1
<1>3. q = k + y /\ M + y \in M..(M + x - 1)
  BY <1>2
<1>4. ~Occurs(t, old, M + y)
  BY <1>1, <1>3 DEF Free
<1>5. Occurs(t, old, Len(out) + y) <=> Occurs(s, old, k + y)
  BY OccursShifted
<1> QED BY <1>1, <1>3, <1>4, <1>5

(* If old does not occur in the rest, the text is what the reference gives.*)
LEMMA NoneLeft ==
  ASSUME NEW C, NEW s \in Seq(C), NEW old \in Seq(C), NEW new \in Seq(C), NEW out \in Seq(C),
         NEW N \in Nat, N = Len(s), NEW k \in 0..N, NEW t, Partly(t, out, s, k),
         Free(t, old, Len(out), Len(t) + 1)
  PROVE  t = Cat(out, From(s, old, new)[k])
<1> DEFINE R == From(s, old, new)
<1>1. PICK M \in Nat : M = Len(out)
  OBVIOUS
<1>2. t \in Seq(C) /\ IsPartly(t, out, s, k)
  BY PartlyIs
<1>3. Len(t) = M + (N - k)
  BY <1>1, <1>2 DEF IsPartly
<1>4. PICK x \in Nat : x = N - k + 1 /\ Len(t) + 1 = M + x /\ N + 1 = k + x
  <2>1. N - k + 1 \in Nat
    OBVIOUS
  <2> QED BY <1>1, <1>3, <2>1
<1>5. Free(s, old, k, N + 1)
  <2>1. PICK p, m : p = Len(out) + x /\ m = k + x
    OBVIOUS
  <2>2. p = Len(t) + 1 /\ m = N + 1
    BY <1>1, <1>4, <2>1
  <2>3. Free(s, old, k, m)
    BY <1>2, <2>1, <2>2, FreeShifted
  <2> QED BY <2>2, <2>3
<1>6. Free(s, old, k, N)
  BY <1>5 DEF Free
<1>7. R[k] = Cat(Cut(s, k, N), R[N])
  <2>1. PICK m \in k..N : m = N
    OBVIOUS
  <2>2. Free(s, old, k, m)
    BY <1>6, <2>1
  <2>3. From(s, old, new)[k] = Cat(Cut(s, k, m), From(s, old, new)[m])
    BY <2>2, Skip
  <2> QED BY <2>1, <2>3
<1>8. R[N] = <<>>
  <2>1. N \in 0..N /\ N \in k..((N + 1) - 1)
    OBVIOUS
  <2>2. R[N] = Turn(R, s, old, new, N)
    BY <2>1, FromStep
  <2>3. ~Occurs(s, old, N)
    BY <1>5, <2>1 DEF Free
  <2>4. ~(N + Len(old) <= Len(s) /\ Cut(s, N, N + Len(old)) = old)
    BY <2>3, OccursIs
  <2>5. N + Len(old) > Len(s) \/ SubSeq(s, N + 1, N + Len(old)) # old
    BY <2>4 DEF Cut
  <2> HIDE DEF R
  <2> QED BY <2>2, <2>5 DEF Turn, Keep
<1>9. Cut(s, k, N) \in Seq(C)
  <2>1. N \in k..N
    OBVIOUS
  <2> QED BY <2>1, CutIs
<1>10. R[k] = Cut(s, k, N)
  <2> HIDE DEF R
  <2> QED BY <1>7, <1>8, <1>9, ConcatEmptySeq DEF Cat
<1> QED BY <1>10 DEF Partly

(* Position p of out and the rest is position m of s.                    *)
SamePlace(p, out, m, k) == p = Len(out) + (m - k)

(* The text before such a position.                                      *)
LEMMA CutFront ==
  ASSUME NEW C, NEW s \in Seq(C), NEW out \in Seq(C), NEW N \in Nat, N = Len(s), NEW k \in 0..N,
         NEW t \in Seq(C), IsPartly(t, out, s, k),
         NEW p \in Nat, NEW m \in k..N, SamePlace(p, out, m, k)
  PROVE  Cut(t, 0, p) = Cat(out, Cut(s, k, m))
<1>1. PICK M \in Nat, x \in Nat : M = Len(out) /\ p = M + x /\ m = k + x
  <2>1. Len(out) \in Nat /\ m - k \in Nat
    OBVIOUS
  <2> QED BY <2>1 DEF SamePlace
<1>2. Len(t) = M + (N - k) /\ (\A j \in 1..M : t[j] = out[j]) /\ \A j \in 1..(N - k) : t[M + j] = s[k + j]
  BY <1>1 DEF IsPartly
<1>3. PICK u \in Seq(C) : u = Cut(t, 0, p) /\ IsCut(u, t, 0, p)
  <2>1. p \in 0..Len(t) /\ 0 \in 0..Len(t) /\ Len(t) \in Nat
    BY <1>1, <1>2
  <2> QED BY <2>1, CutIs
<1>4. PICK a \in Seq(C) : a = Cut(s, k, m) /\ IsCut(a, s, k, m)
  BY <1>1, CutIs
<1>5. PICK v \in Seq(C) : v = Cat(out, a) /\ IsConcat(v, out, a)
  BY ConcatIs
<1>6. Len(u) = p /\ \A j \in 1..p : u[j] = t[j]
  BY <1>3 DEF IsCut
<1>7. Len(a) = x /\ \A j \in 1..x : a[j] = s[k + j]
  <2>1. m - k = x
    BY <1>1
  <2>2. Len(a) = m - k /\ \A j \in 1..(m - k) : a[j] = s[k + j]
    BY <1>4 DEF IsCut
  <2> QED BY <2>1, <2>2
<1>8. Len(v) = p /\ (\A j \in 1..M : v[j] = out[j]) /\ \A j \in 1..x : v[M + j] = s[k + j]
  BY <1>1, <1>5, <1>7 DEF IsConcat
<1>9. ASSUME NEW j \in 1..p PROVE u[j] = v[j]
  <2>1. CASE j \in 1..M
    BY <1>2, <1>6, <1>8, <2>1
  <2>2. CASE j \notin 1..M
    <3>1. PICK y \in 1..x : j = M + y /\ y \in 1..(N - k)
      <4>1. j - M \in 1..x /\ j = M + (j - M) /\ j - M \in 1..(N - k)
        BY <1>1, <2>2
      <4> QED BY <4>1
    <3> QED BY <1>2, <1>6, <1>8, <3>1
  <2> QED BY <2>1, <2>2
<1>10. u = v
  BY <1>6, <1>8, <1>9, SeqEqual
<1> QED BY <1>3, <1>4, <1>5, <1>10

(* The text behind such a position.                                      *)
LEMMA CutBack ==
  ASSUME NEW C, NEW s \in Seq(C), NEW out \in Seq(C), NEW N \in Nat, N = Len(s), NEW k \in 0..N,
         NEW t \in Seq(C), IsPartly(t, out, s, k),
         NEW p \in Nat, NEW m \in k..N, SamePlace(p, out, m, k)
  PROVE  Cut(t, p, Len(t)) = Cut(s, m, N)
<1>1. PICK M \in Nat, x \in Nat : M = Len(out) /\ p = M + x /\ m = k + x
  <2>1. Len(out) \in Nat /\ m - k \in Nat
    OBVIOUS
  <2> QED BY <2>1 DEF SamePlace
<1>2. Len(t) = M + (N - k) /\ \A j \in 1..(N - k) : t[M + j] = s[k + j]
  BY <1>1 DEF IsPartly
<1>3. PICK T \in Nat : T = Len(t)
  OBVIOUS
<1>4. PICK u \in Seq(C) : u = Cut(t, p, T) /\ IsCut(u, t, p, T)
  <2>1. p \in 0..T /\ T \in p..T
    BY <1>1, <1>2, <1>3
  <2> QED BY <1>3, <2>1, CutIs
<1>5. PICK a \in Seq(C) : a = Cut(s, m, N) /\ IsCut(a, s, m, N)
  <2>1. m \in 0..N /\ N \in m..N
    BY <1>1
  <2> QED BY <2>1, CutIs
<1>6. T - p = N - m /\ N - m \in Nat
  BY <1>1, <1>2, <1>3
<1>7. Len(u) = N - m /\ \A j \in 1..(N - m) : u[j] = t[p + j]
  BY <1>4, <1>6 DEF IsCut
<1>8. Len(a) = N - m /\ \A j \in 1..(N - m) : a[j] = s[m + j]
  BY <1>5 DEF IsCut
<1>9. ASSUME NEW j \in 1..(N - m) PROVE u[j] = a[j]
  <2>1. x + j \in 1..(N - k) /\ M + (x + j) = p + j /\ k + (x + j) = m + j
    BY <1>1, <1>6
  <2>2. t[p + j] = s[m + j]
    BY <1>2, <2>1
  <2> QED BY <1>7, <1>8, <2>2
<1>10. u = a
  BY <1>7, <1>8, <1>9, SeqEqual
<1> QED BY <1>3, <1>4, <1>5, <1>10

-----------------------------------------------------------------------------
(* At an occurrence of old the reference puts in new and goes on after it. *)
LEMMA FromOccurs ==
  ASSUME NEW C, NEW s \in Seq(C), NEW old \in Seq(C), NEW new \in Seq(C),
         NEW N \in Nat, N = Len(s), NEW k \in 0..N, Occurs(s, old, k),
         Len(old) # 0, NEW R, R = From(s, old, new), NEW e, e = k + Len(old)
  PROVE  R[k] = Cat(new, R[e])
<1>1. k + Len(old) <= Len(s) /\ Cut(s, k, k + Len(old)) = old
  BY OccursIs
<1>2. From(s, old, new)[k] = Turn(From(s, old, new), s, old, new, k)
  BY FromStep
<1>3. ~(k + Len(old) > Len(s) \/ SubSeq(s, k + 1, k + Len(old)) # old)
  BY <1>1 DEF Cut
<1>4. Turn(From(s, old, new), s, old, new, k)
        = new \o From(s, old, new)[k + Len(old)]
  BY <1>3 DEF Turn
<1> QED BY <1>2, <1>4 DEF Cat

(* z has new at its end, from position p on.                             *)
EndsIn(z, new, p) == Len(z) = p + Len(new) /\ \A j \in 1..Len(new) : z[p + j] = new[j]

(* u is what a turn of replaceAll leaves that finds old, not empty, at p in *)
(* the rest, and e the place of s behind it: the part done grows up to the  *)
(* end of new.                                                              *)
FoundTurn(C, u, s, old, new, out, k, p, e) ==
  /\ e \in 0..Len(s)
  /\ \E z \in Seq(C) : /\ Partly(u, z, s, e)
                       /\ Cat(out, From(s, old, new)[k]) = Cat(z, From(s, old, new)[e])
                       /\ EndsIn(z, new, p)

LEMMA ReplaceFound ==
  ASSUME NEW C, NEW s \in Seq(C), NEW old \in Seq(C), NEW new \in Seq(C), NEW out \in Seq(C),
         NEW N \in Nat, N = Len(s), NEW k \in 0..N, NEW t, Partly(t, out, s, k),
         NEW p \in Nat, NEW x \in Nat, p = Len(out) + x, Occurs(t, old, p), Free(t, old, Len(out), p),
         Len(old) # 0, NEW u, u = replace(t, p, Len(old), new), NEW e \in Nat, e = k + x + Len(old)
  PROVE  FoundTurn(C, u, s, old, new, out, k, p, e)
<1>0. PICK R : R = From(s, old, new)
  OBVIOUS
<1>1. PICK L \in Nat, m \in Nat : L = Len(old) /\ m = k + x /\ e = m + L
  <2>1. Len(old) \in Nat /\ k + x \in Nat
    OBVIOUS
  <2> QED BY <2>1
<1>2. t \in Seq(C) /\ IsPartly(t, out, s, k)
  BY PartlyIs
<1>3. Occurs(s, old, m)
  BY <1>1, <1>2, OccursShifted
<1>4. m \in 0..N /\ m \in k..N /\ e \in 0..N /\ e <= N
  <2>1. m + Len(old) <= Len(s)
    BY <1>3 DEF Occurs
  <2> QED BY <1>1, <2>1
<1>5. PICK a \in Seq(C) : a = Cut(s, k, m)
  BY <1>4, CutIs
<1>6. R[k] = Cat(a, R[m])
  <2>1. Free(s, old, k, m)
    BY <1>1, <1>2, FreeShifted
  <2>2. From(s, old, new)[k] = Cat(Cut(s, k, m), From(s, old, new)[m])
    BY <1>4, <2>1, Skip
  <2> QED BY <1>0, <1>5, <2>2
<1>7. R[m] = Cat(new, R[e])
  BY <1>0, <1>1, <1>3, <1>4, FromOccurs
<1>8. R[e] \in Seq(C) /\ R[m] \in Seq(C) /\ R[k] \in Seq(C)
  BY <1>0, <1>4, FromStep
<1>9. PICK v \in Seq(C), z \in Seq(C) : v = Cat(out, a) /\ z = Cat(v, new)
  BY ConcatIs
<1>10. Cat(out, R[k]) = Cat(z, R[e])
  <2>1. PICK f \in Seq(C), g \in Seq(C), h \in Seq(C) : f = R[k] /\ g = R[m] /\ h = R[e]
    BY <1>8
  <2>2. f = Cat(a, g) /\ g = Cat(new, h)
    BY <1>6, <1>7, <2>1
  <2>3. Cat(v, g) = Cat(out, f)
    BY <1>9, <2>2, Assoc
  <2>4. Cat(z, h) = Cat(v, g)
    BY <1>9, <2>2, Assoc
  <2> QED BY <2>1, <2>3, <2>4
<1>11. Len(v) = p
  <2>1. IsConcat(v, out, a) /\ IsCut(a, s, k, m)
    BY <1>4, <1>5, <1>9, ConcatIs, CutIs
  <2> QED BY <1>1, <2>1 DEF IsConcat, IsCut
<1>12. EndsIn(z, new, p)
  <2>1. IsConcat(z, v, new)
    BY <1>9, ConcatIs
  <2> QED BY <1>11, <2>1 DEF IsConcat, EndsIn
<1>13. Cut(t, 0, p) = v
  <2>1. SamePlace(p, out, m, k)
    BY <1>1 DEF SamePlace
  <2>2. Cut(t, 0, p) = Cat(out, Cut(s, k, m))
    BY <1>2, <1>4, <2>1, CutFront
  <2> QED BY <1>5, <1>9, <2>2
<1>14. Cut(t, p + L, Len(t)) = Cut(s, e, N)
  <2>1. PICK M \in Nat, q \in Nat : M = Len(out) /\ q = p + L
    <3>1. Len(out) \in Nat /\ p + L \in Nat
      OBVIOUS
    <3> QED BY <3>1
  <2>2. SamePlace(q, out, e, k) /\ e \in k..N
    BY <1>1, <1>4, <2>1 DEF SamePlace
  <2>3. Cut(t, q, Len(t)) = Cut(s, e, N)
    BY <1>2, <2>1, <2>2, CutBack
  <2> QED BY <2>1, <2>3
<1>15. Partly(replace(t, p, L, new), z, s, e)
  <2>1. replace(t, p, L, new) = Cat(Cat(Cut(t, 0, p), new), Cut(t, p + L, Len(t)))
    <3>1. 0 + 1 = 1
      OBVIOUS
    <3> QED BY <3>1 DEF replace, Cut, Cat
  <2> QED BY <1>9, <1>13, <1>14, <2>1 DEF Partly
<1> QED BY <1>0, <1>1, <1>4, <1>10, <1>12, <1>15 DEF FoundTurn

(* u is what such a turn leaves if old is empty, and occurs at once: the *)
(* part done grows by new and the next character, if there is one.       *)
EmptyTurn(C, u, s, old, new, out, k) ==
  IF k = Len(s)
  THEN u \in Seq(C) /\ u = Cat(out, From(s, old, new)[k]) /\ Len(u) = Len(out) + Len(new)
  ELSE \E z \in Seq(C) :
         /\ Partly(u, z, s, k + 1)
         /\ Cat(out, From(s, old, new)[k]) = Cat(z, From(s, old, new)[k + 1])
         /\ Len(z) = Len(out) + Len(new) + 1

(* That is what it leaves.                                               *)
LEMMA ReplaceEmpty ==
  ASSUME NEW C, NEW s \in Seq(C), NEW old \in Seq(C), NEW new \in Seq(C), NEW out \in Seq(C),
         NEW N \in Nat, N = Len(s), NEW k \in 0..N, NEW t, Partly(t, out, s, k),
         NEW p \in Nat, p = Len(out), Len(old) = 0, NEW u, u = replace(t, p, Len(old), new)
  PROVE  EmptyTurn(C, u, s, old, new, out, k)
<1>0. PICK R : R = From(s, old, new)
  OBVIOUS
<1>1. t \in Seq(C) /\ IsPartly(t, out, s, k)
  BY PartlyIs
<1>3. R[k] = Cat(new, Keep(R, s, k))
  <2>1. k + Len(old) = k /\ k <= Len(s) /\ old = <<>>
    BY EmptySeq
  <2>2. SubSeq(s, k + 1, k) = <<>>
    <3>1. k < k + 1 /\ k \in Int /\ k + 1 \in Int
      OBVIOUS
    <3> QED BY <3>1, SubSeqEmpty
  <2>3. From(s, old, new)[k] = Turn(From(s, old, new), s, old, new, k)
    <3>1. \A j \in 0..Len(s) : From(s, old, new)[j] = Turn(From(s, old, new), s, old, new, j)
      BY FromStep, ZenonT(60)
    <3> QED BY <3>1
  <2>4. ~(k + Len(old) > Len(s) \/ SubSeq(s, k + 1, k + Len(old)) # old)
    BY <2>1, <2>2
  <2> QED BY <1>0, <2>3, <2>4 DEF Turn, Cat
<1>4. \A j \in 0..N : R[j] \in Seq(C)
  BY <1>0, FromStep
<1>5. PICK v \in Seq(C) : v = Cat(out, new) /\ Len(v) = p + Len(new)
  <2>1. Cat(out, new) \in Seq(C) /\ IsConcat(Cat(out, new), out, new)
    BY ConcatIs
  <2> QED BY <2>1 DEF IsConcat
<1>6. replace(t, p, Len(old), new) = Cat(v, Cut(s, k, N))
  <2>1. Cut(t, 0, p) = out /\ Cut(t, p, Len(t)) = Cut(s, k, N)
    <3>1. PICK m \in k..N : m = k /\ SamePlace(p, out, m, k)
      BY DEF SamePlace
    <3>2. Cut(t, 0, p) = Cat(out, Cut(s, k, m))
      BY <1>1, <3>1, CutFront
    <3>3. Cut(t, p, Len(t)) = Cut(s, m, N)
      BY <1>1, <3>1, CutBack
    <3>4. Cut(s, k, k) = <<>>
      <4>1. k < k + 1 /\ k \in Int /\ k + 1 \in Int
        OBVIOUS
      <4> QED BY <4>1, SubSeqEmpty DEF Cut
    <3>5. Cat(out, <<>>) = out
      BY ConcatEmptySeq DEF Cat
    <3> QED BY <3>1, <3>2, <3>3, <3>4, <3>5
  <2>2. replace(t, p, Len(old), new) = Cat(Cat(Cut(t, 0, p), new), Cut(t, p, Len(t)))
    <3>1. 0 + 1 = 1 /\ p + Len(old) + 1 = p + 1
      OBVIOUS
    <3> QED BY <3>1 DEF replace, Cut, Cat
  <2> QED BY <1>5, <2>1, <2>2
<1>7. CASE k = N
  <2>1. Keep(R, s, k) = <<>> /\ Cat(new, <<>>) = new
    BY <1>7, ConcatEmptySeq DEF Keep, Cat
  <2>2. Cut(s, k, N) = <<>>
    <3>1. N < N + 1 /\ N + 1 \in Int /\ N \in Int
      OBVIOUS
    <3> QED BY <1>7, <3>1, SubSeqEmpty DEF Cut
  <2>3. Cat(v, <<>>) = v
    BY ConcatEmptySeq DEF Cat
  <2> QED BY <1>3, <1>5, <1>6, <1>7, <2>1, <2>2, <2>3, <1>0 DEF EmptyTurn
<1>8. CASE k # N
  <2>1. PICK m \in 1..N : m = k + 1
    BY <1>8
  <2>2. PICK c \in Seq(C) : c = <<s[m]>> /\ Len(c) = 1
    <3>1. s[m] \in C
      BY <2>1
    <3>2. <<s[m]>> \in Seq(C) /\ Len(<<s[m]>>) = 1
      BY <3>1
    <3> QED BY <3>2
  <2>3. PICK z \in Seq(C) : z = Cat(v, c) /\ Len(z) = p + Len(new) + 1
    <3>1. Cat(v, c) \in Seq(C) /\ IsConcat(Cat(v, c), v, c)
      BY ConcatIs
    <3> QED BY <1>5, <2>2, <3>1 DEF IsConcat
  <2>4. R[m] \in Seq(C) /\ Keep(R, s, k) = Cat(c, R[m])
    BY <1>4, <1>8, <2>1, <2>2 DEF Keep, Cat
  <2>5. PICK w \in Seq(C) : w = Cat(c, R[m]) /\ R[k] = Cat(new, w)
    BY <1>3, <2>4, ConcatIs
  <2>6. Cat(out, R[k]) = Cat(z, R[m])
    <3>1. PICK f \in Seq(C), g \in Seq(C) : f = R[k] /\ g = R[m] /\ f = Cat(new, w) /\ w = Cat(c, g)
      BY <1>4, <2>1, <2>4, <2>5
    <3>2. Cat(v, w) = Cat(out, f)
      BY <1>5, <3>1, Assoc
    <3>3. Cat(z, g) = Cat(v, w)
      BY <2>3, <3>1, Assoc
    <3> QED BY <3>1, <3>2, <3>3
  <2>7. PICK r \in Seq(C) : r = Cut(s, m, N)
    <3>1. m \in 0..N /\ N \in m..N
      OBVIOUS
    <3> QED BY <3>1, CutIs
  <2>8. Cut(s, k, N) = Cat(c, r)
    <3>1. m \in 1..Len(s) /\ N \in m..Len(s)
      OBVIOUS
    <3>2. SubSeq(s, m, N) = <<s[m]>> \o SubSeq(s, m + 1, N)
      BY <3>1, SubSeqRecursiveFirst
    <3> QED BY <2>1, <2>2, <2>7, <3>2 DEF Cut, Cat
  <2>9. Cat(v, Cut(s, k, N)) = Cat(z, r)
    <3>1. PICK y \in Seq(C) : y = Cut(s, k, N) /\ y = Cat(c, r)
      BY <2>8, ConcatIs
    <3>2. Cat(z, r) = Cat(v, y)
      BY <2>3, <3>1, Assoc
    <3> QED BY <3>1, <3>2
  <2>10. Partly(replace(t, p, Len(old), new), z, s, k + 1)
    BY <1>6, <2>1, <2>7, <2>9 DEF Partly
  <2> QED BY <1>8, <2>1, <2>3, <2>6, <2>10, <1>0 DEF EmptyTurn
<1> QED BY <1>7, <1>8

(* What find promises.                                                   *)
Found(t, old, from, p) ==
  IF p = npos THEN Free(t, old, from, Len(t) + 1)
  ELSE p \in Nat /\ p >= from /\ p <= Len(t) /\ Occurs(t, old, p) /\ Free(t, old, from, p)

(* find keeps it, in a text that is shorter than npos.                   *)
LEMMA FindIs ==
  ASSUME NEW C, NEW t \in Seq(C), NEW old \in Seq(C), NEW from \in Nat, NEW p, p = find(t, old, from),
         npos \in Nat, Len(t) < npos
  PROVE  Found(t, old, from, p)
<1>1. PICK T \in Nat, L \in Nat : T = Len(t) /\ L = Len(old)
  OBVIOUS
<1> DEFINE S == {q \in from..(T - L) : SubSeq(t, q + 1, q + L) = old}
<1>2. p = IF S = {} THEN npos ELSE Min(S)
  BY <1>1 DEF find
<1>3. ASSUME NEW q \in Nat PROVE q \in S <=> q >= from /\ Occurs(t, old, q)
  <2>1. q + Len(old) <= Len(t) /\ Cut(t, q, q + Len(old)) = old <=> Occurs(t, old, q)
    BY OccursIs
  <2>2. q + L <= T /\ SubSeq(t, q + 1, q + L) = old <=> Occurs(t, old, q)
    BY <1>1, <2>1 DEF Cut
  <2> QED BY <2>2
<1>4. S \in SUBSET Nat /\ \A q \in S : q <= T
  OBVIOUS
<1> HIDE DEF S
<1>5. CASE S = {}
  <2>1. ASSUME NEW q \in from..(T + 1 - 1) PROVE ~Occurs(t, old, q)
    BY <1>3, <1>5
  <2> QED BY <1>1, <1>2, <1>5, <2>1 DEF Found, Free
<1>6. CASE S # {}
  <2>1. \E x \in S : \A y \in S : x <= y
    BY <1>4, <1>6, LeastElement
  <2>2. p \in S /\ \A y \in S : p <= y
    BY <1>2, <1>6, <2>1 DEF Min
  <2>3. p \in Nat /\ p <= T /\ p >= from /\ Occurs(t, old, p) /\ p # npos
    BY <1>1, <1>3, <1>4, <2>2
  <2>4. ASSUME NEW q \in from..(p - 1) PROVE ~Occurs(t, old, q)
    <3>1. q \in Nat /\ q >= from /\ ~(p <= q)
      BY <2>3
    <3> QED BY <1>3, <2>2, <3>1
  <2> QED BY <1>1, <2>3, <2>4 DEF Found, Free
<1> QED BY <1>5, <1>6

(* No occurrence of old lies across the end of what was put in, if the two *)
(* are apart.                                                              *)
LEMMA NotAcross ==
  ASSUME NEW C, NEW old \in Seq(C), NEW new \in Seq(C), NEW z \in Seq(C), NEW p \in Nat, EndsIn(z, new, p),
         NEW s, NEW k, NEW u, IsPartly(u, z, s, k), Separate(old, new),
         NEW from \in Nat, from = p + Len(new) - Len(old) + 1
  PROVE  Free(u, old, from, Len(z))
<1>1. PICK V \in Nat, L \in Nat : V = Len(new) /\ L = Len(old)
  OBVIOUS
<1>2. /\ Len(z) = p + V
      /\ \A j \in 1..V : z[p + j] = new[j]
      /\ \A j \in 1..(p + V) : u[j] = z[j]
  BY <1>1 DEF EndsIn, IsPartly
<1> SUFFICES ASSUME NEW q \in from..(p + V - 1), Occurs(u, old, q) PROVE FALSE
  BY <1>2 DEF Free
<1>3. V + 1 >= L /\ \A n \in 1..V : n < L => SubSeq(new, V - n + 1, V) # SubSeq(old, 1, n)
  BY <1>1 DEF Separate
<1>4. PICK n \in 1..V : n = p + V - q /\ n < L /\ V - n + p = q
  <2>1. from = p + V - L + 1 /\ q >= from /\ q <= p + V - 1 /\ q \in Int /\ from \in Nat
    BY <1>1
  <2>2. p + V - q \in 1..V /\ p + V - q < L /\ V - (p + V - q) + p = q
    BY <1>3, <2>1
  <2> QED BY <2>2
<1>5. ASSUME NEW j \in 1..n PROVE old[j] = new[V - n + j]
  <2>1. j \in 1..L /\ q + j \in 1..(p + V) /\ V - n + j \in 1..V /\ p + (V - n + j) = q + j
    BY <1>4
  <2>2. u[q + j] = old[j]
    BY <1>1, <2>1 DEF Occurs
  <2> QED BY <1>2, <2>1, <2>2
<1>6. /\ SubSeq(new, V - n + 1, V) \in Seq(C) /\ Len(SubSeq(new, V - n + 1, V)) = n
      /\ \A j \in 1..n : SubSeq(new, V - n + 1, V)[j] = new[V - n + j]
  <2>1. PICK k0 \in 0..V : k0 = V - n
    OBVIOUS
  <2>2. Cut(new, k0, V) \in Seq(C) /\ IsCut(Cut(new, k0, V), new, k0, V)
    <3>1. V \in k0..V
      OBVIOUS
    <3> QED BY <1>1, <3>1, CutIs
  <2>3. V - k0 = n
    BY <2>1
  <2> QED BY <2>1, <2>2, <2>3 DEF Cut, IsCut
<1>7. /\ SubSeq(old, 1, n) \in Seq(C) /\ Len(SubSeq(old, 1, n)) = n
      /\ \A j \in 1..n : SubSeq(old, 1, n)[j] = old[j]
  <2>1. PICK k0 \in 0..L : k0 = 0 /\ n \in k0..L
    BY <1>4
  <2>2. Cut(old, k0, n) \in Seq(C) /\ IsCut(Cut(old, k0, n), old, k0, n)
    BY <1>1, <2>1, CutIs
  <2>3. 0 + 1 = 1 /\ n - 0 = n /\ \A j \in 1..n : 0 + j = j
    OBVIOUS
  <2> QED BY <2>1, <2>2, <2>3 DEF Cut, IsCut
<1>8. PICK a \in Seq(C), b \in Seq(C) : a = SubSeq(new, V - n + 1, V) /\ b = SubSeq(old, 1, n)
  BY <1>6, <1>7
<1>9. Len(a) = Len(b) /\ \A j \in 1..Len(a) : a[j] = b[j]
  BY <1>5, <1>6, <1>7, <1>8
<1>10. a = b
  BY <1>9, SeqEqual
<1> QED BY <1>3, <1>4, <1>8, <1>10

(* The bounds keep the lengths within a size_t.                          *)
LEMMA Grow ==
  ASSUME NEW k \in Nat, NEW e \in Nat \ {0}, NEW B \in Nat \ {0}
  PROVE  (k + e) * B >= k * B + (e - 1) + B
<1>1. (k + e) * B = k * B + e * B
  OBVIOUS
<1>2. e * B = (e - 1) * B + B
  OBVIOUS
<1>3. (e - 1) * B >= e - 1
  OBVIOUS
<1>4. k * B \in Nat /\ e * B \in Nat /\ (e - 1) * B \in Nat
  OBVIOUS
<1> QED BY <1>1, <1>2, <1>3, <1>4

(* Where replaceAll stands in t, a text made from s: out is done, up to  *)
(* position k of s, and no occurrence is left from where the search goes *)
(* on to the end of out;                                                 *)
DoneUpTo(s, old, new, t, from, out, k) ==
  /\ Partly(t, out, s, k)
  /\ Reference(s, old, new) = Cat(out, From(s, old, new)[k])
  /\ Len(out) <= k * (MaxValue + 1)
  /\ from \in Nat /\ from <= Len(out) /\ (Len(old) = 0 => from = Len(out))
  /\ Free(t, old, from, Len(out))

(* or the empty old was replaced behind the last character too.          *)
DoneBehind(s, old, new, t, from) ==
  /\ Len(old) = 0 /\ t \in Seq(Chars) /\ t = Reference(s, old, new)
  /\ from = Len(t) + 1 /\ Len(t) <= Len(s) * (MaxValue + 1) + MaxValue

Text(x, n) == x \in Seq(Chars) /\ Len(x) <= n

(* A size_t holds the longest text that can be reached,                  *)
LEMMA Small ==
  ASSUME NEW n \in Nat, n <= MaxSrc
  PROVE  n * (MaxValue + 1) + MaxValue + 1 < 2 ^ Width
<1>1. PICK B \in Nat \ {0}, W \in Nat, m \in Nat : B = MaxValue + 1 /\ W = 2 ^ Width /\ m = MaxSrc
  BY GeneratorAssumption
<1>2. W > (m + 1) * B + MaxValue /\ MaxValue \in Nat
  BY <1>1, GeneratorAssumption
<1>3. n * B + B <= (m + 1) * B
  <2>1. PICK e \in Nat : e = m - n
    <3>1. m - n \in Nat
      BY <1>1
    <3> QED BY <3>1
  <2>2. m + 1 = n + (e + 1) /\ (e + 1) \in Nat \ {0}
    BY <2>1
  <2>3. (n + (e + 1)) * B >= n * B + ((e + 1) - 1) + B
    BY <2>2, Grow
  <2>4. n * B \in Nat
    OBVIOUS
  <2> QED BY <2>2, <2>3, <2>4
<1>4. n * B \in Nat /\ (m + 1) * B \in Nat
  OBVIOUS
<1> QED BY <1>1, <1>2, <1>3, <1>4

(* so each text under way is shorter than npos.                          *)
LEMMA TextFits ==
  ASSUME NEW s, Text(s, MaxSrc), NEW old, NEW new, NEW t, NEW from, NEW out \in Seq(Chars),
         NEW k \in 0..Len(s), DoneUpTo(s, old, new, t, from, out, k)
  PROVE  /\ t \in Seq(Chars) /\ IsPartly(t, out, s, k)
         /\ Len(t) + MaxValue + 1 < 2 ^ Width
         /\ npos \in Nat /\ Len(t) < npos
<1>1. PICK N \in Nat : N = Len(s) /\ s \in Seq(Chars) /\ N <= MaxSrc
  BY DEF Text
<1>2. PICK B \in Nat \ {0}, W \in Nat : B = MaxValue + 1 /\ W = 2 ^ Width /\ MaxValue \in Nat
  BY GeneratorAssumption
<1>3. t \in Seq(Chars) /\ IsPartly(t, out, s, k)
  BY <1>1, PartlyIs DEF DoneUpTo
<1>4. Len(t) = Len(out) + (N - k) /\ Len(out) <= k * B /\ Len(out) \in Nat /\ Len(t) \in Nat
  BY <1>1, <1>2, <1>3 DEF IsPartly, DoneUpTo
<1>5. k * B + (N - k) <= N * B
  <2>1. CASE k = N
    BY <2>1
  <2>2. CASE k # N
    <3>1. PICK e \in Nat \ {0} : e = N - k /\ k + e = N
      <4>1. N - k \in Nat \ {0}
        BY <1>1, <2>2
      <4> QED BY <4>1
    <3>2. (k + e) * B >= k * B + (e - 1) + B
      BY <1>1, Grow
    <3>3. k * B \in Nat /\ N * B \in Nat
      BY <1>1
    <3> QED BY <3>1, <3>2, <3>3
  <2> QED BY <2>1, <2>2
<1>6. N * B + B < W
  <2>1. N * (MaxValue + 1) + MaxValue + 1 < 2 ^ Width
    BY <1>1, Small
  <2>2. N * B \in Nat
    OBVIOUS
  <2> QED BY <1>2, <2>1, <2>2
<1>7. Len(t) + B < W
  <2>1. k * B \in Nat /\ N * B \in Nat
    BY <1>1
  <2> QED BY <1>1, <1>4, <1>5, <1>6, <2>1
<1>8. npos \in Nat /\ Len(t) < npos
  BY <1>2, <1>4, <1>7 DEF npos
<1> QED BY <1>2, <1>3, <1>4, <1>7, <1>8

UnderWay(s, old, new, t, from) ==
  \/ \E k \in 0..Len(s), out \in Seq(Chars) : DoneUpTo(s, old, new, t, from, out, k)
  \/ DoneBehind(s, old, new, t, from)

(* It is so at the beginning;                                            *)
LEMMA ReplaceBegins ==
  ASSUME NEW s \in Seq(Chars), NEW old \in Seq(Chars), NEW new \in Seq(Chars)
  PROVE  UnderWay(s, old, new, s, 0)
<1>1. PICK N \in Nat, out \in Seq(Chars) : N = Len(s) /\ out = <<>> /\ Len(out) = 0
  <2>1. Len(s) \in Nat /\ <<>> \in Seq(Chars) /\ Len(<<>>) = 0
    OBVIOUS
  <2> QED BY <2>1
<1>2. Partly(s, out, s, 0)
  <2>1. SubSeq(s, 1, Len(s)) = s /\ 0 + 1 = 1
    BY SubSeqFull
  <2>2. <<>> \o s = s
    BY ConcatEmptySeq
  <2> QED BY <1>1, <2>1, <2>2 DEF Partly, Cat, Cut
<1>3. Reference(s, old, new) = Cat(out, From(s, old, new)[0])
  <2>1. Reference(s, old, new) = From(s, old, new)[0]
    BY ReferenceIs
  <2>2. From(s, old, new)[0] \in Seq(Chars)
    <3>1. 0 \in 0..Len(s)
      BY <1>1
    <3> QED BY <3>1, FromStep
  <2>3. <<>> \o From(s, old, new)[0] = From(s, old, new)[0]
    BY <2>2, ConcatEmptySeq
  <2> QED BY <1>1, <2>1, <2>3 DEF Cat
<1>4. Free(s, old, 0, Len(out))
  BY <1>1 DEF Free
<1>5. Len(out) <= 0 * (MaxValue + 1)
  <2>1. MaxValue + 1 \in Nat
    BY GeneratorAssumption
  <2>2. 0 * (MaxValue + 1) = 0
    BY <2>1
  <2> QED BY <1>1, <2>2
<1>6. DoneUpTo(s, old, new, s, 0, out, 0)
  BY <1>1, <1>2, <1>3, <1>4, <1>5 DEF DoneUpTo
<1>7. 0 \in 0..Len(s)
  BY <1>1
<1> QED BY <1>6, <1>7 DEF UnderWay

(* The next occurrence is not in what is done.                           *)
LEMMA NextFound ==
  ASSUME NEW C, NEW t \in Seq(C), NEW old \in Seq(C), NEW M \in Nat, NEW from \in Nat,
         from <= M, M <= Len(t),
         Free(t, old, from, M), NEW p, Found(t, old, from, p)
  PROVE  IF p = npos THEN Free(t, old, M, Len(t) + 1)
         ELSE /\ p \in Nat /\ p >= M /\ Occurs(t, old, p) /\ Free(t, old, M, p)
              /\ Len(old) = 0 /\ from = M => p = M
<1>1. CASE p = npos
  <2>1. Free(t, old, from, Len(t) + 1)
    BY <1>1 DEF Found
  <2> QED BY <1>1, <2>1 DEF Free
<1>2. CASE p # npos
  <2>1. p \in Nat /\ p >= from /\ p <= Len(t) /\ Occurs(t, old, p) /\ Free(t, old, from, p)
    BY <1>2 DEF Found
  <2>2. p >= M
    BY <2>1 DEF Free
  <2>3. Free(t, old, M, p)
    BY <2>1, <2>2 DEF Free
  <2>4. ASSUME Len(old) = 0, from = M PROVE p = M
    <3>1. Occurs(t, old, M)
      BY <2>4 DEF Occurs
    <3>2. ~(M \in from..(p - 1))
      BY <2>1, <3>1 DEF Free
    <3> QED BY <2>1, <2>2, <2>4, <3>2
  <2> QED BY <1>2, <2>1, <2>2, <2>3, <2>4
<1> QED BY <1>1, <1>2

(* Behind the end nothing is found.                                      *)
LEMMA NothingBehind ==
  ASSUME NEW s, NEW old \in Seq(Chars), NEW new, NEW t, NEW from, DoneBehind(s, old, new, t, from)
  PROVE  find(t, old, from) = npos
<1>1. from \in Nat /\ from = Len(t) + 1 /\ Len(t) \in Nat
  BY DEF DoneBehind
<1>2. from..(Len(t) - Len(old)) = {}
  BY <1>1
<1> QED BY <1>2 DEF find

(* it is so when the search ends, and then the text is the reference's;  *)
LEMMA ReplaceEnds ==
  ASSUME NEW s, Text(s, MaxSrc), NEW old \in Seq(Chars), NEW new \in Seq(Chars),
         NEW t, NEW from, UnderWay(s, old, new, t, from), find(t, old, from) = npos
  PROVE  t = Reference(s, old, new)
<1>1. ASSUME NEW k \in 0..Len(s), NEW out \in Seq(Chars), DoneUpTo(s, old, new, t, from, out, k)
      PROVE  t = Reference(s, old, new)
  <2>1. /\ t \in Seq(Chars) /\ IsPartly(t, out, s, k)
        /\ npos \in Nat /\ Len(t) < npos
    BY <1>1, TextFits
  <2>2. PICK N \in Nat, M \in Nat : N = Len(s) /\ s \in Seq(Chars) /\ M = Len(out)
    BY DEF Text
  <2>3. from \in Nat /\ from <= M /\ M <= Len(t) /\ Free(t, old, from, M) /\ Partly(t, out, s, k)
    BY <1>1, <2>1, <2>2 DEF DoneUpTo, IsPartly
  <2>4. Found(t, old, from, npos)
    BY <2>1, <2>3, FindIs
  <2>5. Free(t, old, M, Len(t) + 1)
    BY <2>1, <2>3, <2>4, NextFound
  <2>6. t = Cat(out, From(s, old, new)[k])
    BY <2>2, <2>3, <2>5, NoneLeft
  <2> QED BY <1>1, <2>6 DEF DoneUpTo
<1>2. CASE DoneBehind(s, old, new, t, from)
  BY <1>2 DEF DoneBehind
<1> QED BY <1>1, <1>2 DEF UnderWay

(* Step, of any texts;                                                   *)
NextPlace(p, old, new) == (p + Len(new) - Len(old) + 1) % 2 ^ Width

(* and a turn keeps it so.                                               *)
LEMMA ReplaceGoesOn ==
  ASSUME NEW s, Text(s, MaxSrc), NEW old, Text(old, MaxValue), NEW new, Text(new, MaxValue),
         Separate(old, new), NEW t, NEW from, UnderWay(s, old, new, t, from),
         NEW p, p = find(t, old, from), p # npos,
         NEW u, u = replace(t, p, Len(old), new), NEW on, on = NextPlace(p, old, new)
  PROVE  UnderWay(s, old, new, u, on)
<1>1. PICK k \in 0..Len(s), out \in Seq(Chars) : DoneUpTo(s, old, new, t, from, out, k)
  BY NothingBehind DEF UnderWay, Text
<1>2. PICK N \in Nat, M \in Nat, V \in Nat, L \in Nat :
          /\ N = Len(s) /\ M = Len(out) /\ V = Len(new) /\ L = Len(old)
          /\ s \in Seq(Chars) /\ old \in Seq(Chars) /\ new \in Seq(Chars)
          /\ V <= MaxValue /\ MaxValue \in Nat
  BY GeneratorAssumption DEF Text
<1>3. /\ t \in Seq(Chars) /\ IsPartly(t, out, s, k)
      /\ Len(t) + MaxValue + 1 < 2 ^ Width
      /\ npos \in Nat /\ Len(t) < npos
  BY <1>1, TextFits
<1>4. /\ from \in Nat /\ from <= M /\ M <= Len(t) /\ Free(t, old, from, M) /\ Partly(t, out, s, k)
      /\ L = 0 => from = M
      /\ M <= k * (MaxValue + 1)
      /\ Reference(s, old, new) = Cat(out, From(s, old, new)[k])
  BY <1>1, <1>2, <1>3 DEF DoneUpTo, IsPartly
<1>5. Found(t, old, from, p)
  BY <1>2, <1>3, <1>4, FindIs
<1>6. p \in Nat /\ p >= M /\ Occurs(t, old, p) /\ Free(t, old, M, p) /\ (L = 0 => p = M)
  BY <1>2, <1>3, <1>4, <1>5, NextFound
<1>7. V + 1 >= L
  BY <1>2 DEF Separate
<1>8. N \in Nat /\ M \in Nat /\ V \in Nat /\ L \in Nat /\ V <= MaxValue /\ MaxValue \in Nat
  BY <1>2
<1>9. p \in Nat /\ p >= M /\ (L = 0 => p = M)
  BY <1>6
<1>10. on = p + V - L + 1 /\ on \in Nat
  <2>1. p + L <= Len(t) /\ Len(t) \in Nat
    BY <1>2, <1>3, <1>6 DEF Occurs
  <2>2. on = p + V - L + 1
    <3>1. p + V - L + 1 \in Nat /\ p + V - L + 1 <= Len(t) + MaxValue + 1
      <4>1. PICK T \in Nat : T = Len(t) /\ p + L <= T
        BY <2>1
      <4>2. p + V - L + 1 \in Nat /\ p + V - L + 1 <= T + MaxValue + 1
        BY <1>7, <1>8, <1>9, <4>1, SMTT(30)
      <4> QED BY <4>1, <4>2
    <3>2. PICK W \in Nat : W = 2 ^ Width /\ Len(t) + MaxValue + 1 < W
      BY <1>3, GeneratorAssumption
    <3>3. p + V - L + 1 \in 0..(W - 1)
      BY <1>8, <2>1, <3>1, <3>2
    <3>4. PICK y \in 0..(W - 1) : y = p + V - L + 1
      BY <3>3
    <3>5. on = y % W
      BY <1>2, <3>2, <3>4 DEF NextPlace
    <3> QED BY <3>4, <3>5
  <2> QED BY <1>7, <1>8, <1>9, <2>2
<1>11. PICK B \in Nat \ {0} : B = MaxValue + 1 /\ V + 1 <= B /\ k * B \in Nat /\ M <= k * B
  <2>1. MaxValue + 1 \in Nat \ {0} /\ k \in Nat /\ V + 1 <= MaxValue + 1
    BY <1>2, GeneratorAssumption
  <2> QED BY <1>4, <2>1
<1>12. CASE L = 0
  <2>1. EmptyTurn(Chars, u, s, old, new, out, k)
    BY <1>2, <1>4, <1>6, <1>12, ReplaceEmpty
  <2>2. CASE k = N
    <3>1. u \in Seq(Chars) /\ u = Reference(s, old, new) /\ Len(u) = p + V /\ on = Len(u) + 1
      <4>1. u \in Seq(Chars) /\ u = Cat(out, From(s, old, new)[k]) /\ Len(u) = M + V
        BY <1>2, <2>1, <2>2 DEF EmptyTurn
      <4>2. Len(u) = p + V /\ on = Len(u) + 1
        BY <1>8, <1>9, <1>10, <1>12, <4>1
      <4> QED BY <1>4, <4>1, <4>2
    <3>2. Len(u) <= N * (MaxValue + 1) + MaxValue
      <4>1. Len(u) <= k * B + MaxValue /\ k = N
        BY <1>8, <1>9, <1>11, <1>12, <2>2, <3>1
      <4> QED BY <1>11, <4>1
    <3>3. DoneBehind(s, old, new, u, on)
      BY <1>2, <1>12, <3>1, <3>2 DEF DoneBehind
    <3> QED BY <3>3 DEF UnderWay
  <2>3. CASE k # N
    <3>1. PICK z \in Seq(Chars) :
               /\ Partly(u, z, s, k + 1)
               /\ Cat(out, From(s, old, new)[k]) = Cat(z, From(s, old, new)[k + 1])
               /\ Len(z) = M + V + 1
      BY <1>2, <2>1, <2>3 DEF EmptyTurn
    <3>2. PICK m \in 0..N : m = k + 1
      BY <1>2, <2>3
    <3>3. Len(z) = on /\ Len(z) = M + V + 1
      BY <1>8, <1>9, <1>10, <1>12, <3>1
    <3>4. Len(z) <= m * (MaxValue + 1)
      <4>1. (k + 1) * B >= k * B + (1 - 1) + B
        BY Grow
      <4>2. Len(z) <= (k + 1) * B
        BY <1>8, <1>11, <3>3, <4>1
      <4> QED BY <1>11, <3>2, <4>2
    <3>5. Free(u, old, on, Len(z))
      BY <1>10, <3>3 DEF Free
    <3>6. DoneUpTo(s, old, new, u, on, z, m)
      BY <1>4, <1>10, <3>1, <3>2, <3>3, <3>4, <3>5 DEF DoneUpTo
    <3> QED BY <1>2, <3>6 DEF UnderWay
  <2> QED BY <2>2, <2>3
<1>13. CASE L # 0
  <2>1. PICK x \in Nat : x = p - M /\ p = M + x
    <3>1. p - M \in Nat
      BY <1>8, <1>9
    <3> QED BY <1>8, <1>9, <3>1
  <2>2. PICK e \in Nat : e = k + x + L
    <3>1. k + x + L \in Nat
      BY <1>8, <2>1, SMTT(30)
    <3> QED BY <3>1
  <2>3. FoundTurn(Chars, u, s, old, new, out, k, p, e)
    BY <1>2, <1>4, <1>6, <1>13, <2>1, <2>2, ReplaceFound
  <2>4. e \in 0..N
    BY <1>2, <2>3 DEF FoundTurn
  <2>5. PICK z \in Seq(Chars) :
              /\ Partly(u, z, s, e)
              /\ Cat(out, From(s, old, new)[k]) = Cat(z, From(s, old, new)[e])
              /\ EndsIn(z, new, p)
    BY <1>2, <2>3 DEF FoundTurn
  <2>6. IsPartly(u, z, s, e)
    BY <1>2, <2>4, <2>5, PartlyIs
  <2>7. Free(u, old, on, Len(z))
    BY <1>2, <1>6, <1>10, <2>5, <2>6, NotAcross
  <2>8. Len(z) = p + V
    BY <1>2, <2>5 DEF EndsIn
  <2>9. Len(z) <= e * (MaxValue + 1)
    <3>1. PICK d \in Nat \ {0} : d = x + L /\ e = k + d /\ d - 1 >= x
      <4>1. x + L \in Nat \ {0} /\ k + (x + L) = k + x + L /\ x + L - 1 >= x
        BY <1>13
      <4> QED BY <2>2, <4>1
    <3>2. (k + d) * B >= k * B + (d - 1) + B
      BY Grow
    <3>3. PICK Q \in Nat, A \in Nat : Q = k * B /\ A = (k + d) * B
      BY <1>11, <2>2, <3>1
    <3>4. A >= Q + (d - 1) + B /\ M <= Q /\ V + 1 <= B /\ B \in Nat
      BY <1>11, <3>2, <3>3
    <3>5. M + x + V <= A
      <4>1. M \in Nat /\ V \in Nat /\ x \in Nat /\ d \in Nat /\ d - 1 >= x
        BY <1>8, <2>1, <3>1
      <4> QED BY <3>3, <3>4, <4>1
    <3>6. Len(z) <= A
      BY <2>1, <2>8, <3>5
    <3> QED BY <1>11, <3>1, <3>3, <3>6
  <2>10. on <= Len(z)
    <3>1. p + V - L + 1 <= p + V
      BY <1>8, <1>9, <1>13
    <3> QED BY <1>10, <2>8, <3>1
  <2>11. DoneUpTo(s, old, new, u, on, z, e)
    BY <1>2, <1>4, <1>10, <1>13, <2>5, <2>7, <2>9, <2>10 DEF DoneUpTo
  <2> QED BY <1>2, <2>4, <2>11 DEF UnderWay
<1> QED BY <1>12, <1>13

-----------------------------------------------------------------------------
(* The arguments of a call of replaceAll, and how far it is.             *)
Replacing ==
  /\ stage \in {"replaceAll", "replaced"} =>
       Text(args.src, MaxSrc) /\ Text(args.old, MaxValue) /\ Text(args.new, MaxValue)
  /\ stage = "replaceAll" /\ Separate(args.old, args.new) =>
       UnderWay(args.src, args.old, args.new, src, i)

ReplaceInv == Replacing /\ ReplacesAll

(* The arguments are texts within the bounds.                            *)
LEMMA ArgumentIs ==
  ASSUME NEW n \in Nat, NEW x \in Texts(n)
  PROVE  Text(x, n)
<1>1. PICK m \in 0..n : x \in [1..m -> Chars]
  BY DEF Texts, SeqOf
<1>2. x \in Seq(Chars) /\ Len(x) = m
  BY <1>1
<1> QED BY <1>1, <1>2 DEF Text

(* Before the first turn nothing is done,                                *)
LEMMA ReplaceInit ==
  GeneratorInit => ReplaceInv
<1> SUFFICES ASSUME GeneratorInit PROVE ReplaceInv
  OBVIOUS
<1>1. CASE stage = "Generate"
  BY <1>1 DEF ReplaceInv, Replacing, ReplacesAll
<1>2. CASE stage # "Generate"
  <2>1. /\ stage = "replaceAll" /\ src = args.src /\ i = 0
        /\ args \in [src : Texts(MaxSrc), old : Texts(MaxValue), new : Texts(MaxValue)]
    BY <1>2 DEF GeneratorInit, ReplaceAllCalled, GenerateCalled
  <2>2. Text(args.src, MaxSrc) /\ Text(args.old, MaxValue) /\ Text(args.new, MaxValue)
    <3>1. MaxSrc \in Nat /\ MaxValue \in Nat
      BY GeneratorAssumption
    <3> QED BY <2>1, <3>1, ArgumentIs
  <2>3. UnderWay(args.src, args.old, args.new, src, i)
    <3>1. args.src \in Seq(Chars) /\ args.old \in Seq(Chars) /\ args.new \in Seq(Chars)
      BY <2>2 DEF Text
    <3> QED BY <2>1, <3>1, ReplaceBegins
  <2> QED BY <2>1, <2>2, <2>3 DEF ReplaceInv, Replacing, ReplacesAll
<1> QED BY <1>1, <1>2

(* every turn keeps it so, and the end of the loop has the whole text done.*)
LEMMA ReplaceStep ==
  ReplaceInv /\ [GeneratorNext]_generatorVars => ReplaceInv'
<1> SUFFICES ASSUME ReplaceInv, [GeneratorNext]_generatorVars PROVE ReplaceInv'
  OBVIOUS
<1> USE DEF ReplaceInv
<1>1. CASE ReplaceNext
  <2>1. PICK p : p = find(src, args.old, i)
    OBVIOUS
  <2>2. /\ stage = "replaceAll" /\ p # npos
        /\ src' = replace(src, p, Len(args.old), args.new)
        /\ i' = NextPlace(p, args.old, args.new)
        /\ stage' = stage /\ args' = args
    BY <1>1, <2>1 DEF ReplaceNext, Step, NextPlace
  <2>3. Text(args.src, MaxSrc) /\ Text(args.old, MaxValue) /\ Text(args.new, MaxValue)
    BY <2>2 DEF Replacing
  <2>4. ASSUME Separate(args.old, args.new)
        PROVE  UnderWay(args.src, args.old, args.new, src', i')
    <3>1. UnderWay(args.src, args.old, args.new, src, i)
      BY <2>2, <2>4 DEF Replacing
    <3> QED BY <2>1, <2>2, <2>3, <2>4, <3>1, ReplaceGoesOn
  <2> QED BY <2>2, <2>3, <2>4 DEF Replacing, ReplacesAll
<1>2. CASE ReplaceEnd
  <2>1. /\ stage = "replaceAll" /\ stage' = "replaced" /\ find(src, args.old, i) = npos
        /\ args' = args /\ src' = src /\ i' = i
    BY <1>2 DEF ReplaceEnd
  <2>2. Text(args.src, MaxSrc) /\ Text(args.old, MaxValue) /\ Text(args.new, MaxValue)
    BY <2>1 DEF Replacing
  <2>3. ASSUME Separate(args.old, args.new)
        PROVE  src = Reference(args.src, args.old, args.new)
    <3>1. UnderWay(args.src, args.old, args.new, src, i)
      BY <2>1, <2>3 DEF Replacing
    <3>2. args.old \in Seq(Chars) /\ args.new \in Seq(Chars)
      BY <2>2 DEF Text
    <3> QED BY <2>1, <2>2, <3>1, <3>2, ReplaceEnds
  <2> QED BY <2>1, <2>2, <2>3 DEF Replacing, ReplacesAll
<1>3. CASE Names \/ HeaderIncludes \/ SourceIncludes \/ NamespaceScope \/ GlobalScope
  <2>1. stage' \notin {"replaceAll", "replaced"}
    BY <1>3 DEF Names, HeaderIncludes, SourceIncludes, NamespaceScope, GlobalScope
  <2> QED BY <2>1 DEF Replacing, ReplacesAll
<1>4. CASE UNCHANGED generatorVars
  BY <1>4 DEF generatorVars, Replacing, ReplacesAll
<1> QED BY <1>1, <1>2, <1>3, <1>4 DEF GeneratorNext

(* What replaceAll has put in stays apart from what is still to be searched*)
(* all through its loop.                                                   *)
THEOREM ReplaceInvariance == GeneratorSpec => []ReplaceInv
<1>1. ReplaceInv /\ [GeneratorNext]_generatorVars => ReplaceInv'
  BY ReplaceStep
<1> QED BY <1>1, ReplaceInit, PTL DEF GeneratorSpec

(* For all texts, of whatever lengths the bounds allow, replaceAll replaces*)
(* what the reference does if the new text cannot be run together with what*)
(* follows it to give the old one.                                         *)
THEOREM ReplacesLikeReference == GeneratorSpec => []ReplacesAll
<1>1. ReplaceInv => ReplacesAll
  BY DEF ReplaceInv
<1> QED BY <1>1, ReplaceInvariance, PTL

-----------------------------------------------------------------------------
(* What Generate inserts, of a file whose first message is m.            *)
Message == IF args.messages > 0 THEN "first" ELSE "garbage"
Insertion(file, point, text) == [file |-> file, point |-> point, text |-> text]
Pushed     == Insertion(files.header, "includes", {<<"warning push">>, <<"include <memory>">>})
Registered == Insertion(files.source, "includes", {<<"register", Message>>})
Pointers   == Insertion(files.header, "namespace_scope", PtrTypes \X {Message})
Popped     == Insertion(files.header, "global_scope", {<<"warning pop">>})

Inserting == {"includes", "source includes", "namespace_scope", "global_scope", "returned"}

(* How far Generate is.                                                  *)
Generating ==
  /\ stage \in {"Generate"} \cup Inserting =>
       args.name \in Seq(Piece) /\ Len(args.name) > 0 /\ args.messages \in 0..2
  /\ stage \in Inserting =>
       files = [header |-> [args.name EXCEPT ![rfind(args.name)] = ".pb.h"],
                source |-> [args.name EXCEPT ![rfind(args.name)] = ".pb.cc"]]
  /\ stage \in {"Generate", "includes"} => inserted = <<>>
  /\ stage = "source includes" => inserted = <<Pushed>>
  /\ stage = "namespace_scope" => inserted = <<Pushed, Registered>>
  /\ stage = "global_scope" => inserted = <<Pushed, Registered, Pointers>>
  /\ stage = "returned" => inserted = <<Pushed, Registered, Pointers, Popped>>

(* A tuple of one becomes one of two.                                    *)
LEMMA Two ==
  ASSUME NEW a, NEW b
  PROVE  Append(<<a>>, b) = <<a, b>>
<1>1. PICK S : S = {a, b}
  OBVIOUS
<1>2. <<a>> \in Seq(S) /\ <<a, b>> \in Seq(S) /\ b \in S
  BY <1>1
<1>3. Append(<<a>>, b) \in Seq(S) /\ Len(Append(<<a>>, b)) = 2
  BY <1>2
<1>4. \A j \in 1..2 : Append(<<a>>, b)[j] = <<a, b>>[j]
  OBVIOUS
<1> QED BY <1>2, <1>3, <1>4, SeqEqual

(* Two become three,                                                     *)
LEMMA Three ==
  ASSUME NEW a, NEW b, NEW c
  PROVE  Append(<<a, b>>, c) = <<a, b, c>>
<1>1. PICK S : S = {a, b, c}
  OBVIOUS
<1>2. <<a, b>> \in Seq(S) /\ <<a, b, c>> \in Seq(S) /\ c \in S
  BY <1>1
<1>3. Append(<<a, b>>, c) \in Seq(S) /\ Len(Append(<<a, b>>, c)) = 3
  BY <1>2
<1>4. \A j \in 1..3 : Append(<<a, b>>, c)[j] = <<a, b, c>>[j]
  OBVIOUS
<1> QED BY <1>2, <1>3, <1>4, SeqEqual

(* and three become four.                                                *)
LEMMA Four ==
  ASSUME NEW a, NEW b, NEW c, NEW d
  PROVE  Append(<<a, b, c>>, d) = <<a, b, c, d>>
<1>1. PICK S : S = {a, b, c, d}
  OBVIOUS
<1>2. <<a, b, c>> \in Seq(S) /\ <<a, b, c, d>> \in Seq(S) /\ d \in S
  BY <1>1
<1>3. Append(<<a, b, c>>, d) \in Seq(S) /\ Len(Append(<<a, b, c>>, d)) = 4
  BY <1>2
<1>4. \A j \in 1..4 : Append(<<a, b, c>>, d)[j] = <<a, b, c, d>>[j]
  OBVIOUS
<1> QED BY <1>2, <1>3, <1>4, SeqEqual

(* Nothing is inserted before the names are known,                       *)
LEMMA GenerateInit ==
  GeneratorInit => Generating
<1> SUFFICES ASSUME GeneratorInit PROVE Generating
  OBVIOUS
<1>1. CASE stage = "Generate"
  <2>1. args \in [name : SeqOf(Piece, MaxPieces) \ {<<>>}, messages : 0..2] /\ inserted = <<>>
    BY <1>1 DEF GeneratorInit, ReplaceAllCalled, GenerateCalled
  <2>2. args.name \in SeqOf(Piece, MaxPieces) /\ args.name # <<>> /\ args.messages \in 0..2
    BY <2>1
  <2>3. PICK m \in 0..MaxPieces : args.name \in [1..m -> Piece]
    BY <2>2 DEF SeqOf
  <2>4. args.name \in Seq(Piece) /\ Len(args.name) > 0
    BY <2>2, <2>3
  <2> QED BY <1>1, <2>1, <2>2, <2>4 DEF Generating, Inserting
<1>2. CASE stage # "Generate"
  <2>1. stage = "replaceAll"
    BY <1>2 DEF GeneratorInit, ReplaceAllCalled, GenerateCalled
  <2> QED BY <2>1 DEF Generating, Inserting
<1> QED BY <1>1, <1>2

(* and each insertion is the next of the four.                           *)
LEMMA GenerateStep ==
  Generating /\ [GeneratorNext]_generatorVars => Generating'
<1> SUFFICES ASSUME Generating, [GeneratorNext]_generatorVars PROVE Generating'
  OBVIOUS
<1> USE DEF Inserting
<1>0. ASSUME args' = args, files' = files
      PROVE  Pushed' = Pushed /\ Registered' = Registered /\ Pointers' = Pointers /\ Popped' = Popped
  BY <1>0 DEF Pushed, Registered, Pointers, Popped, Message
<1>1. CASE ReplaceNext \/ ReplaceEnd
  <2>1. stage' \in {"replaceAll", "replaced"}
    BY <1>1 DEF ReplaceNext, ReplaceEnd
  <2> QED BY <2>1 DEF Generating
<1>2. CASE Names
  <2>1. CASE stage' = "thrown"
    BY <2>1 DEF Generating
  <2>2. CASE stage' # "thrown"
    BY <1>2, <2>2 DEF Names, Generating
  <2> QED BY <2>1, <2>2
<1>3. CASE HeaderIncludes
  <2>1. /\ stage = "includes" /\ stage' = "source includes" /\ args' = args /\ files' = files
        /\ inserted' = Append(inserted, Pushed)
    BY <1>3 DEF HeaderIncludes, Insert, Pushed, Insertion
  <2>2. inserted' = <<Pushed>>
    <3>1. Append(<<>>, Pushed) = <<Pushed>>
      OBVIOUS
    <3> QED BY <2>1, <3>1 DEF Generating
  <2> QED BY <1>0, <2>1, <2>2 DEF Generating
<1>4. ASSUME NEW m \in FirstMessage, m # "crash", stage \in {"Generate"} \cup Inserting
      PROVE  m = Message
  BY <1>4 DEF FirstMessage, Message, Generating
<1>5. CASE SourceIncludes
  <2>1. PICK m \in FirstMessage :
          IF m = "crash" THEN stage' = "crashed" /\ UNCHANGED inserted
          ELSE /\ Insert(files.source, "includes", {<<"register", m>>})
               /\ stage' = "namespace_scope"
    BY <1>5 DEF SourceIncludes
  <2>2. CASE m = "crash"
    BY <2>1, <2>2 DEF Generating
  <2>3. CASE m # "crash"
    <3>1. m = Message
      BY <1>4, <1>5, <2>3 DEF SourceIncludes
    <3>2. /\ stage = "source includes" /\ stage' = "namespace_scope" /\ args' = args /\ files' = files
          /\ inserted' = Append(inserted, Registered)
      BY <1>5, <2>1, <2>3, <3>1 DEF SourceIncludes, Insert, Registered, Insertion
    <3>3. inserted' = <<Pushed, Registered>>
      <4>1. Append(<<Pushed>>, Registered) = <<Pushed, Registered>>
        BY Two
      <4> QED BY <3>2, <4>1 DEF Generating
    <3> QED BY <1>0, <3>2, <3>3 DEF Generating
  <2> QED BY <2>2, <2>3
<1>6. CASE NamespaceScope
  <2>1. PICK m \in FirstMessage :
          IF m = "crash" THEN stage' = "crashed" /\ UNCHANGED inserted
          ELSE /\ Insert(files.header, "namespace_scope", PtrTypes \X {m})
               /\ stage' = "global_scope"
    BY <1>6 DEF NamespaceScope
  <2>2. CASE m = "crash"
    BY <2>1, <2>2 DEF Generating
  <2>3. CASE m # "crash"
    <3>1. m = Message
      BY <1>4, <1>6, <2>3 DEF NamespaceScope
    <3>2. /\ stage = "namespace_scope" /\ stage' = "global_scope" /\ args' = args /\ files' = files
          /\ inserted' = Append(inserted, Pointers)
      BY <1>6, <2>1, <2>3, <3>1 DEF NamespaceScope, Insert, Pointers, Insertion
    <3>3. inserted' = <<Pushed, Registered, Pointers>>
      <4>1. Append(<<Pushed, Registered>>, Pointers) = <<Pushed, Registered, Pointers>>
        BY Three
      <4> QED BY <3>2, <4>1 DEF Generating
    <3> QED BY <1>0, <3>2, <3>3 DEF Generating
  <2> QED BY <2>2, <2>3
<1>7. CASE GlobalScope
  <2>1. /\ stage = "global_scope" /\ stage' = "returned" /\ args' = args /\ files' = files
        /\ inserted' = Append(inserted, Popped)
    BY <1>7 DEF GlobalScope, Insert, Popped, Insertion
  <2>2. inserted' = <<Pushed, Registered, Pointers, Popped>>
    <3>1. Append(<<Pushed, Registered, Pointers>>, Popped) = <<Pushed, Registered, Pointers, Popped>>
      BY Four
    <3> QED BY <2>1, <3>1 DEF Generating
  <2> QED BY <1>0, <2>1, <2>2 DEF Generating
<1>8. CASE UNCHANGED generatorVars
  <2>1. stage' = stage /\ args' = args /\ files' = files /\ inserted' = inserted
    BY <1>8 DEF generatorVars
  <2> QED BY <1>0, <2>1 DEF Generating
<1> QED BY <1>1, <1>2, <1>3, <1>5, <1>6, <1>7, <1>8 DEF GeneratorNext

(* The files inserted into are those of the C++ generator exactly if the *)
(* name ends in ".proto".                                                *)
LEMMA SameFiles ==
  ASSUME NEW name \in Seq(Piece), Len(name) > 0
  PROVE  /\ name[Len(name)] = ".proto" =>
              /\ [name EXCEPT ![rfind(name)] = ".pb.h"] = Append(CppBase(name), ".pb.h")
              /\ [name EXCEPT ![rfind(name)] = ".pb.cc"] = Append(CppBase(name), ".pb.cc")
         /\ name[Len(name)] # ".proto" =>
              \A x, y, z : [name EXCEPT ![y] = z] # Append(CppBase(name), x)
<1>1. PICK n \in Nat : n = Len(name) /\ n > 0
  OBVIOUS
<1>2. PICK T : T = Piece \cup {".pb.h", ".pb.cc"}
  OBVIOUS
<1>3. CASE name[n] = ".proto"
  <2>1. rfind(name) = n
    <3>1. n \in Places(name) /\ \A y \in Places(name) : n >= y /\ y \in Nat
      BY <1>1, <1>3 DEF Places
    <3>2. \A x \in Places(name) : (\A y \in Places(name) : x >= y) => x = n
      BY <3>1
    <3> QED BY <3>1, <3>2 DEF rfind, Max
  <2>2. CppBase(name) = SubSeq(name, 1, n - 1)
    BY <1>1, <1>3 DEF CppBase, Front
  <2>3. PICK b \in Seq(Piece) :
          b = SubSeq(name, 1, n - 1) /\ Len(b) = n - 1 /\ \A j \in 1..(n - 1) : b[j] = name[j]
    <3>1. PICK b : b = SubSeq(name, 1, n - 1)
      OBVIOUS
    <3>2. n - 1 \in 1..Len(name) \/ n = 1
      BY <1>1
    <3>3. b \in Seq(Piece) /\ Len(b) = n - 1 /\ \A j \in 1..(n - 1) : b[j] = name[j]
      BY <1>1, <3>1, <3>2
    <3> QED BY <3>1, <3>3
  <2>4. ASSUME NEW x PROVE [name EXCEPT ![n] = x] = Append(b, x)
    <3>1. [name EXCEPT ![n] = x] = [j \in 1..n |-> IF j = n THEN x ELSE name[j]]
      <4>1. name \in [1..n -> Piece]
        BY <1>1
      <4> QED BY <4>1
    <3>2. Append(b, x) = [j \in 1..n |-> IF j = n THEN x ELSE name[j]]
      BY <1>1, <2>3
    <3> QED BY <3>1, <3>2
  <2> QED BY <1>1, <1>3, <2>1, <2>2, <2>3, <2>4
<1>4. CASE name[n] # ".proto"
  <2>1. CppBase(name) \in Seq(Piece) /\ Len(CppBase(name)) # n - 1
    BY <1>1, <1>4 DEF CppBase
  <2>2. ASSUME NEW x, NEW y, NEW z, [name EXCEPT ![y] = z] = Append(CppBase(name), x) PROVE FALSE
    <3>1. DOMAIN [name EXCEPT ![y] = z] = 1..n
      BY <1>1
    <3>2. DOMAIN Append(CppBase(name), x) = 1..(Len(CppBase(name)) + 1)
      BY <2>1
    <3> QED BY <1>1, <2>1, <2>2, <3>1, <3>2
  <2> QED BY <1>1, <1>4, <2>2
<1> QED BY <1>1, <1>3, <1>4

(* The warnings are popped where they were pushed.                       *)
LEMMA PushedPopped ==
  ASSUME inserted = <<Pushed, Registered, Pointers, Popped>>
  PROVE  \E j, k \in DOMAIN inserted :
           /\ j < k /\ inserted[j].file = inserted[k].file /\ inserted[k].file = files.header
           /\ <<"warning push">> \in inserted[j].text
           /\ <<"warning pop">> \in inserted[k].text
<1>1. /\ 1 \in DOMAIN inserted /\ 4 \in DOMAIN inserted /\ 1 < 4
      /\ inserted[1] = Pushed /\ inserted[4] = Popped
  OBVIOUS
<1>2. Pushed.file = files.header /\ Popped.file = files.header
  BY DEF Pushed, Popped, Insertion
<1>3. <<"warning push">> \in Pushed.text /\ <<"warning pop">> \in Popped.text
  BY DEF Pushed, Popped, Insertion
<1> QED BY <1>1, <1>2, <1>3

(* What was inserted anywhere.                                           *)
LEMMA TextsAre ==
  ASSUME inserted = <<Pushed, Registered, Pointers, Popped>>
  PROVE  \A x : x \in UNION {y.text : y \in ToSet(inserted)}
                 <=> \/ x \in Pushed.text \/ x \in Registered.text
                     \/ x \in Pointers.text \/ x \in Popped.text
<1>1. ToSet(inserted) = {Pushed, Registered, Pointers, Popped}
  <2>1. DOMAIN inserted = 1..4 /\ inserted[1] = Pushed /\ inserted[2] = Registered
        /\ inserted[3] = Pointers /\ inserted[4] = Popped
    OBVIOUS
  <2>2. \A j \in 1..4 : j = 1 \/ j = 2 \/ j = 3 \/ j = 4
    OBVIOUS
  <2> QED BY <2>1, <2>2 DEF ToSet
<1> QED BY <1>1

(* The first message has its types and registration if there is one.     *)
LEMMA FirstRegistered ==
  ASSUME inserted = <<Pushed, Registered, Pointers, Popped>>, args.messages \in 0..2
  PROVE  (PtrTypes \cup {"register"}) \X {"first"} \subseteq UNION {y.text : y \in ToSet(inserted)}
           <=> args.messages > 0
<1> DEFINE Texts1 == UNION {y.text : y \in ToSet(inserted)}
<1>1. \A x : x \in Texts1 <=> \/ x \in {<<"warning push">>, <<"include <memory>">>}
                              \/ x \in {<<"register", Message>>}
                              \/ x \in PtrTypes \X {Message} \/ x \in {<<"warning pop">>}
  BY TextsAre DEF Pushed, Registered, Pointers, Popped, Insertion
<1> HIDE DEF Texts1
<1>2. CASE args.messages > 0
  <2>1. Message = "first"
    BY <1>2 DEF Message
  <2>2. ASSUME NEW x \in (PtrTypes \cup {"register"}) \X {"first"} PROVE x \in Texts1
    <3>1. PICK a \in PtrTypes \cup {"register"} : x = <<a, "first">>
      OBVIOUS
    <3>2. CASE a = "register"
      BY <1>1, <2>1, <3>1, <3>2
    <3>3. CASE a \in PtrTypes
      <4>1. x \in PtrTypes \X {Message}
        BY <2>1, <3>1, <3>3
      <4> QED BY <1>1, <4>1
    <3> QED BY <3>1, <3>2, <3>3
  <2> QED BY <1>2, <2>2 DEF Texts1
<1>3. CASE ~(args.messages > 0)
  <2>1. Message = "garbage"
    BY <1>3 DEF Message
  <2>2. <<"register", "first">> \in (PtrTypes \cup {"register"}) \X {"first"}
    OBVIOUS
  <2>3. <<"register", "first">> \notin {<<"warning push">>, <<"include <memory>">>}
    <3>1. Len(<<"register", "first">>) = 2 /\ Len(<<"warning push">>) = 1 /\ Len(<<"include <memory>">>) = 1
      OBVIOUS
    <3> QED BY <3>1
  <2>4. <<"register", "first">> \notin {<<"warning pop">>}
    <3>1. Len(<<"register", "first">>) = 2 /\ Len(<<"warning pop">>) = 1
      OBVIOUS
    <3> QED BY <3>1
  <2>5. <<"register", "first">> \notin PtrTypes \X {"garbage"}
    OBVIOUS
  <2>6. <<"register", "first">> \notin {<<"register", "garbage">>}
    OBVIOUS
  <2>7. <<"register", "first">> \notin Texts1
    BY <1>1, <2>1, <2>3, <2>4, <2>5, <2>6
  <2> QED BY <1>3, <2>2, <2>7 DEF Texts1
<1> QED BY <1>2, <1>3

(* All four go to files of the C++ generator or, for another name, one   *)
(* does not.                                                             *)
LEMMA IntoCpp ==
  ASSUME inserted = <<Pushed, Registered, Pointers, Popped>>,
         args.name \in Seq(Piece), Len(args.name) > 0,
         files = [header |-> [args.name EXCEPT ![rfind(args.name)] = ".pb.h"],
                  source |-> [args.name EXCEPT ![rfind(args.name)] = ".pb.cc"]]
  PROVE  Last(args.name) = ".proto" <=>
           \A k \in DOMAIN inserted :
             inserted[k].file \in {Append(CppBase(args.name), ".pb.h"),
                                   Append(CppBase(args.name), ".pb.cc")}
<1>1. PICK name \in Seq(Piece) : name = args.name
  OBVIOUS
<1>2. DOMAIN inserted = 1..4 /\ inserted[1] = Pushed /\ inserted[2] = Registered
      /\ inserted[3] = Pointers /\ inserted[4] = Popped
  OBVIOUS
<1>3. Pushed.file = files.header /\ Popped.file = files.header /\ Pointers.file = files.header
      /\ Registered.file = files.source
  BY DEF Pushed, Registered, Pointers, Popped, Insertion
<1>4. /\ files.header = [name EXCEPT ![rfind(name)] = ".pb.h"]
      /\ files.source = [name EXCEPT ![rfind(name)] = ".pb.cc"]
  BY <1>1
<1>5. CASE Last(name) = ".proto"
  <2>1. /\ files.header = Append(CppBase(name), ".pb.h")
        /\ files.source = Append(CppBase(name), ".pb.cc")
    BY <1>1, <1>4, <1>5, SameFiles DEF Last
  <2>2. \A k \in 1..4 : inserted[k].file \in {files.header, files.source}
    <3>1. \A k \in 1..4 : k = 1 \/ k = 2 \/ k = 3 \/ k = 4
      OBVIOUS
    <3> QED BY <1>2, <1>3, <3>1
  <2> QED BY <1>1, <1>2, <1>5, <2>1, <2>2
<1>6. CASE Last(name) # ".proto"
  <2>1. \A x, y, z : [name EXCEPT ![y] = z] # Append(CppBase(name), x)
    BY <1>1, <1>6, SameFiles DEF Last
  <2>2. inserted[1].file \notin {Append(CppBase(name), ".pb.h"), Append(CppBase(name), ".pb.cc")}
    <3>1. inserted[1].file = [name EXCEPT ![rfind(name)] = ".pb.h"]
      BY <1>2, <1>3, <1>4
    <3>2. PICK a, b : a = Append(CppBase(name), ".pb.h") /\ b = Append(CppBase(name), ".pb.cc")
      OBVIOUS
    <3>3. [name EXCEPT ![rfind(name)] = ".pb.h"] # a /\ [name EXCEPT ![rfind(name)] = ".pb.h"] # b
      BY <2>1, <3>2
    <3> QED BY <3>1, <3>2, <3>3
  <2>3. 1 \in DOMAIN inserted
    BY <1>2
  <2> QED BY <1>1, <1>6, <2>2, <2>3
<1> QED BY <1>5, <1>6

(* Generate inserts its four texts in order, into the files it has named. *)
THEOREM GenerateInvariance == GeneratorSpec => []Generating
<1>1. Generating /\ [GeneratorNext]_generatorVars => Generating'
  BY GenerateStep
<1> QED BY <1>1, GenerateInit, PTL DEF GeneratorSpec

(* If Generate returns, it has inserted into the files of the C++ generator*)
(* exactly if the name ends in ".proto", popped each warning it pushed, and*)
(* registered a message exactly if there is one.                           *)
THEOREM InsertsIntoTheRightFiles == GeneratorSpec => []InsertsIntoCpp
<1>1. ASSUME Generating PROVE InsertsIntoCpp
  <2> SUFFICES ASSUME stage = "returned" PROVE InsertsIntoCpp
    BY DEF InsertsIntoCpp
  <2>1. /\ args.name \in Seq(Piece) /\ Len(args.name) > 0 /\ args.messages \in 0..2
        /\ files = [header |-> [args.name EXCEPT ![rfind(args.name)] = ".pb.h"],
                    source |-> [args.name EXCEPT ![rfind(args.name)] = ".pb.cc"]]
        /\ inserted = <<Pushed, Registered, Pointers, Popped>>
    BY <1>1 DEF Generating, Inserting
  <2>2. Last(args.name) = ".proto" <=>
           \A k \in DOMAIN inserted :
             inserted[k].file \in {Append(CppBase(args.name), ".pb.h"),
                                   Append(CppBase(args.name), ".pb.cc")}
    BY <2>1, IntoCpp
  <2>3. \E j, k \in DOMAIN inserted :
           /\ j < k /\ inserted[j].file = inserted[k].file /\ inserted[k].file = files.header
           /\ <<"warning push">> \in inserted[j].text
           /\ <<"warning pop">> \in inserted[k].text
    BY <2>1, PushedPopped
  <2>4. (PtrTypes \cup {"register"}) \X {"first"} \subseteq UNION {y.text : y \in ToSet(inserted)}
           <=> args.messages > 0
    BY <2>1, FirstRegistered
  <2> QED BY <2>2, <2>3, <2>4, Zenon DEF InsertsIntoCpp
<1> QED BY <1>1, GenerateInvariance, PTL
-----------------------------------------------------------------------------
(***************************************************************************)
(* Tracer: one traced call of Greet.                                       *)
(***************************************************************************)

Waiting  == {"main", "run", "inject", "initiate", "await"}
Ending   == {"completion", "attribute", "end"}
Finished == {"return", "release", "get", "done"}

TypesInv ==
  /\ at \in Waiting \cup Ending \cup Finished
  /\ span = [life |-> span.life, status |-> span.status, code |-> span.code]
  /\ status \in Code \cup {"none"}

(* The provider is there before the tracer is taken.                     *)
SetUp ==
  /\ at # "main" => provider = "sdk"
  /\ at \notin {"main", "run"} => tracer = "sdk"

(* The span: recording from its start to End, with status and code set in *)
(* between, and exported once from then on.                               *)
SpanLife ==
  /\ status = "none" <=> at \in Waiting
  /\ at \in {"await"} \cup Ending => span.life = "recording"
  /\ at \in {"attribute", "end"} => span.status = Promise!Recorded(status).status
  /\ at = "end" => span.code = status
  /\ at \in Finished => span.life = "ended"
  /\ exported = IF at \in Finished THEN <<Promise!Recorded(status)>> ELSE <<>>
  /\ result = "none" <=> at \notin {"release", "get", "done"}

TracerInv == TypesInv /\ SetUp /\ SpanLife
-----------------------------------------------------------------------------
(* Before main sets anything up there is neither tracer nor span.        *)
LEMMA TracerInitEstablishes == TracerInit => TracerInv
BY TracerAssumption DEF TracerInit, NoSpan, TracerInv, TypesInv, SetUp, SpanLife,
       Waiting, Ending, Finished

(* Every step of the program and the end of the call keep TracerInv.     *)
LEMMA TracerStepPreserves == TracerInv /\ [TracerNext]_tracerVars => TracerInv'
<1> SUFFICES ASSUME TracerInv, [TracerNext]_tracerVars PROVE TracerInv'
  OBVIOUS
<1> USE TracerAssumption DEF TracerInv, TypesInv, SetUp, SpanLife, Waiting, Ending, Finished,
        Promise!Recorded
<1>1. CASE InitTracer
  BY <1>1 DEF InitTracer
<1>2. CASE RunClient
  BY <1>2 DEF RunClient, get_tracer
<1>3. CASE Inject
  BY <1>3 DEF Inject
<1>4. CASE InitiateBound
  BY <1>4 DEF InitiateBound, StartSpan, NoSpan
<1>5. CASE CallEnds
  BY <1>5 DEF CallEnds
<1>6. CASE SetStatus
  BY <1>6 DEF SetStatus
<1>7. CASE SetAttribute
  BY <1>7 DEF SetAttribute
<1>8. CASE End
  BY <1>8 DEF End, EndSpan
<1>9. CASE ReturnBound
  BY <1>9 DEF ReturnBound
<1>10. CASE Release
  BY <1>10 DEF Release, EndSpan
<1>11. CASE Get
  BY <1>11 DEF Get
<1>12. CASE UNCHANGED tracerVars
  BY <1>12 DEF tracerVars
<1> QED BY <1>1, <1>2, <1>3, <1>4, <1>5, <1>6, <1>7, <1>8, <1>9, <1>10, <1>11, <1>12
        DEF TracerNext, Client, ClientMain, Handler

(* The span is as TracerInv has it, from main's start to the end of the  *)
(* program.                                                              *)
THEOREM TracerInvariance == TracerSpec => []TracerInv
BY TracerInitEstablishes, TracerStepPreserves, PTL DEF TracerSpec

(* Every step is one of TracePromise or changes nothing it speaks of.    *)
LEMMA TracerStepRefines ==
  TracerInv /\ TracerInv' /\ [TracerNext]_tracerVars
    => [Promise!CallEnds \/ Promise!Export \/ Promise!Return]_<<status, exported, result # "none">>
<1> SUFFICES ASSUME TracerInv, TracerInv', [TracerNext]_tracerVars
             PROVE  \/ Promise!CallEnds \/ Promise!Export \/ Promise!Return
                    \/ UNCHANGED <<status, exported, result # "none">>
  OBVIOUS
<1>1. CASE InitTracer \/ RunClient \/ Inject \/ InitiateBound \/ SetStatus \/ SetAttribute
           \/ Get \/ UNCHANGED tracerVars
  BY <1>1 DEF InitTracer, RunClient, Inject, InitiateBound, SetStatus, SetAttribute, Get,
              tracerVars
<1>2. CASE CallEnds
  BY <1>2 DEF CallEnds, Promise!CallEnds, TracerInv, SpanLife, Waiting
<1>3. CASE End
  BY <1>3 DEF End, Promise!Export, TracerInv, SpanLife, Waiting, Finished
<1>4. CASE ReturnBound
  BY <1>4 DEF ReturnBound, Promise!Return, TracerInv, SpanLife, Finished
<1>5. CASE Release
  BY <1>5 DEF Release, TracerInv, SpanLife, Finished
<1> QED BY <1>1, <1>2, <1>3, <1>4, <1>5 DEF TracerNext, Client, ClientMain, Handler

(* The client exports one span, with the status of the call, before the  *)
(* caller of Greet goes on.                                              *)
THEOREM ImplementsTracePromise == TracerSpec => KeepsPromise
<1>1. TracerInit => Promise!PromiseInit
  BY DEF TracerInit, Promise!PromiseInit
<1> QED BY <1>1, TracerStepRefines, TracerInvariance, PTL
        DEF TracerSpec, KeepsPromise, Promise!PromiseSpec
=============================================================================
