--------------------------- MODULE VisitTransform ---------------------------
(***************************************************************************)
(* visit_transform and visit_transform2 of src/visit_transform.h.  Both    *)
(* hand each argument to a transformer, which calls a continuation with    *)
(* what it makes of the argument; the innermost continuation calls the     *)
(* function with all the results.  One nests a visitor per argument, the   *)
(* other rotates the argument pack.                                        *)
(*                                                                         *)
(* A transformer may call its continuation any number of times: argument t *)
(* has fan[t] alternatives, which are passed on in order, as lvalues or as *)
(* rvalues.  The function takes its parameters by value.                   *)
(***************************************************************************)
EXTENDS Integers, SequencesExt

CONSTANTS
  MaxArgs,           (* bound: how many arguments                          *)
  MaxFan             (* bound: how often a continuation is called          *)

ASSUME VisitTransformAssumption == MaxArgs \in Nat \ {0} /\ MaxFan \in Nat

VARIABLES
  visitor,           (* which of the two functions is called               *)
  category,          (* for each argument, lvalue or rvalue                *)
  fan,               (* for each argument, its alternatives                *)
  yields,            (* how the transformer passes them on                 *)
  pc,                (* "start", "visit" or "done"                         *)
  stack,             (* the calls of the transformer that are active       *)
  moved,             (* arguments that forward_as has moved from           *)
  calls              (* the calls of the function, each with its values    *)

input == <<visitor, category, fan, yields>>
vars == <<input, pc, stack, moved, calls>>

Args == 1..Len(fan)
Category == {"lvalue", "rvalue"}
-----------------------------------------------------------------------------
(* A defect to tell CallsInOrder by: the operands of | change places.      *)
Join_Swapped(lhs, rhs) == Append(rhs, lhs)

(* operator| of two TransformVisitors: rhs becomes lhs's function.         *)
Join(lhs, rhs) == <<lhs>> \o rhs

(* The fold over |: the visitors from the outermost to the innermost.      *)
Visitors == FoldRight(Join, [t \in Args |-> t], <<>>)

(* A defect to tell NothingStaleButRepeats by: every argument is moved.    *)
forward_as_Always(t) == {t}

(* What forward_as moves from when it hands over t: an rvalue is moved     *)
(* into a temporary, an lvalue stays where it is.                          *)
forward_as(t) == IF category[t] = "rvalue" THEN {t} ELSE {}

(* An active call of the transformer on t, inside a visitor that has n     *)
(* arguments left, t included.  args is the pack its continuation puts     *)
(* before the transformed t; alt is the alternative passed on; spent says  *)
(* that the function has been given that.                                  *)
Frame(n, t, args) ==
  [n |-> n, t |-> t, args |-> args, alt |-> 0, fresh |-> t \notin moved, spent |-> FALSE]

(* TransformVisitor::operator()(args...).                                  *)
Nested(n, args) == Frame(n, Visitors[Len(fan) - n + 1], args)

(* detail::visit_transform2 with integral_constant n.                      *)
Rotated(n, args) == Frame(n, Head(args)[1], Tail(args))

Visit(n, args) == IF visitor = "visit_transform" THEN Nested(n, args) ELSE Rotated(n, args)

Init ==
  /\ visitor \in {"visit_transform", "visit_transform2"}
  /\ \E k \in 1..MaxArgs : category \in [1..k -> Category] /\ fan \in [1..k -> 0..MaxFan]
  /\ yields \in Category
  /\ pc = "start" /\ stack = <<>> /\ moved = {} /\ calls = <<>>

(* Evaluating the call transformer(continuation, forward_as<T>(t)).        *)
Push(frames, frame) ==
  /\ stack' = Append(frames, frame)
  /\ moved' = moved \cup forward_as(frame.t)

(* The call from outside: no result yet, or the pack as it was passed,     *)
(* alternative 0 standing for what is not transformed.                     *)
Start ==
  /\ pc = "start"
  /\ Push(<<>>, Visit(Len(fan), IF visitor = "visit_transform" THEN <<>>
                                ELSE [t \in Args |-> <<t, 0>>]))
  /\ pc' = "visit"
  /\ UNCHANGED <<input, calls>>

top == Last(stack)
More == stack # <<>> /\ top.alt < fan[top.t]
Passed == Append(Front(stack), [top EXCEPT !.alt = @ + 1, !.spent = FALSE])
Pack == Append(top.args, <<top.t, top.alt + 1>>)

(* The transformer calls its continuation, which visits the next argument. *)
Continue ==
  /\ More /\ top.n > 1
  /\ Push(Passed, Visit(top.n - 1, Pack))
  /\ UNCHANGED <<input, pc, calls>>

(* What the function finds in parameter p of the pack: the object is that  *)
(* of the frame that transformed it.                                       *)
Value(p) ==
  LET f == CHOOSE f \in ToSet(Passed) : f.t = p[1]
  IN  [arg |-> p[1], alt |-> p[2], fresh |-> f.fresh /\ ~f.spent]

(* The innermost continuation calls the function, which moves its rvalues  *)
(* into its parameters.                                                    *)
CallFunction ==
  /\ More /\ top.n = 1
  /\ calls' = Append(calls, [k \in DOMAIN Pack |-> Value(Pack[k])])
  /\ stack' = [k \in DOMAIN Passed |-> [Passed[k] EXCEPT !.spent = yields = "rvalue"]]
  /\ UNCHANGED <<input, pc, moved>>

(* The transformer has no alternative left and returns.                    *)
Return ==
  /\ pc = "visit" /\ ~More
  /\ stack' = Front(stack)
  /\ pc' = IF Len(stack) = 1 THEN "done" ELSE pc
  /\ UNCHANGED <<input, moved, calls>>

Next == Start \/ Continue \/ CallFunction \/ Return

Spec == Init /\ [][Next]_vars
-----------------------------------------------------------------------------
Alts(c) == [t \in DOMAIN c |-> c[t].alt]

Before(a, b) == \E t \in Args : a[t] < b[t] /\ \A s \in 1..(t - 1) : a[s] = b[s]

(* Both visitors call the function with one result per argument, in the    *)
(* order of the arguments, once for every combination of alternatives, in  *)
(* lexicographic order: the rotation comes out where it began, and neither *)
(* visitor forgets, repeats or reorders a combination.                     *)
CallsInOrder ==
  /\ \A c \in ToSet(calls) : Len(c) = Len(fan) /\ \A t \in Args : c[t].arg = t
  /\ \A m, n \in DOMAIN calls : m < n => Before(Alts(calls[m]), Alts(calls[n]))
  /\ pc = "done" =>
       {Alts(c) : c \in ToSet(calls)} = {a \in [Args -> 1..MaxFan] : \A t \in Args : a[t] <= fan[t]}

(* The function is given a moved-from value exactly where a continuation   *)
(* was called again: for an rvalue argument, one before it was repeated    *)
(* (forward_as moved it the first time); for a result passed as an rvalue, *)
(* one after it was.  If each continuation is called once, as by a         *)
(* transformer that picks an alternative, nothing is stale.                *)
NothingStaleButRepeats ==
  \A c \in ToSet(calls), t \in Args :
    c[t].fresh <=> /\ category[t] = "rvalue" => \A s \in 1..(t - 1) : c[s].alt = 1
                   /\ yields = "rvalue" => \A s \in (t + 1)..Len(fan) : c[s].alt = 1
=============================================================================
