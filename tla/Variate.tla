------------------------------ MODULE Variate ------------------------------
(***************************************************************************)
(* variate and make_variant of src/variate.cpp.  A function returns        *)
(* var(x) of several types; friend injection gives each type an index      *)
(* while the compiler translates the calls, and make_variant turns the     *)
(* erased result into a variant of all the types.                          *)
(*                                                                         *)
(* Translation is stateful: flag(Flag<i, Tag>) is undeclared until some    *)
(* call injects it, and the return type of a specialisation is deduced     *)
(* once, when it is first used, and never again.                           *)
(***************************************************************************)
EXTENDS Integers, SequencesExt

CONSTANTS
  Types,          (* decayed argument types                                *)
  SizeOf,         (* their sizes                                           *)
  Size,           (* the template parameter: bytes of Erased::value        *)
  NONE,           (* no value yet                                          *)
  MaxCalls        (* bound: calls of var in the function                   *)

ASSUME VariateAssumption ==
  /\ SizeOf \in [Types -> Nat] /\ Size \in Nat
  /\ MaxCalls \in Nat
  /\ NONE \notin Nat

VARIABLES
  calls,          (* the types var is called with, as translated in order  *)
  flags,          (* what flag(Flag<i>) returns: flags[i + 1]              *)
  deduced,        (* the index that instantiate_next_flag<T, i>(int) leads *)
                  (* to, once it was used                                  *)
  injector,       (* Injector.INDEX of each call translated                *)
  stage,
  erased,         (* Erased: the index, and the type constructed in value  *)
  result          (* the variant: its index, and the type value is read as *)

vars == <<calls, flags, deduced, injector, stage, erased, result>>
-----------------------------------------------------------------------------
(* A function returns var(...) at least once; each function has a Tag, and *)
(* so flags, of its own.                                                   *)
Init ==
  /\ calls \in SeqOf(Types, MaxCalls) \ {<<>>}
  /\ flags = <<>>
  /\ deduced = [T \in Types |-> [i \in 0..MaxCalls |-> NONE]]
  /\ injector = <<>>
  /\ stage = "translate"
  /\ erased = NONE
  /\ result = NONE

ValidFlag(i) == i < Len(flags)

(* Where the recursion of instantiate_next_flag<T, 0> stops: at the first  *)
(* flag that is not declared, or at a specialisation used before.          *)
Stop(T) == Min({i \in 0..Len(flags) : ~ValidFlag(i) \/ deduced[T][i] # NONE})

(* A defect to tell TypeOK by: INDEX counts from 1.                        *)
Index_FromOne(T) == IF ValidFlag(Stop(T)) THEN deduced[T][Stop(T)] ELSE Stop(T) + 1

Index(T) == IF ValidFlag(Stop(T)) THEN deduced[T][Stop(T)] ELSE Stop(T)

AppendTypeToListT(list, T) == Append(list, T)

(* A defect to tell RoundTrip by: the type goes to the front of the list.  *)
FlagInjector_Prepends(T, i) == IF i > 0 THEN <<T>> \o flags[i] ELSE <<T>>

(* The list of types that the injected flag returns.                       *)
FlagInjector(T, i) == IF i > 0 THEN AppendTypeToListT(flags[i], T) ELSE <<T>>

(* The default argument of operator() is evaluated for every call.         *)
Translate ==
  /\ stage = "translate" /\ Len(injector) < Len(calls)
  /\ LET T == calls[Len(injector) + 1] IN
       /\ injector' = Append(injector, Index(T))
       /\ deduced' = [deduced EXCEPT ![T] =
                        [i \in 0..MaxCalls |-> IF i < Stop(T) THEN Index(T) ELSE @[i]]]
       /\ flags' = IF ValidFlag(Stop(T)) THEN flags
                   ELSE Append(flags, FlagInjector(T, Stop(T)))
  /\ UNCHANGED <<calls, stage, erased, result>>

(* A defect to tell OnePlaceEach by: the first flag is taken for the last. *)
LastFlagInstantation_First == 0

LastFlagInstantation == Min({i \in 0..Len(flags) : ValidFlag(i) /\ ~ValidFlag(i + 1)})

Variant == flags[LastFlagInstantation + 1]

(* A defect to tell Fits by: the comparison is the other way round.        *)
max_element_unchecked_Least(list) ==
  LET found[first \in DOMAIN list] ==
        IF first = 1 THEN 1
        ELSE IF list[first] < list[found[first - 1]] THEN first ELSE found[first - 1]
  IN  found[Len(list)]

(* `found' as the loop leaves it when `first' was the last to be compared. *)
max_element_unchecked(list) ==
  LET found[first \in DOMAIN list] ==
        IF first = 1 THEN 1
        ELSE IF list[found[first - 1]] < list[first] THEN first ELSE found[first - 1]
  IN  found[Len(list)]

max_value(list) == list[max_element_unchecked(list)]

MAX_SIZE(types) == max_value([i \in DOMAIN types |-> SizeOf[types[i]]])

(* make_variant is translated once the function's return type is known,    *)
(* and rejected if the largest alternative is too large.                   *)
Constrain ==
  /\ stage = "translate" /\ Len(injector) = Len(calls)
  /\ stage' = IF MAX_SIZE(Variant) <= Size THEN "run" ELSE "rejected"
  /\ UNCHANGED <<calls, flags, deduced, injector, erased, result>>

(* The function runs into one of its calls.                                *)
Invoke(n) ==
  /\ stage = "run" /\ erased = NONE
  /\ erased' = [index |-> injector[n], type |-> calls[n]]
  /\ UNCHANGED <<calls, flags, deduced, injector, stage, result>>

(* to_variant_recursive compares the index with 0, 1, ... and reads value  *)
(* as the alternative it stops at.  Past the last it is unreachable().     *)
ToVariant ==
  /\ stage = "run" /\ erased # NONE
  /\ result' = IF erased.index < Len(Variant)
               THEN [index |-> erased.index, type |-> Variant[erased.index + 1]]
               ELSE [index |-> erased.index, type |-> NONE]
  /\ stage' = "done"
  /\ UNCHANGED <<calls, flags, deduced, injector, erased>>

Next == Translate \/ Constrain \/ (\E n \in DOMAIN calls : Invoke(n)) \/ ToVariant

Spec == Init /\ [][Next]_vars
-----------------------------------------------------------------------------
TypeOK ==
  /\ calls \in Seq(Types) /\ Len(calls) \in 1..MaxCalls
  /\ flags \in Seq(Seq(Types)) /\ Len(flags) <= Len(injector)
  /\ deduced \in [Types -> [0..MaxCalls -> 0..(Len(flags) - 1) \cup {NONE}]]
  /\ injector \in Seq(0..(Len(flags) - 1)) /\ Len(injector) <= Len(calls)
  /\ stage \in {"translate", "rejected", "run", "done"}

Translated == injector # <<>> /\ Len(injector) = Len(calls)

(* Whatever types a function calls var with, in whatever order and however *)
(* often, make_variant reads the erased value as the type it was made of,  *)
(* and never reaches unreachable().                                        *)
RoundTrip == stage = "done" => result.type = erased.type /\ result.index = erased.index

(* The variant has one alternative for each type, except that the type of  *)
(* the first call has a second one if it is used again: its first use left *)
(* no specialisation of the recursive overload for a later one to find.    *)
OnePlaceEach ==
  Translated =>
    \A T \in Types :
      LET uses == {n \in DOMAIN calls : calls[n] = T}
      IN  Cardinality({i \in DOMAIN Variant : Variant[i] = T}) =
            IF T = calls[1] /\ Cardinality(uses) > 1 THEN 2
            ELSE IF uses # {} THEN 1 ELSE 0

(* No function that make_variant accepts writes past the buffer of Erased, *)
(* through whichever call of var it returns.                               *)
Fits == erased # NONE => SizeOf[erased.type] <= Size
-----------------------------------------------------------------------------
(* The type that was injected with index i - 1.                            *)
Injected(i) == flags[i][i]

(* Each flag returns the types injected up to it.                          *)
ListsAgree ==
  \A i \in DOMAIN flags : /\ Len(flags[i]) = i
                          /\ \A k \in 1..i : flags[i][k] = Injected(k)

(* An index deduced for a type, and the index of a call, are its place.    *)
IndexesAgree ==
  /\ \A T \in Types, i \in 0..MaxCalls :
       deduced[T][i] # NONE => Injected(deduced[T][i] + 1) = T
  /\ \A n \in DOMAIN injector : Injected(injector[n] + 1) = calls[n]

ErasedAgrees ==
  /\ stage # "translate" => Len(injector) = Len(calls)
  /\ erased # NONE =>
       /\ stage \in {"run", "done"}
       /\ \E n \in DOMAIN calls : erased = [index |-> injector[n], type |-> calls[n]]

(* The inductive invariant behind RoundTrip.                               *)
IInv == TypeOK /\ ListsAgree /\ IndexesAgree /\ ErasedAgrees /\ RoundTrip
=============================================================================
