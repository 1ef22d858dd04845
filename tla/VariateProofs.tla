--------------------------- MODULE VariateProofs ---------------------------
(***************************************************************************)
(* make_variant reads what var stored, for every set of types and every    *)
(* sequence of calls: the inductive invariant IInv of Variate.             *)
(***************************************************************************)
EXTENDS Variate, FiniteSetTheorems, WellFoundedInduction, TLAPS

(* A set of naturals that is not empty has a least element, which is what  *)
(* the searches of instantiate_next_flag and LastFlagInstantation stop at. *)
LEMMA MinIsMember ==
  ASSUME NEW S \in SUBSET Nat, S # {}
  PROVE  Min(S) \in S /\ \A y \in S : Min(S) <= y
<1>1. PICK x \in S : \A y \in S : ~(<<y, x>> \in OpToRel(<, Nat))
  BY NatLessThanWellFounded, WFMin
<1>2. \A y \in S : ~(y < x)
  BY <1>1 DEF OpToRel
<1>3. \A y \in S : x <= y
  BY <1>2
<1> QED BY <1>3 DEF Min

(* The recursion of instantiate_next_flag stops at an undeclared flag,     *)
(* which is the next free index, or at a specialisation used before.       *)
LEMMA StopFacts ==
  ASSUME TypeOK, NEW T \in Types
  PROVE  /\ Stop(T) \in 0..Len(flags)
         /\ ~ValidFlag(Stop(T)) <=> Stop(T) = Len(flags)
         /\ ValidFlag(Stop(T)) => deduced[T][Stop(T)] # NONE
<1> DEFINE S == {i \in 0..Len(flags) : ~ValidFlag(i) \/ deduced[T][i] # NONE}
<1>1. Len(flags) \in Nat
  BY DEF TypeOK
<1>2. S \in SUBSET Nat /\ Len(flags) \in S
  BY <1>1 DEF ValidFlag
<1>3. Min(S) \in S
  BY <1>2, MinIsMember
<1>4. Stop(T) \in S
  BY <1>3 DEF Stop
<1> QED BY <1>1, <1>4 DEF ValidFlag

(* With a flag declared, LastFlagInstantation finds the last one, and the  *)
(* variant of make_variant is the list of all the types injected.          *)
LEMMA LastFlag ==
  ASSUME TypeOK, flags # <<>>
  PROVE  LastFlagInstantation = Len(flags) - 1 /\ Variant = flags[Len(flags)]
<1> DEFINE S == {i \in 0..Len(flags) : ValidFlag(i) /\ ~ValidFlag(i + 1)}
<1>1. Len(flags) \in Nat /\ Len(flags) > 0
  BY DEF TypeOK
<1>2. S = {Len(flags) - 1}
  BY <1>1 DEF ValidFlag
<1>3. Min(S) = Len(flags) - 1
  BY <1>1, <1>2 DEF Min
<1>4. LastFlagInstantation = Len(flags) - 1
  BY <1>3 DEF LastFlagInstantation
<1> QED BY <1>1, <1>4 DEF Variant

(* Before anything is translated IInv holds.                               *)
LEMMA InitEstablishes == Init => IInv
<1> SUFFICES ASSUME Init PROVE IInv
  OBVIOUS
<1>1. calls \in Seq(Types) /\ Len(calls) \in 1..MaxCalls
  BY VariateAssumption DEF Init, SeqOf
<1>2. TypeOK
  BY <1>1 DEF Init, TypeOK
<1> QED BY <1>2 DEF Init, IInv, ListsAgree, IndexesAgree, ErasedAgrees, RoundTrip

(* Translating one more call keeps all earlier flags and indexes right and *)
(* gives the call the place of its type.                                   *)
LEMMA TranslatePreserves ==
  ASSUME IInv, Translate
  PROVE  IInv'
<1> DEFINE T == calls[Len(injector) + 1]
           N == Len(flags)
<1>1. /\ TypeOK /\ ListsAgree /\ IndexesAgree /\ ErasedAgrees /\ RoundTrip
      /\ stage = "translate" /\ stage' = stage
      /\ calls' = calls /\ erased' = erased /\ result' = result
      /\ N \in Nat /\ Len(injector) \in Nat /\ Len(calls) \in Nat
      /\ N <= Len(injector) /\ Len(injector) < Len(calls) /\ Len(calls) <= MaxCalls
      /\ MaxCalls \in Nat /\ DOMAIN flags = 1..N /\ DOMAIN injector = 1..Len(injector)
  BY VariateAssumption DEF IInv, TypeOK, Translate
<1>2. T \in Types
  BY <1>1 DEF TypeOK
<1>3. /\ Stop(T) \in 0..N
      /\ ~ValidFlag(Stop(T)) <=> Stop(T) = N
      /\ ValidFlag(Stop(T)) => deduced[T][Stop(T)] # NONE
  BY <1>1, <1>2, StopFacts
<1>4. /\ injector' = Append(injector, Index(T))
      /\ deduced' = [deduced EXCEPT ![T] =
                       [i \in 0..MaxCalls |-> IF i < Stop(T) THEN Index(T) ELSE deduced[T][i]]]
      /\ flags' = IF ValidFlag(Stop(T)) THEN flags
                  ELSE Append(flags, FlagInjector(T, Stop(T)))
  BY DEF Translate
<1>5. /\ N <= Len(flags') /\ Len(flags') <= Len(injector')
      /\ flags' \in Seq(Seq(Types))
      /\ Len(flags') \in Nat
      /\ \A i \in 1..N : flags'[i] = flags[i]
      /\ Index(T) \in 0..(Len(flags') - 1)
      /\ flags'[Index(T) + 1][Index(T) + 1] = T
      /\ ListsAgree'
  <2>1. CASE ValidFlag(Stop(T))
    <3>1. flags' = flags /\ Index(T) = deduced[T][Stop(T)] /\ Stop(T) \in 0..MaxCalls
      BY <2>1, <1>1, <1>3, <1>4 DEF Index
    <3>2. Index(T) \in 0..(N - 1) /\ flags[Index(T) + 1][Index(T) + 1] = T
      <4>1. Index(T) # NONE /\ Index(T) \in 0..(N - 1) \cup {NONE}
        BY <3>1, <2>1, <1>1, <1>2, <1>3 DEF TypeOK
      <4>2. Injected(Index(T) + 1) = T
        BY <4>1, <3>1, <1>1, <1>2 DEF IndexesAgree
      <4> QED BY <4>1, <4>2 DEF Injected
    <3>3. ListsAgree'
      BY <3>1, <1>1 DEF ListsAgree, Injected
    <3>4. Len(injector') = Len(injector) + 1
      <4>1. injector \in Seq(0..(N - 1)) /\ Index(T) \in 0..(N - 1)
        BY <1>1, <3>2 DEF TypeOK
      <4> HIDE DEF T, N
      <4> QED BY <4>1, <1>4
    <3> QED BY <3>1, <3>2, <3>3, <3>4, <1>1 DEF TypeOK
  <2>2. CASE ~ValidFlag(Stop(T))
    <3>1. Stop(T) = N /\ Index(T) = N /\ flags' = Append(flags, FlagInjector(T, N))
      BY <2>2, <1>3, <1>4 DEF Index
    <3>2. /\ FlagInjector(T, N) \in Seq(Types)
          /\ Len(FlagInjector(T, N)) = N + 1
          /\ FlagInjector(T, N)[N + 1] = T
          /\ \A k \in 1..N : FlagInjector(T, N)[k] = Injected(k)
      <4>1. CASE N = 0
        BY <4>1, <1>1, <1>2 DEF FlagInjector, AppendTypeToListT
      <4>2. CASE N > 0
        <5>1. flags[N] \in Seq(Types) /\ Len(flags[N]) = N
              /\ \A k \in 1..N : flags[N][k] = Injected(k)
          <6>1. N \in DOMAIN flags
            BY <4>2, <1>1
          <6>2. flags[N] \in Seq(Types)
            BY <6>1, <1>1 DEF TypeOK
          <6>3. Len(flags[N]) = N /\ \A k \in 1..N : flags[N][k] = Injected(k)
            BY <6>1, <1>1 DEF ListsAgree
          <6> QED BY <6>2, <6>3
        <5>2. FlagInjector(T, N) = Append(flags[N], T)
          BY <4>2 DEF FlagInjector, AppendTypeToListT
        <5> QED BY <5>1, <5>2, <1>1, <1>2
      <4> QED BY <4>1, <4>2, <1>1
    <3>3. /\ flags' \in Seq(Seq(Types)) /\ Len(flags') = N + 1
          /\ \A i \in 1..N : flags'[i] = flags[i]
          /\ flags'[N + 1] = FlagInjector(T, N)
      BY <3>1, <3>2, <1>1 DEF TypeOK
    <3>4. ListsAgree'
      <4>1. \A k \in 1..N : Injected(k)' = Injected(k)
        BY <3>3, <1>1 DEF Injected
      <4>2. \A i \in 1..N : Len(flags'[i]) = i /\ \A k \in 1..i : flags'[i][k] = Injected(k)'
        <5> SUFFICES ASSUME NEW i \in 1..N
                     PROVE  Len(flags'[i]) = i /\ \A k \in 1..i : flags'[i][k] = Injected(k)'
          OBVIOUS
        <5>1. Len(flags[i]) = i /\ \A k \in 1..i : flags[i][k] = Injected(k)
          BY <1>1 DEF ListsAgree
        <5> QED BY <5>1, <4>1, <3>3, <1>1
      <4>3. Len(flags'[N + 1]) = N + 1 /\ \A k \in 1..(N + 1) : flags'[N + 1][k] = Injected(k)'
        BY <4>1, <3>2, <3>3, <1>1 DEF Injected
      <4>4. DOMAIN flags' = 1..(N + 1)
        BY <3>3
      <4> QED BY <4>2, <4>3, <4>4, <1>1 DEF ListsAgree
    <3>5. Len(injector') = Len(injector) + 1
      BY <1>1, <1>4 DEF TypeOK
    <3> QED BY <3>1, <3>2, <3>3, <3>4, <3>5, <1>1
  <2> QED BY <2>1, <2>2
<1>6. /\ injector' \in Seq(0..(Len(flags') - 1)) /\ Len(injector') = Len(injector) + 1
      /\ \A n \in 1..Len(injector) : injector'[n] = injector[n] /\ injector[n] \in 0..(N - 1)
      /\ injector'[Len(injector) + 1] = Index(T)
  <2>1. injector \in Seq(0..(Len(flags') - 1))
    BY <1>1, <1>5 DEF TypeOK
  <2>2. \A n \in 1..Len(injector) : injector[n] \in 0..(N - 1)
    BY <1>1 DEF TypeOK
  <2> HIDE DEF T, N
  <2> QED BY <2>1, <2>2, <1>1, <1>4, <1>5
<1>7. /\ deduced' \in [Types -> [0..MaxCalls -> 0..(Len(flags') - 1) \cup {NONE}]]
      /\ \A U \in Types, i \in 0..MaxCalls :
           deduced'[U][i] = IF U = T /\ i < Stop(T) THEN Index(T) ELSE deduced[U][i]
  <2>1. deduced \in [Types -> [0..MaxCalls -> 0..(Len(flags') - 1) \cup {NONE}]]
    BY <1>1, <1>5 DEF TypeOK
  <2> QED BY <2>1, <1>2, <1>4, <1>5
<1>8. TypeOK'
  <2>1. /\ calls' \in Seq(Types) /\ Len(calls') \in 1..MaxCalls
        /\ stage' \in {"translate", "rejected", "run", "done"}
    BY <1>1 DEF TypeOK
  <2>2. Len(injector') <= Len(calls')
    BY <1>1, <1>6
  <2> QED BY <2>1, <2>2, <1>5, <1>6, <1>7 DEF TypeOK
<1>9. IndexesAgree'
  <2>1. \A k \in 1..N : Injected(k)' = Injected(k)
    BY <1>5 DEF Injected
  <2>2. ASSUME NEW U \in Types, NEW i \in 0..MaxCalls, deduced'[U][i] # NONE
        PROVE  Injected(deduced[U][i] + 1)' = U
    <3>1. CASE U = T /\ i < Stop(T)
      BY <3>1, <1>5, <1>7 DEF Injected
    <3>2. CASE ~(U = T /\ i < Stop(T))
      <4>1. deduced'[U][i] = deduced[U][i] /\ deduced[U][i] \in 0..(N - 1)
        <5>1. deduced'[U][i] = deduced[U][i]
          BY <3>2, <1>7
        <5>2. deduced[U][i] \in 0..(N - 1) \cup {NONE}
          BY <1>1 DEF TypeOK
        <5> QED BY <5>1, <5>2, <2>2
      <4>2. Injected(deduced[U][i] + 1) = U
        BY <4>1, <2>2, <1>1 DEF IndexesAgree
      <4> QED BY <4>1, <4>2, <2>1, <1>1 DEF Injected
    <3> QED BY <3>1, <3>2
  <2>3. \A n \in DOMAIN injector' : Injected(injector[n] + 1)' = calls'[n]
    <3>1. ASSUME NEW n \in 1..Len(injector)
          PROVE  Injected(injector[n] + 1)' = calls'[n]
      <4>1. injector'[n] = injector[n] /\ injector[n] + 1 \in 1..N
        <5>1. injector'[n] = injector[n] /\ injector[n] \in 0..(N - 1)
          BY <1>6
        <5>2. N \in Nat
          BY <1>1
        <5> HIDE DEF T, N
        <5> QED BY <5>1, <5>2
      <4>2. Injected(injector[n] + 1) = calls[n]
        BY <1>1 DEF IndexesAgree
      <4> QED BY <4>1, <4>2, <2>1, <1>1 DEF Injected
    <3>2. flags'[injector'[Len(injector) + 1] + 1][injector'[Len(injector) + 1] + 1] = calls'[Len(injector) + 1]
      BY <1>1, <1>5, <1>6
    <3>3. DOMAIN injector' = 1..(Len(injector) + 1)
      BY <1>6
    <3> QED BY <3>1, <3>2, <3>3, <1>1 DEF Injected
  <2> QED BY <2>2, <2>3 DEF IndexesAgree
<1>10. ErasedAgrees' /\ RoundTrip'
  BY <1>1 DEF ErasedAgrees, RoundTrip
<1> QED BY <1>5, <1>8, <1>9, <1>10 DEF IInv

(* Nothing after the translation changes a flag or an index.               *)
LEMMA LaterPreserves ==
  ASSUME IInv, Constrain \/ (\E n \in DOMAIN calls : Invoke(n)) \/ ToVariant \/ UNCHANGED vars
  PROVE  IInv'
<1>1. /\ UNCHANGED <<calls, flags, deduced, injector>>
      /\ stage' \in {"translate", "rejected", "run", "done"}
  BY DEF IInv, TypeOK, Constrain, Invoke, ToVariant, vars
<1>2. TypeOK' /\ ListsAgree' /\ IndexesAgree'
  BY <1>1 DEF IInv, TypeOK, ListsAgree, IndexesAgree, Injected
<1>3. ErasedAgrees' /\ RoundTrip'
  <2>1. CASE Constrain
    BY <2>1 DEF IInv, Constrain, ErasedAgrees, RoundTrip
  <2>2. CASE \E n \in DOMAIN calls : Invoke(n)
    BY <2>2 DEF IInv, Invoke, ErasedAgrees, RoundTrip
  <2>3. CASE ToVariant
    <3>1. ErasedAgrees'
      BY <2>3 DEF IInv, ToVariant, ErasedAgrees
    <3>2. PICK n \in DOMAIN calls : erased = [index |-> injector[n], type |-> calls[n]]
      BY <2>3 DEF IInv, ToVariant, ErasedAgrees
    <3>3. /\ Len(injector) = Len(calls) /\ n \in 1..Len(injector)
          /\ injector[n] \in 0..(Len(flags) - 1) /\ Len(flags) \in Nat
          /\ Injected(injector[n] + 1) = calls[n]
      <4>1. stage = "run" /\ Len(injector) = Len(calls)
        BY <2>3 DEF IInv, ToVariant, ErasedAgrees
      <4>2. /\ DOMAIN injector = 1..Len(injector) /\ DOMAIN calls = 1..Len(calls)
            /\ Len(flags) \in Nat
        BY DEF IInv, TypeOK
      <4>3. n \in 1..Len(injector) /\ n \in DOMAIN injector
        BY <4>1, <4>2
      <4>4. injector \in Seq(0..(Len(flags) - 1))
        BY DEF IInv, TypeOK
      <4>5. injector[n] \in 0..(Len(flags) - 1)
        BY <4>3, <4>4
      <4>6. Injected(injector[n] + 1) = calls[n]
        BY <4>3 DEF IInv, IndexesAgree
      <4> QED BY <4>1, <4>2, <4>3, <4>5, <4>6
    <3>4. Variant = flags[Len(flags)]
      BY <3>3, LastFlag DEF IInv
    <3>5. Len(Variant) = Len(flags) /\ Variant[injector[n] + 1] = calls[n]
      BY <3>3, <3>4 DEF IInv, ListsAgree
    <3>6. result' = [index |-> injector[n], type |-> calls[n]] /\ erased' = erased
      BY <2>3, <3>2, <3>3, <3>5 DEF ToVariant
    <3> QED BY <3>1, <3>2, <3>6 DEF RoundTrip
  <2>4. CASE UNCHANGED vars
    BY <2>4 DEF IInv, vars, ErasedAgrees, RoundTrip
  <2> QED BY <2>1, <2>2, <2>3, <2>4
<1> QED BY <1>2, <1>3 DEF IInv

(* IInv holds throughout translation and run.                              *)
THEOREM Invariance == Spec => []IInv
<1>1. Init => IInv
  BY InitEstablishes
<1>2. IInv /\ [Next]_vars => IInv'
  BY TranslatePreserves, LaterPreserves DEF Next
<1> QED BY <1>1, <1>2, PTL DEF Spec

(* Indexes and flags stay in range while var's calls are translated.       *)
THEOREM TypeCorrect == Spec => []TypeOK
<1>1. IInv => TypeOK
  BY DEF IInv
<1> QED BY <1>1, Invariance, PTL

(* For every set of types and every sequence of calls of var, make_variant *)
(* reads the value as the type it was constructed as: to_variant_recursive *)
(* never reaches unreachable() or a wrong reinterpret_cast.                *)
THEOREM ReadsWhatWasStored == Spec => []RoundTrip
<1>1. IInv => RoundTrip
  BY DEF IInv
<1> QED BY <1>1, Invariance, PTL
-----------------------------------------------------------------------------
(* The first call leaves no specialisation; the next call with the same    *)
(* type, and the first with any other, takes a new place and leaves one at *)
(* index 0, where all later calls with that type end.                      *)
Places ==
  /\ injector # <<>> => flags # <<>> /\ Injected(1) = calls[1]
  /\ \A T \in Types : deduced[T][0] # NONE <=> \E m \in 2..Len(injector) : calls[m] = T
  /\ \A T \in Types, i \in 0..MaxCalls : deduced[T][i] # NONE => deduced[T][0] # NONE
  /\ \A T \in Types : deduced[T][0] # 0
  /\ \A i \in 2..Len(flags) : deduced[Injected(i)][0] = i - 1

(* The recursion of instantiate_next_flag stops at the first such flag.    *)
LEMMA StopIsFirst ==
  ASSUME TypeOK, NEW T \in Types, NEW i \in 0..Len(flags), i < Stop(T)
  PROVE  deduced[T][i] = NONE
<1> DEFINE S == {k \in 0..Len(flags) : ~ValidFlag(k) \/ deduced[T][k] # NONE}
<1>1. Len(flags) \in Nat
  BY DEF TypeOK
<1>2. S \in SUBSET Nat /\ Len(flags) \in S
  BY <1>1 DEF ValidFlag
<1>3. Min(S) \in S /\ \A y \in S : Min(S) <= y
  BY <1>2, MinIsMember
<1>4. Stop(T) \in Nat /\ \A y \in S : Stop(T) <= y
  BY <1>2, <1>3 DEF Stop
<1>5. i \notin S
  BY <1>1, <1>4
<1> QED BY <1>5

(* What translating one more call, the (n + 1)st, does with N flags        *)
(* declared: the recursion stops at `stop', and the call gets `index'.     *)
Effect(T, n, N, stop, index) ==
  /\ n = Len(injector) /\ N = Len(flags) /\ N <= n /\ n + 1 <= MaxCalls /\ stop <= N
  /\ T = calls[n + 1] /\ calls' = calls
  /\ Len(injector') = n + 1
  /\ stop < N => deduced[T][stop] # NONE /\ flags' = flags
  /\ stop = N => index = N /\ Len(flags') = N + 1
  /\ \A i \in 0..N : i < stop => deduced[T][i] = NONE
  /\ \A U \in Types, i \in 0..MaxCalls :
       deduced'[U][i] = IF U = T /\ i < stop THEN index ELSE deduced[U][i]
  /\ \A i \in 1..N : flags'[i][i] = Injected(i) /\ Injected(i) \in Types
  /\ flags'[index + 1][index + 1] = T

(* Translate has that effect.                                              *)
LEMMA TranslateEffect ==
  ASSUME IInv, Translate
  PROVE  \E T \in Types, n \in Nat, N \in Nat, stop \in Nat, index \in Nat :
           Effect(T, n, N, stop, index)
<1>1. IInv' /\ TypeOK /\ TypeOK' /\ ListsAgree /\ IndexesAgree'
  BY TranslatePreserves DEF IInv
<1>2. PICK n \in Nat, N \in Nat :
        /\ n = Len(injector) /\ N = Len(flags) /\ N <= n /\ n + 1 <= MaxCalls
        /\ n < Len(calls) /\ calls' = calls
  BY <1>1, VariateAssumption DEF TypeOK, Translate
<1>3. PICK T \in Types : T = calls[n + 1]
  BY <1>1, <1>2 DEF TypeOK
<1>4. /\ injector' = Append(injector, Index(T))
      /\ deduced' = [deduced EXCEPT ![T] =
                       [i \in 0..MaxCalls |-> IF i < Stop(T) THEN Index(T) ELSE deduced[T][i]]]
      /\ flags' = IF ValidFlag(Stop(T)) THEN flags
                  ELSE Append(flags, FlagInjector(T, Stop(T)))
  BY <1>2, <1>3 DEF Translate
<1>5. PICK stop \in Nat :
        /\ stop = Stop(T) /\ stop <= N
        /\ stop = N <=> ~ValidFlag(Stop(T))
        /\ stop < N => deduced[T][stop] # NONE
        /\ \A i \in 0..N : i < stop => deduced[T][i] = NONE
  BY <1>1, <1>2, StopFacts, StopIsFirst
<1>6. /\ Len(injector') = n + 1 /\ injector'[n + 1] = Index(T)
      /\ n + 1 \in DOMAIN injector' /\ injector'[n + 1] \in Nat
  <2>1. Len(Append(injector, Index(T))) = n + 1 /\ Append(injector, Index(T))[n + 1] = Index(T)
    BY <1>1, <1>2 DEF TypeOK
  <2>2. Len(injector') = n + 1 /\ injector'[n + 1] = Index(T)
    BY <2>1, <1>4
  <2> QED BY <1>1, <1>2, <2>2 DEF TypeOK
<1>7. PICK index \in Nat : index = Index(T)
  BY <1>6
<1>8. flags'[index + 1][index + 1] = T
  <2>1. flags'[injector'[n + 1] + 1][injector'[n + 1] + 1] = calls'[n + 1]
    BY <1>1, <1>6 DEF IndexesAgree, Injected
  <2> QED BY <2>1, <1>2, <1>3, <1>6, <1>7 DEF Injected
<1>9. stop < N => flags' = flags
  BY <1>4, <1>5
<1>10. ASSUME stop = N
       PROVE  index = N /\ Len(flags') = N + 1 /\ \A i \in 1..N : flags'[i] = flags[i]
  <2>1. flags' = Append(flags, FlagInjector(T, Stop(T))) /\ index = N
    BY <1>4, <1>5, <1>7, <1>10 DEF Index
  <2>2. flags \in Seq(Seq(Types))
    BY <1>1 DEF TypeOK
  <2> QED BY <1>2, <2>1, <2>2
<1>11. \A i \in 1..N : flags'[i][i] = Injected(i) /\ Injected(i) \in Types
  <2> SUFFICES ASSUME NEW i \in 1..N
               PROVE  flags'[i][i] = Injected(i) /\ Injected(i) \in Types
    OBVIOUS
  <2>1. flags'[i] = flags[i]
    BY <1>5, <1>9, <1>10
  <2>2. i \in DOMAIN flags /\ flags[i] \in Seq(Types)
    BY <1>1, <1>2 DEF TypeOK
  <2>3. Len(flags[i]) = i
    BY <1>1, <2>2 DEF ListsAgree
  <2> QED BY <2>1, <2>2, <2>3 DEF Injected
<1>12. \A U \in Types, i \in 0..MaxCalls :
         deduced'[U][i] = IF U = T /\ i < stop THEN index ELSE deduced[U][i]
  <2>1. deduced \in [Types -> [0..MaxCalls -> 0..(N - 1) \cup {NONE}]]
    BY <1>1, <1>2 DEF TypeOK
  <2> QED BY <2>1, <1>4, <1>5, <1>7
<1>13. Effect(T, n, N, stop, index)
  BY <1>2, <1>3, <1>5, <1>6, <1>8, <1>9, <1>10, <1>11, <1>12 DEF Effect
<1> QED BY <1>13

(* Translating one more call keeps the places of all types.                *)
LEMMA PlacesKept ==
  ASSUME IInv, Places, Translate
  PROVE  Places'
<1>0. PICK T \in Types, n \in Nat, N \in Nat, stop \in Nat, index \in Nat :
        Effect(T, n, N, stop, index)
  BY TranslateEffect
<1>1. /\ n = Len(injector) /\ N = Len(flags) /\ N <= n /\ n + 1 <= MaxCalls /\ stop <= N
      /\ T = calls[n + 1] /\ calls' = calls
      /\ Len(injector') = n + 1
      /\ stop < N => deduced[T][stop] # NONE /\ flags' = flags
      /\ stop = N => index = N /\ Len(flags') = N + 1
      /\ \A i \in 0..N : i < stop => deduced[T][i] = NONE
      /\ \A U \in Types, i \in 0..MaxCalls :
           deduced'[U][i] = IF U = T /\ i < stop THEN index ELSE deduced[U][i]
      /\ \A i \in 1..N : Injected(i)' = Injected(i) /\ Injected(i) \in Types
      /\ flags'[index + 1][index + 1] = T
  BY <1>0 DEF Effect, Injected
<1>2. MaxCalls \in Nat /\ NONE \notin Nat /\ 0 \in 0..MaxCalls
  BY VariateAssumption
<1>3. injector \in Seq(0..(N - 1)) /\ flags \in Seq(Seq(Types)) /\ flags' \in Seq(Seq(Types))
      /\ injector' \in Seq(0..(Len(flags') - 1))
  BY <1>1, TranslatePreserves DEF IInv, TypeOK
<1>4. /\ injector = <<>> <=> n = 0
      /\ flags = <<>> <=> N = 0
      /\ N = 0 => n = 0
  BY <1>1, <1>3 DEF Places
<1>5. ASSUME NEW U \in Types
      PROVE  (\E m \in 2..(n + 1) : calls[m] = U) <=>
               (\E m \in 2..n : calls[m] = U) \/ (n >= 1 /\ U = T)
  BY <1>1
<1>6. \A U \in Types : deduced[U][0] # NONE <=> \E m \in 2..n : calls[m] = U
  BY <1>1 DEF Places
<1>7. CASE N = 0
  <2>1. stop = 0 /\ n = 0 /\ index = 0 /\ Len(flags') = 1 /\ flags' # <<>>
    BY <1>1, <1>3, <1>4, <1>7
  <2>2. \A U \in Types, i \in 0..MaxCalls : deduced'[U][i] = deduced[U][i]
    BY <1>1, <2>1
  <2>3. Injected(1)' = calls'[1]
    <3>1. index + 1 = 1 /\ n + 1 = 1
      BY <2>1
    <3> QED BY <1>1, <3>1 DEF Injected
  <2>4. \A U \in Types : deduced'[U][0] # NONE <=> \E m \in 2..1 : calls[m] = U
    BY <1>2, <1>5, <1>6, <2>1, <2>2
  <2>5. \A U \in Types, i \in 0..MaxCalls : deduced'[U][i] # NONE => deduced'[U][0] # NONE
    BY <1>2, <2>2 DEF Places
  <2>6. \A U \in Types : deduced'[U][0] # 0
    BY <1>2, <2>2 DEF Places
  <2> QED BY <1>1, <2>1, <2>3, <2>4, <2>5, <2>6 DEF Places
<1>8. CASE N > 0 /\ deduced[T][0] # NONE
  <2>1. stop = 0 /\ flags' = flags
    BY <1>1, <1>8
  <2>2. \A U \in Types, i \in 0..MaxCalls : deduced'[U][i] = deduced[U][i]
    BY <1>1, <2>1
  <2>3. \A U \in Types : deduced'[U][0] # NONE <=> \E m \in 2..(n + 1) : calls[m] = U
    BY <1>2, <1>5, <1>6, <1>8, <2>2
  <2>4. flags' # <<>> /\ Injected(1)' = calls'[1]
    BY <1>1, <1>4, <1>8, <2>1 DEF Places, Injected
  <2>5. \A i \in 2..Len(flags') : deduced'[Injected(i)'][0] = i - 1
    <3> SUFFICES ASSUME NEW i \in 2..N PROVE deduced'[Injected(i)'][0] = i - 1
      BY <1>1, <2>1
    <3>1. Injected(i)' = Injected(i) /\ Injected(i) \in Types
      BY <1>1
    <3>2. deduced[Injected(i)][0] = i - 1
      BY <1>1 DEF Places
    <3> QED BY <1>2, <2>2, <3>1, <3>2
  <2>6. \A U \in Types, i \in 0..MaxCalls : deduced'[U][i] # NONE => deduced'[U][0] # NONE
    BY <1>2, <2>2 DEF Places
  <2>7. \A U \in Types : deduced'[U][0] # 0
    BY <1>2, <2>2 DEF Places
  <2> QED BY <1>1, <2>3, <2>4, <2>5, <2>6, <2>7 DEF Places, Injected
<1>9. CASE N > 0 /\ deduced[T][0] = NONE
  <2>1. stop = N /\ index = N /\ Len(flags') = N + 1
    BY <1>1, <1>2, <1>9 DEF Places
  <2>2. deduced'[T][0] = N /\ N # NONE /\ N # 0
    BY <1>1, <1>2, <1>9, <2>1
  <2>3. \A U \in Types : U # T => \A i \in 0..MaxCalls : deduced'[U][i] = deduced[U][i]
    BY <1>1
  <2>4. flags' # <<>> /\ Injected(1)' = calls'[1]
    <3>1. Injected(1)' = Injected(1) /\ Injected(1) = calls[1]
      BY <1>1, <1>4, <1>9 DEF Places
    <3> QED BY <1>1, <1>3, <2>1, <3>1
  <2>5. \A U \in Types : deduced'[U][0] # NONE <=> \E m \in 2..(n + 1) : calls[m] = U
    <3> SUFFICES ASSUME NEW U \in Types
                 PROVE  deduced'[U][0] # NONE <=> \E m \in 2..(n + 1) : calls[m] = U
      OBVIOUS
    <3>1. CASE U = T
      BY <1>1, <1>5, <1>9, <2>2, <3>1
    <3>2. CASE U # T
      BY <1>2, <1>5, <1>6, <2>3, <3>2
    <3> QED BY <3>1, <3>2
  <2>6. \A U \in Types, i \in 0..MaxCalls : deduced'[U][i] # NONE => deduced'[U][0] # NONE
    BY <1>2, <2>2, <2>3 DEF Places
  <2>7. \A U \in Types : deduced'[U][0] # 0
    BY <1>2, <2>2, <2>3 DEF Places
  <2>8. \A i \in 2..Len(flags') : deduced'[Injected(i)'][0] = i - 1
    <3> SUFFICES ASSUME NEW i \in 2..(N + 1) PROVE deduced'[Injected(i)'][0] = i - 1
      BY <2>1
    <3>1. CASE i = N + 1
      <4>1. Injected(i)' = T /\ i - 1 = N
        BY <1>1, <2>1, <3>1 DEF Injected
      <4> QED BY <2>2, <4>1
    <3>2. CASE i \in 2..N
      <4>1. Injected(i)' = Injected(i) /\ Injected(i) \in Types
        BY <1>1, <3>2
      <4>2. deduced[Injected(i)][0] = i - 1 /\ i - 1 # NONE
        BY <1>1, <1>2, <3>2 DEF Places
      <4>3. Injected(i) # T
        BY <1>9, <4>2
      <4> QED BY <1>2, <2>3, <4>1, <4>2, <4>3
    <3> QED BY <3>1, <3>2
  <2> QED BY <1>1, <2>4, <2>5, <2>6, <2>7, <2>8 DEF Places, Injected
<1> QED BY <1>1, <1>7, <1>8, <1>9

(* The places of the types stay right throughout translation and run.      *)
THEOREM PlacesInvariance == Spec => []Places
<1>1. Init => Places
  BY VariateAssumption DEF Init, Places
<1>2. IInv /\ Places /\ [Next]_vars => Places'
  <2> SUFFICES ASSUME IInv, Places, [Next]_vars PROVE Places'
    OBVIOUS
  <2>1. CASE Translate
    BY <2>1, PlacesKept
  <2>2. CASE Constrain \/ (\E n \in DOMAIN calls : Invoke(n)) \/ ToVariant \/ UNCHANGED vars
    <3>1. UNCHANGED <<calls, flags, deduced, injector>>
      BY <2>2 DEF Constrain, Invoke, ToVariant, vars
    <3> QED BY <3>1 DEF Places, Injected
  <2> QED BY <2>1, <2>2 DEF Next
<1> QED BY <1>1, <1>2, Invariance, PTL DEF Spec

(* Two different numbers are two.                                          *)
LEMMA PairOfTwo ==
  ASSUME NEW a, NEW b, a # b
  PROVE  IsFiniteSet({a, b}) /\ Cardinality({a, b}) = 2
<1>1. {a, b} = {a} \cup {b} /\ b \notin {a}
  OBVIOUS
<1>2. IsFiniteSet({a}) /\ Cardinality({a}) = 1
  BY FS_Singleton
<1>3. IsFiniteSet({a} \cup {b}) /\ Cardinality({a} \cup {b}) = 2
  BY <1>1, <1>2, FS_AddElement
<1> QED BY <1>1, <1>3

(* What Places means for the variant, type by type.                        *)
LEMMA OnePlace ==
  ASSUME IInv, Places, Translated, NEW T \in Types
  PROVE  LET uses == {n \in DOMAIN calls : calls[n] = T}
         IN  Cardinality({i \in DOMAIN Variant : Variant[i] = T}) =
               IF T = calls[1] /\ Cardinality(uses) > 1 THEN 2
               ELSE IF uses # {} THEN 1 ELSE 0
<1>1. PICK n \in Nat, N \in Nat :
        /\ n = Len(injector) /\ n = Len(calls) /\ n > 0 /\ DOMAIN calls = 1..n
        /\ N = Len(flags) /\ N > 0 /\ flags # <<>> /\ N <= n /\ n <= MaxCalls
  BY VariateAssumption DEF IInv, TypeOK, Translated, Places
<1>2. DOMAIN Variant = 1..N /\ \A i \in 1..N : Variant[i] = Injected(i)
  <2>1. Variant = flags[N] /\ N \in DOMAIN flags /\ flags[N] \in Seq(Types)
    BY <1>1, LastFlag DEF IInv, TypeOK
  <2>2. Len(flags[N]) = N /\ \A k \in 1..N : flags[N][k] = Injected(k)
    BY <2>1 DEF IInv, ListsAgree
  <2> QED BY <2>1, <2>2
<1>3. Injected(1) = calls[1]
  BY <1>1 DEF Translated, Places
<1> DEFINE d == deduced[T][0]
           P == {i \in DOMAIN Variant : Variant[i] = T}
           uses == {m \in DOMAIN calls : calls[m] = T}
<1>4. d \in 0..(N - 1) \cup {NONE} /\ d # 0 /\ NONE \notin Nat /\ 0 \in 0..MaxCalls
  <2>1. deduced \in [Types -> [0..MaxCalls -> 0..(N - 1) \cup {NONE}]]
    BY <1>1 DEF IInv, TypeOK
  <2>2. MaxCalls \in Nat /\ NONE \notin Nat /\ 0 \in 0..MaxCalls
    BY VariateAssumption
  <2>3. d # 0
    BY DEF Places
  <2> QED BY <2>1, <2>2, <2>3
<1>5. d # NONE => d \in 1..(N - 1) /\ Injected(d + 1) = T
  BY <1>1, <1>4 DEF IInv, IndexesAgree
<1>6. \A i \in 2..N : Injected(i) = T => d = i - 1
  BY <1>1 DEF Places
<1>7. d # NONE <=> \E m \in 2..n : calls[m] = T
  BY <1>1 DEF Places
<1>8. IsFiniteSet(1..n) /\ uses \in SUBSET (1..n)
  BY <1>1, FS_Interval
<1>9. IsFiniteSet(uses) /\ Cardinality(uses) \in Nat
  BY <1>8, FS_Subset, FS_CardinalityType
<1>10. CASE T = calls[1] /\ d # NONE
  <2>1. P = {1, d + 1} /\ 1 # d + 1
    BY <1>1, <1>2, <1>3, <1>5, <1>6, <1>10
  <2>2. Cardinality(P) = 2
    <3>1. Cardinality({1, d + 1}) = 2
      BY <2>1, PairOfTwo
    <3> QED BY <2>1, <3>1
  <2>3. PICK m \in 2..n : calls[m] = T
    BY <1>7, <1>10
  <2>4. {1, m} \in SUBSET uses /\ 1 # m
    BY <1>1, <1>10, <2>3
  <2>5. Cardinality({1, m}) = 2
    BY <2>4, PairOfTwo
  <2>6. Cardinality({1, m}) <= Cardinality(uses)
    BY <1>9, <2>4, FS_Subset
  <2>7. Cardinality(uses) > 1
    BY <1>9, <2>5, <2>6
  <2> QED BY <1>10, <2>2, <2>7
<1>11. CASE T = calls[1] /\ d = NONE
  <2>1. P = {1} /\ uses = {1}
    <3>1. P = {1}
      BY <1>1, <1>2, <1>3, <1>4, <1>6, <1>11
    <3>2. uses = {1}
      BY <1>1, <1>7, <1>11
    <3> QED BY <3>1, <3>2
  <2>2. Cardinality(P) = 1 /\ Cardinality(uses) = 1
    BY <2>1, FS_Singleton
  <2> QED BY <2>1, <2>2
<1>12. CASE T # calls[1] /\ d # NONE
  <2>1. P = {d + 1}
    BY <1>1, <1>2, <1>3, <1>5, <1>6, <1>12
  <2>2. uses # {}
    BY <1>1, <1>7, <1>12
  <2>3. Cardinality(P) = 1
    BY <2>1, FS_Singleton
  <2> QED BY <1>12, <2>2, <2>3
<1>13. CASE T # calls[1] /\ d = NONE
  <2>1. P = {} /\ uses = {}
    <3>1. P = {}
      BY <1>1, <1>2, <1>3, <1>4, <1>6, <1>13
    <3>2. uses = {}
      BY <1>1, <1>7, <1>13
    <3> QED BY <3>1, <3>2
  <2>2. Cardinality(P) = 0
    BY <2>1, FS_EmptySet
  <2> QED BY <1>13, <2>1, <2>2
<1> QED BY <1>10, <1>11, <1>12, <1>13

(* For every set of types and every sequence of calls of var, the variant  *)
(* has one alternative for each type used, and two for the type of the     *)
(* first call if it is used again.                                         *)
THEOREM PlacesOfTypes == Spec => []OnePlaceEach
<1>1. IInv /\ Places => OnePlaceEach
  BY OnePlace DEF OnePlaceEach
<1> QED BY <1>1, Invariance, PlacesInvariance, PTL
-----------------------------------------------------------------------------
(* f holds `found' of max_element_unchecked after each of n turns.         *)
Loop(list, n, f) ==
  f = [first \in 1..n |->
         IF first = 1 THEN 1
         ELSE IF list[f[first - 1]] < list[first] THEN first ELSE f[first - 1]]

(* The loop can be run for any number of turns: the least number for which *)
(* it could not would be one more than one for which it can.               *)
LEMMA LoopRuns ==
  ASSUME NEW list, NEW n \in Nat, n > 0
  PROVE  \E f : Loop(list, n, f)
<1> DEFINE B == {m \in Nat : m > 0 /\ ~\E f : Loop(list, m, f)}
<1> SUFFICES ASSUME B # {} PROVE FALSE
  OBVIOUS
<1>1. Min(B) \in B /\ \A y \in B : Min(B) <= y
  BY MinIsMember
<1>2. PICK m \in B : \A y \in B : m <= y
  BY <1>1
<1>3. m \in Nat /\ m > 0 /\ ~\E f : Loop(list, m, f)
  OBVIOUS
<1>4. CASE m = 1
  <2>1. Loop(list, m, [first \in 1..m |-> 1])
    BY <1>4 DEF Loop
  <2> QED BY <1>3, <2>1
<1>5. CASE m > 1
  <2>1. m - 1 \in Nat /\ m - 1 > 0 /\ ~(m <= m - 1)
    BY <1>3, <1>5
  <2>2. PICK f : Loop(list, m - 1, f)
    BY <1>2, <2>1
  <2>3. f = [first \in 1..(m - 1) |->
               IF first = 1 THEN 1
               ELSE IF list[f[first - 1]] < list[first] THEN first ELSE f[first - 1]]
    BY <2>2 DEF Loop
  <2> DEFINE g == [k \in 1..m |-> IF k < m THEN f[k]
                                  ELSE IF list[f[m - 1]] < list[m] THEN m ELSE f[m - 1]]
             h == [first \in 1..m |->
                     IF first = 1 THEN 1
                     ELSE IF list[g[first - 1]] < list[first] THEN first ELSE g[first - 1]]
  <2>4. ASSUME NEW k \in 1..m PROVE g[k] = h[k]
    <3>1. CASE k = 1
      BY <1>3, <1>5, <2>3, <3>1
    <3>2. CASE k > 1
      <4>1. k - 1 \in 1..m /\ k - 1 < m /\ k - 1 \in 1..(m - 1) /\ k # 1
        BY <1>3, <3>2
      <4>2. g[k - 1] = f[k - 1]
        BY <4>1
      <4>3. CASE k = m
        BY <4>1, <4>2, <4>3
      <4>4. CASE k < m
        <5>1. k \in 1..(m - 1)
          BY <1>3, <4>4
        <5>2. f[k] = IF list[f[k - 1]] < list[k] THEN k ELSE f[k - 1]
          BY <2>3, <4>1, <5>1
        <5> QED BY <4>1, <4>2, <4>4, <5>2
      <4> QED BY <1>3, <4>3, <4>4
    <3> QED BY <1>3, <3>1, <3>2
  <2>5. g = h
    BY <2>4
  <2>6. Loop(list, m, g)
    <3> HIDE DEF g
    <3> QED BY <2>5 DEF Loop
  <2> QED BY <1>3, <2>6
<1> QED BY <1>3, <1>4, <1>5

(* After every turn `found' is at a largest element of those compared.     *)
LEMMA LoopFindsMax ==
  ASSUME NEW list \in Seq(Nat), NEW n \in Nat, n <= Len(list), NEW f, Loop(list, n, f),
         NEW k \in 1..n
  PROVE  f[k] \in 1..k /\ \A j \in 1..k : list[j] <= list[f[k]]
<1> DEFINE Good(m) == f[m] \in 1..m /\ \A j \in 1..m : list[j] <= list[f[m]]
           B == {m \in 1..n : ~Good(m)}
<1> SUFFICES ASSUME B # {} PROVE FALSE
  OBVIOUS
<1>1. Min(B) \in B /\ \A y \in B : Min(B) <= y
  <2>1. B \in SUBSET Nat
    OBVIOUS
  <2> HIDE DEF B
  <2> QED BY <2>1, MinIsMember
<1>2. PICK m \in B : \A y \in B : m <= y
  BY <1>1
<1>3. m \in 1..n /\ ~Good(m) /\ Len(list) \in Nat
  OBVIOUS
<1>4. f[m] = IF m = 1 THEN 1 ELSE IF list[f[m - 1]] < list[m] THEN m ELSE f[m - 1]
  BY <1>3 DEF Loop
<1>5. \A j \in 1..m : list[j] \in Nat
  BY <1>3
<1>6. CASE m = 1
  BY <1>3, <1>4, <1>5, <1>6
<1>7. CASE m > 1
  <2>1. m - 1 \in 1..n /\ ~(m <= m - 1)
    BY <1>3, <1>7
  <2>2. Good(m - 1)
    BY <1>2, <2>1
  <2>3. PICK g \in 1..(m - 1) : g = f[m - 1] /\ \A j \in 1..(m - 1) : list[j] <= list[g]
    BY <2>2
  <2>4. list[g] \in Nat /\ list[m] \in Nat
    BY <1>3, <1>5, <2>3
  <2>5. CASE list[g] < list[m]
    <3>1. f[m] = m
      BY <1>4, <1>7, <2>3, <2>5
    <3>2. ASSUME NEW j \in 1..m PROVE list[j] <= list[m]
      <4>1. CASE j = m
        BY <2>4, <4>1
      <4>2. CASE j \in 1..(m - 1)
        <5>1. list[j] \in Nat /\ list[j] <= list[g]
          BY <1>5, <2>3, <4>2
        <5> QED BY <2>4, <2>5, <5>1
      <4> QED BY <1>3, <4>1, <4>2
    <3> QED BY <1>3, <3>1, <3>2
  <2>6. CASE ~(list[g] < list[m])
    <3>1. f[m] = g
      BY <1>4, <1>7, <2>3, <2>6
    <3>2. \A j \in 1..m : list[j] <= list[g]
      BY <1>3, <2>3, <2>4, <2>6
    <3>3. g \in 1..m
      BY <1>3, <2>3
    <3> QED BY <1>3, <3>1, <3>2, <3>3
  <2> QED BY <2>5, <2>6
<1> QED BY <1>3, <1>6, <1>7

(* max_value returns a value that none of the list exceeds.                *)
LEMMA MaxIsMax ==
  ASSUME NEW list \in Seq(Nat), NEW j \in 1..Len(list)
  PROVE  max_value(list) \in Nat /\ list[j] <= max_value(list)
<1>1. PICK n \in Nat : n = Len(list) /\ n > 0 /\ DOMAIN list = 1..n
  OBVIOUS
<1> DEFINE f == CHOOSE g : g = [first \in DOMAIN list |->
                  IF first = 1 THEN 1
                  ELSE IF list[g[first - 1]] < list[first] THEN first ELSE g[first - 1]]
<1>2. max_element_unchecked(list) = f[n]
  BY <1>1 DEF max_element_unchecked
<1>3. f = CHOOSE g : Loop(list, n, g)
  BY <1>1 DEF Loop
<1> HIDE DEF f
<1>4. Loop(list, n, f)
  BY <1>1, <1>3, LoopRuns
<1>5. f[n] \in 1..n /\ \A i \in 1..n : list[i] <= list[f[n]]
  BY <1>1, <1>4, LoopFindsMax
<1> QED BY <1>1, <1>2, <1>5 DEF max_value

(* No alternative of a list of types is larger than its MAX_SIZE.          *)
LEMMA MaxSizeBounds ==
  ASSUME NEW types \in Seq(Types), NEW i \in 1..Len(types)
  PROVE  SizeOf[types[i]] \in Nat /\ SizeOf[types[i]] <= MAX_SIZE(types) /\ MAX_SIZE(types) \in Nat
<1> DEFINE sizes == [k \in DOMAIN types |-> SizeOf[types[k]]]
<1>1. sizes \in Seq(Nat) /\ Len(sizes) = Len(types)
  <2>1. Len(types) \in Nat /\ DOMAIN types = 1..Len(types)
        /\ \A k \in 1..Len(types) : SizeOf[types[k]] \in Nat
    BY VariateAssumption
  <2> QED BY <2>1
<1>2. sizes[i] = SizeOf[types[i]]
  OBVIOUS
<1>3. MAX_SIZE(types) = max_value(sizes)
  BY DEF MAX_SIZE
<1> HIDE DEF sizes
<1>4. sizes[i] \in Nat /\ max_value(sizes) \in Nat /\ sizes[i] <= max_value(sizes)
  BY <1>1, MaxIsMax
<1> QED BY <1>2, <1>3, <1>4

(* make_variant is past its constraint only if the largest alternative     *)
(* fits.                                                                   *)
Constrained == stage \in {"run", "done"} => MAX_SIZE(Variant) <= Size

(* Only Constrain moves on from translation, and no step after it changes  *)
(* the variant.                                                            *)
THEOREM ConstrainedFirst == Spec => []Constrained
<1>1. Init => Constrained
  BY DEF Init, Constrained
<1>2. Constrained /\ [Next]_vars => Constrained'
  <2> SUFFICES ASSUME Constrained, [Next]_vars PROVE Constrained'
    OBVIOUS
  <2>1. CASE Translate
    BY <2>1 DEF Translate, Constrained
  <2>2. CASE Constrain \/ (\E n \in DOMAIN calls : Invoke(n)) \/ ToVariant \/ UNCHANGED vars
    <3>1. flags' = flags
      BY <2>2 DEF Constrain, Invoke, ToVariant, vars
    <3>2. Variant' = Variant
      BY <3>1 DEF Variant, LastFlagInstantation, ValidFlag
    <3>3. stage' \in {"run", "done"} => MAX_SIZE(Variant) <= Size
      BY <2>2 DEF Constrain, Invoke, ToVariant, vars, Constrained
    <3> QED BY <3>2, <3>3 DEF Constrained
  <2> QED BY <2>1, <2>2 DEF Next
<1> QED BY <1>1, <1>2, PTL DEF Spec

(* For all types, sizes and sequences of calls, a function that            *)
(* make_variant accepts constructs nothing larger than Erased's buffer.    *)
THEOREM NothingTooLarge == Spec => []Fits
<1>1. IInv /\ Constrained => Fits
  <2> SUFFICES ASSUME IInv, Constrained, erased # NONE PROVE SizeOf[erased.type] <= Size
    BY DEF Fits
  <2>1. PICK n \in DOMAIN calls : erased = [index |-> injector[n], type |-> calls[n]]
    BY DEF IInv, ErasedAgrees
  <2>2. PICK N \in Nat :
          /\ N = Len(flags) /\ injector[n] \in 0..(N - 1) /\ flags # <<>>
          /\ Injected(injector[n] + 1) = calls[n] /\ stage \in {"run", "done"}
    <3>1. stage \in {"run", "done"} /\ Len(injector) = Len(calls)
      BY DEF IInv, ErasedAgrees
    <3>2. n \in DOMAIN injector /\ injector[n] \in 0..(Len(flags) - 1) /\ Len(flags) \in Nat
      BY <3>1 DEF IInv, TypeOK
    <3>3. flags # <<>>
      BY <3>2
    <3>4. Injected(injector[n] + 1) = calls[n]
      BY <3>2 DEF IInv, IndexesAgree
    <3> QED BY <3>1, <3>2, <3>3, <3>4
  <2>3. Variant = flags[N] /\ N \in DOMAIN flags /\ flags[N] \in Seq(Types)
    BY <2>2, LastFlag DEF IInv, TypeOK
  <2>4. Len(flags[N]) = N /\ flags[N][injector[n] + 1] = calls[n]
    BY <2>2, <2>3 DEF IInv, ListsAgree
  <2>5. PICK i \in 1..Len(Variant) : Variant[i] = calls[n]
    BY <2>2, <2>3, <2>4
  <2>6. MAX_SIZE(Variant) <= Size
    BY <2>2 DEF Constrained
  <2>7. SizeOf[calls[n]] \in Nat /\ SizeOf[calls[n]] <= MAX_SIZE(Variant) /\ MAX_SIZE(Variant) \in Nat
    BY <2>3, <2>5, MaxSizeBounds
  <2>8. SizeOf[calls[n]] <= Size
    BY <2>6, <2>7, VariateAssumption
  <2> QED BY <2>1, <2>8
<1> QED BY <1>1, Invariance, ConstrainedFirst, PTL
=============================================================================
