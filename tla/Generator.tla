------------------------------ MODULE Generator ------------------------------
(***************************************************************************)
(* The protoc plug-in of src/gz/Generator.cc: replaceAll, a search and     *)
(* replace over size_t positions, and Generate, which inserts text into    *)
(* the files that protoc's C++ generator writes.  A behaviour is one call  *)
(* of either.                                                              *)
(*                                                                         *)
(* Text is a sequence of characters for replaceAll.  A file name is a      *)
(* sequence of pieces, ".proto" being one, and inserted text is reduced to *)
(* what it defines and the warnings it pushes and pops.                    *)
(***************************************************************************)
EXTENDS Integers, SequencesExt

CONSTANTS
  Chars,             (* the characters of a text                           *)
  MaxSrc, MaxValue,  (* bounds: length of _src, of the other two           *)
  Width,             (* bits of a size_t                                   *)
  MaxPieces          (* bound: pieces of a file name                       *)

(* The longest text that a bounded call can make has a length in size_t.   *)
(* (That a power of 2 is a natural number is said for the proofs.)         *)
ASSUME GeneratorAssumption ==
  /\ MaxSrc \in Nat /\ MaxValue \in Nat /\ MaxPieces \in Nat
  /\ Width \in Nat /\ 2 ^ Width \in Nat
  /\ 2 ^ Width > (MaxSrc + 1) * (MaxValue + 1) + MaxValue

VARIABLES
  stage,             (* where the call stands                              *)
  args,              (* its arguments                                      *)
  src, i,            (* replaceAll: _src and the position                  *)
  files,             (* Generate: headerFilename and sourceFilename        *)
  inserted           (* Generate: what was inserted where                  *)

generatorVars == <<stage, args, src, i, files, inserted>>

npos == 2 ^ Width - 1

Texts(n) == SeqOf(Chars, n)
Piece == {"stem", ".proto", "devel"}

(* Either function is called, with any arguments within the bounds.        *)
ReplaceAllCalled ==
  /\ stage = "replaceAll"
  /\ args \in [src : Texts(MaxSrc), old : Texts(MaxValue), new : Texts(MaxValue)]
  /\ src = args.src

GenerateCalled ==
  /\ stage = "Generate"
  /\ args \in [name : SeqOf(Piece, MaxPieces) \ {<<>>}, messages : 0..2]
  /\ src = <<>>

GeneratorInit ==
  /\ ReplaceAllCalled \/ GenerateCalled
  /\ i = 0 /\ files = <<>> /\ inserted = <<>>
-----------------------------------------------------------------------------
(* std::string::find: the first place of text in s, not before from.       *)
find(s, text, from) ==
  LET places == {p \in from..(Len(s) - Len(text)) : SubSeq(s, p + 1, p + Len(text)) = text}
  IN  IF places = {} THEN npos ELSE Min(places)

(* std::string::replace of n characters at p.                              *)
replace(s, p, n, text) == SubSeq(s, 1, p) \o text \o SubSeq(s, p + n + 1, Len(s))

(* A defect to tell Returns by: the search goes on where it found.         *)
Step_NotPast(p) == (p + Len(args.new) - Len(args.old)) % 2 ^ Width

(* A defect to tell ReplacesAll by: the length of the new text is counted  *)
(* from the place found.                                                   *)
Step_NewOnly(p) == (p + Len(args.new) + 1) % 2 ^ Width

(* Where the search goes on, in size_t.                                    *)
Step(p) == (p + Len(args.new) - Len(args.old) + 1) % 2 ^ Width

(* One turn of replaceAll's loop, and its end.                             *)
ReplaceNext ==
  LET p == find(src, args.old, i) IN
  /\ stage = "replaceAll" /\ p # npos
  /\ src' = replace(src, p, Len(args.old), args.new)
  /\ i' = Step(p)
  /\ UNCHANGED <<stage, args, files, inserted>>

ReplaceEnd ==
  /\ stage = "replaceAll" /\ find(src, args.old, i) = npos
  /\ stage' = "replaced"
  /\ UNCHANGED <<args, src, i, files, inserted>>
-----------------------------------------------------------------------------
Places(name) == {k \in DOMAIN name : name[k] = ".proto"}

(* A defect to tell InsertsIntoCpp by: the first ".proto" of the name.     *)
rfind_First(name) == Min(Places(name))

rfind(name) == Max(Places(name))

(* The names of both files.  Without ".proto" replace is called with npos  *)
(* and throws.                                                             *)
Names ==
  /\ stage = "Generate"
  /\ IF Places(args.name) = {} THEN stage' = "thrown" /\ UNCHANGED files
     ELSE /\ stage' = "includes"
          /\ files' = LET p == rfind(args.name) IN
                      [header |-> [args.name EXCEPT ![p] = ".pb.h"],
                       source |-> [args.name EXCEPT ![p] = ".pb.cc"]]
  /\ UNCHANGED <<args, src, i, inserted>>

Insert(file, point, text) == inserted' = Append(inserted, [file |-> file, point |-> point, text |-> text])

HeaderIncludes ==
  /\ stage = "includes"
  /\ Insert(files.header, "includes", {<<"warning push">>, <<"include <memory>">>})
  /\ stage' = "source includes"
  /\ UNCHANGED <<args, src, i, files>>

(* message_type(0): of a file without messages it is no message, and its   *)
(* name is garbage if reading it does not end the plug-in.                 *)
FirstMessage == IF args.messages > 0 THEN {"first"} ELSE {"garbage", "crash"}

SourceIncludes ==
  /\ stage = "source includes"
  /\ \E m \in FirstMessage :
       IF m = "crash" THEN stage' = "crashed" /\ UNCHANGED inserted
       ELSE /\ Insert(files.source, "includes", {<<"register", m>>})
            /\ stage' = "namespace_scope"
  /\ UNCHANGED <<args, src, i, files>>

PtrTypes == {"UniquePtr", "ConstUniquePtr", "SharedPtr", "ConstSharedPtr"}

NamespaceScope ==
  /\ stage = "namespace_scope"
  /\ \E m \in FirstMessage :
       IF m = "crash" THEN stage' = "crashed" /\ UNCHANGED inserted
       ELSE /\ Insert(files.header, "namespace_scope", PtrTypes \X {m})
            /\ stage' = "global_scope"
  /\ UNCHANGED <<args, src, i, files>>

GlobalScope ==
  /\ stage = "global_scope"
  /\ Insert(files.header, "global_scope", {<<"warning pop">>})
  /\ stage' = "returned"
  /\ UNCHANGED <<args, src, i, files>>
-----------------------------------------------------------------------------
GeneratorNext == ReplaceNext \/ ReplaceEnd \/ Names \/ HeaderIncludes \/ SourceIncludes
                 \/ NamespaceScope \/ GlobalScope

GeneratorSpec == GeneratorInit /\ [][GeneratorNext]_generatorVars /\ WF_generatorVars(GeneratorNext)
-----------------------------------------------------------------------------
(* The text with every occurrence of old replaced, from left to right,     *)
(* what was put in left alone.  The empty text occurs at every position.   *)
Reference(s, old, new) ==
  LET L == Len(old)
      From[k \in 0..Len(s)] ==
        LET keep == IF k = Len(s) THEN <<>> ELSE <<s[k + 1]>> \o From[k + 1]
        IN  IF k + L > Len(s) \/ SubSeq(s, k + 1, k + L) # old THEN keep
            ELSE new \o (IF L = 0 THEN keep ELSE From[k + L])
  IN  From[0]

(* No occurrence of old can begin in what was put in, and the step back    *)
(* does not go behind it.                                                  *)
Separate(old, new) ==
  /\ Len(new) + 1 >= Len(old)
  /\ \A n \in 1..Len(new) : n < Len(old) =>
       SubSeq(new, Len(new) - n + 1, Len(new)) # SubSeq(old, 1, n)

(* replaceAll replaces what the reference does if the new text is at most  *)
(* one character shorter than the old and does not end as the old begins.  *)
(* (Otherwise the search runs over text already replaced, and i may wrap   *)
(* and end it early: "abcabc" without "abc" is "abc".)                     *)
ReplacesAll ==
  stage = "replaced" /\ Separate(args.old, args.new) => src = Reference(args.src, args.old, args.new)

(* Every call ends: however i moves back, the rest still to be searched    *)
(* gets shorter.                                                           *)
Returns == <>(stage \in {"replaced", "returned", "thrown", "crashed"})

(* The files that protoc's C++ generator writes for name: its suffix       *)
(* ".proto" or ".protodevel" is taken off.                                 *)
CppBase(name) ==
  LET n == Len(name) IN
  CASE name[n] = ".proto" -> Front(name)
    [] n > 1 /\ name[n] = "devel" /\ name[n - 1] = ".proto" -> SubSeq(name, 1, n - 2)
    [] OTHER -> name

(* If Generate returns, it has inserted into files that the C++ generator  *)
(* writes exactly if the name ends in ".proto"; the warnings pushed in the *)
(* header are popped after; and the first message has all its pointer      *)
(* types and its registration exactly if the file has a message.           *)
InsertsIntoCpp ==
  stage = "returned" =>
    LET into(k) == inserted[k].file
        base    == CppBase(args.name)
        texts   == UNION {x.text : x \in ToSet(inserted)}
    IN  /\ Last(args.name) = ".proto" <=>
             \A k \in DOMAIN inserted : into(k) \in {Append(base, ".pb.h"), Append(base, ".pb.cc")}
        /\ \E j, k \in DOMAIN inserted : /\ j < k /\ into(j) = into(k) /\ into(k) = files.header
                                         /\ <<"warning push">> \in inserted[j].text
                                         /\ <<"warning pop">> \in inserted[k].text
        /\ (PtrTypes \cup {"register"}) \X {"first"} \subseteq texts <=> args.messages > 0
=============================================================================
