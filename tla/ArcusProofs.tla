---------------------------- MODULE ArcusProofs ----------------------------
(***************************************************************************)
(* Each object list is answered by its own updates and its own             *)
(* SlicedObjectList, for every set of objects, every length of the lists   *)
(* and every number of messages: the inductive invariant IInv.             *)
(***************************************************************************)
EXTENDS Arcus, SequenceTheorems, TLAPS

List  == SeqOf(Object, MaxObjects)
Taken == [objects : List, from : Nat]

Update(list, k) == [type |-> "ProgressUpdate", objectId |-> list[k].id,
                    amount |-> Amount(k, Len(list))]

SlicedObjects(list, n) == [k \in 1..n |-> Sliced(list[k])]

(* What sendMessage is given.                                              *)
Message == [type : {"ProgressUpdate"}, objectId : {o.id : o \in Object}, amount : Int]
           \cup [type : {"SlicedObjectList"}, objects : Seq({Sliced(o) : o \in Object})]

TypeOK ==
  /\ state \in {"Connecting", "Connected", "Closing", "Closed", "Error"}
  /\ inbox \in Seq(ObjectList \cup OtherMessage)
  /\ taken \in Seq(Taken)
  /\ pc \in {"wait", "poll", "closed?", "error?", "take", "slice", "close", "done"}
  /\ objects \in List
  /\ progress \in Nat
  /\ sent \in Seq(Message)

(* The answers follow each other, and all but the one under way are whole. *)
InTurn ==
  \A n \in DOMAIN taken :
    /\ taken[n].from = IF n = 1 THEN 0 ELSE AnswerEnd(n - 1)
    /\ n < Len(taken) => AnswerEnd(n) <= Len(sent)

(* The part sent of the n-th answer is the answer to the n-th list.        *)
Answers(n) ==
  LET list == taken[n].objects
      from == taken[n].from
  IN  /\ \A k \in 1..Len(list) : from + k <= Len(sent) => sent[from + k] = Update(list, k)
      /\ AnswerEnd(n) <= Len(sent) =>
           sent[AnswerEnd(n)] = [type |-> "SlicedObjectList",
                                 objects |-> SlicedObjects(list, Len(list))]

AllAnswered == \A n \in DOMAIN taken : Answers(n)

(* handleMessage at its second loop.                                       *)
Slicing ==
  pc = "slice" =>
    /\ taken # <<>> /\ objects = Last(taken).objects
    /\ progress <= Len(objects)
    /\ msg = SlicedObjects(objects, progress)
    /\ Len(sent) = Last(taken).from + progress

IInv == TypeOK /\ InTurn /\ AllAnswered /\ Slicing /\ NothingHalfAnswered
-----------------------------------------------------------------------------
(* A list of objects is a sequence.                                        *)
LEMMA ListIsSeq ==
  ASSUME NEW list \in List
  PROVE  list \in Seq(Object) /\ Len(list) \in Nat
BY ArcusAssumption, LenProperties DEF List, SeqOf

(* The part of a list that was sliced is a sequence as long as it should.  *)
LEMMA SlicedSeq ==
  ASSUME NEW list \in List, NEW n \in 0..Len(list)
  PROVE  /\ SlicedObjects(list, n) \in Seq({Sliced(o) : o \in Object})
         /\ Len(SlicedObjects(list, n)) = n
         /\ \A k \in 1..n : SlicedObjects(list, n)[k] = Sliced(list[k])
<1>1. list \in Seq(Object) /\ Len(list) \in Nat /\ n \in Nat
  BY ListIsSeq
<1>2. \A k \in 1..n : Sliced(list[k]) \in {Sliced(o) : o \in Object}
  BY <1>1
<1>3. SlicedObjects(list, n) \in [1..n -> {Sliced(o) : o \in Object}]
  BY <1>2 DEF SlicedObjects
<1>4. SlicedObjects(list, n) \in Seq({Sliced(o) : o \in Object})
  BY <1>1, <1>3
<1> QED BY <1>1, <1>3, <1>4, LenProperties DEF SlicedObjects

(* One turn of the loop slices one object more.                            *)
LEMMA SliceOneMore ==
  ASSUME NEW list \in List, NEW n \in Nat, n < Len(list)
  PROVE  Append(SlicedObjects(list, n), Sliced(list[n + 1])) = SlicedObjects(list, n + 1)
<1> DEFINE S == {Sliced(o) : o \in Object}
           s == Append(SlicedObjects(list, n), Sliced(list[n + 1]))
           t == SlicedObjects(list, n + 1)
<1>1. list \in Seq(Object) /\ Len(list) \in Nat
  BY ListIsSeq
<1>2. Sliced(list[n + 1]) \in S
  BY <1>1
<1>0. n \in 0..Len(list) /\ n + 1 \in 0..Len(list)
  BY <1>1
<1>3. /\ SlicedObjects(list, n) \in Seq(S) /\ Len(SlicedObjects(list, n)) = n
      /\ \A k \in 1..n : SlicedObjects(list, n)[k] = Sliced(list[k])
  BY <1>0, SlicedSeq
<1>4. t \in Seq(S) /\ Len(t) = n + 1 /\ \A k \in 1..(n + 1) : t[k] = Sliced(list[k])
  BY <1>0, SlicedSeq
<1> HIDE DEF S
<1>5. /\ s \in Seq(S) /\ Len(s) = n + 1
      /\ \A k \in 1..n : s[k] = Sliced(list[k])
      /\ s[n + 1] = Sliced(list[n + 1])
  BY <1>2, <1>3, AppendProperties
<1>6. \A k \in 1..Len(s) : s[k] = t[k]
  BY <1>4, <1>5
<1> HIDE DEF s, t
<1> QED BY <1>4, <1>5, <1>6, SeqEqual DEF s, t

(* The progress of an object is a whole number, grows with the object and  *)
(* is 100 for the last.                                                    *)
LEMMA AmountFacts ==
  ASSUME NEW size \in Nat, size > 0
  PROVE  /\ \A n \in 1..size : Amount(n, size) \in Int
         /\ \A n \in 2..size : Amount(n - 1, size) <= Amount(n, size)
         /\ Amount(size, size) = 100
<1>1. ASSUME NEW n \in 1..size PROVE Amount(n, size) \in Int
  BY DEF Amount
<1>2. ASSUME NEW n \in 2..size PROVE Amount(n - 1, size) <= Amount(n, size)
  BY DEF Amount
<1>3. Amount(size, size) = 100
  BY DEF Amount
<1> QED BY <1>1, <1>2, <1>3

(* An update and a sliced list are messages.                               *)
LEMMA UpdateIsMessage ==
  ASSUME NEW list \in List, NEW k \in 1..Len(list)
  PROVE  Update(list, k) \in Message
<1>1. list \in Seq(Object) /\ Len(list) \in Nat /\ Len(list) > 0
  BY ListIsSeq
<1>2. list[k] \in Object
  BY <1>1
<1>3. Amount(k, Len(list)) \in Int
  BY <1>1, AmountFacts
<1> QED BY <1>2, <1>3 DEF Update, Message

(* The program starts with nothing taken and nothing sent.                 *)
LEMMA InitEstablishes == Init => IInv
<1> SUFFICES ASSUME Init PROVE IInv
  OBVIOUS
<1>1. <<>> \in List
  BY ArcusAssumption DEF List, SeqOf
<1>2. TypeOK
  BY <1>1 DEF Init, TypeOK
<1> QED BY <1>2 DEF Init, IInv, InTurn, AllAnswered, Slicing, NothingHalfAnswered

(* A step that neither takes a list nor sends keeps all answers.           *)
LEMMA AnswersKept ==
  ASSUME IInv, TypeOK', UNCHANGED <<taken, objects, msg, progress, sent>>,
         pc' = "slice" <=> pc = "slice"
  PROVE  IInv'
<1>1. InTurn' /\ Slicing' /\ NothingHalfAnswered'
  BY DEF IInv, InTurn, Slicing, NothingHalfAnswered, AnswerEnd
<1>2. AllAnswered'
  BY DEF IInv, AllAnswered, Answers, AnswerEnd
<1> QED BY <1>1, <1>2 DEF IInv

(* handleMessage's counter says how much of the list is sliced, and with   *)
(* it how much of the answer is sent.                                      *)
LEMMA SlicedAlready ==
  ASSUME IInv, pc = "slice"
  PROVE  /\ Len(msg) = progress /\ progress \in 0..Len(objects)
         /\ msg = SlicedObjects(objects, progress)
         /\ taken # <<>> /\ objects = Last(taken).objects
         /\ Len(sent) = Last(taken).from + progress
<1>1. objects \in List /\ Len(objects) \in Nat /\ progress \in Nat
  BY ListIsSeq DEF IInv, TypeOK
<1>2. progress \in 0..Len(objects)
  BY <1>1 DEF IInv, Slicing
<1>3. Len(SlicedObjects(objects, progress)) = progress
  BY <1>1, <1>2, SlicedSeq
<1> QED BY <1>2, <1>3 DEF IInv, Slicing

(* The types are kept by every step.                                       *)
LEMMA TypeStep ==
  ASSUME IInv, [Next]_vars
  PROVE  TypeOK'
<1> USE DEF IInv
<1> TypeOK
  OBVIOUS
<1>1. CASE StateChanges
  BY <1>1 DEF StateChanges, Ways, TypeOK
<1>2. CASE MessageArrives
  <2>1. PICK m \in ObjectList \cup OtherMessage : inbox' = Append(inbox, m)
    BY <1>2 DEF MessageArrives
  <2>2. inbox' \in Seq(ObjectList \cup OtherMessage)
    BY <2>1, AppendProperties DEF TypeOK
  <2> QED BY <1>2, <2>2 DEF MessageArrives, TypeOK
<1>3. CASE SeeConnected \/ Poll \/ PollClosed \/ PollError \/ TakeNothing \/ Close
  BY <1>3 DEF SeeConnected, Poll, PollClosed, PollError, TakeNothing, Close, Goto, TypeOK
<1>4. CASE TakeOther
  <2>1. inbox' \in Seq(ObjectList \cup OtherMessage)
    BY <1>4, HeadTailProperties DEF TakeOther, TypeOK
  <2> QED BY <1>4, <2>1 DEF TakeOther, TypeOK
<1>5. CASE TakeObjectList
  <2>1. inbox' \in Seq(ObjectList \cup OtherMessage) /\ Head(inbox) \in ObjectList \cup OtherMessage
    BY <1>5, HeadTailProperties DEF TakeObjectList, TypeOK
  <2>2. Head(inbox).objects \in List
    BY <1>5, <2>1 DEF TakeObjectList, ObjectList, OtherMessage, List
  <2>3. Len(sent) \in Nat
    BY LenProperties DEF TypeOK
  <2>4. [objects |-> Head(inbox).objects, from |-> Len(sent)] \in Taken
    BY <2>2, <2>3 DEF Taken
  <2>5. taken' \in Seq(Taken)
    BY <1>5, <2>4, AppendProperties DEF TakeObjectList, TypeOK
  <2> QED BY <1>5, <2>1, <2>2, <2>5 DEF TakeObjectList, TypeOK
<1>6. CASE Slice
  <2>1. progress \in Nat /\ progress < Len(objects) /\ Len(msg) = progress
    BY <1>6, SlicedAlready DEF Slice
  <2>2. Update(objects, progress + 1) \in Message
    BY <2>1, ListIsSeq, UpdateIsMessage DEF TypeOK
  <2>3. sent' = Append(sent, Update(objects, progress + 1)) /\ progress' = progress + 1
    BY <1>6, <2>1 DEF Slice, Update
  <2>4. sent' \in Seq(Message)
    BY <2>2, <2>3, AppendProperties DEF TypeOK
  <2> QED BY <1>6, <2>1, <2>3, <2>4 DEF Slice, TypeOK
<1>7. CASE SendSliced
  <2>1. Len(msg) = progress /\ progress \in 0..Len(objects) /\ msg = SlicedObjects(objects, progress)
    BY <1>7, SlicedAlready DEF SendSliced
  <2>2. msg \in Seq({Sliced(o) : o \in Object})
    BY <2>1, SlicedSeq DEF TypeOK
  <2>3. [type |-> "SlicedObjectList", objects |-> msg] \in Message
    BY <2>2 DEF Message
  <2>4. SlicedList \in Seq(Message)
    BY <2>3 DEF SlicedList
  <2>5. sent' \in Seq(Message)
    BY <1>7, <2>4, ConcatProperties DEF SendSliced, TypeOK
  <2> QED BY <1>7, <2>5 DEF SendSliced, TypeOK
<1>8. CASE UNCHANGED vars
  BY <1>8 DEF vars, TypeOK
<1> QED BY <1>1, <1>2, <1>3, <1>4, <1>5, <1>6, <1>7, <1>8 DEF Next, Main

(* Where a list's answer begins and ends are numbers.                      *)
LEMMA Places ==
  ASSUME TypeOK, NEW n \in DOMAIN taken
  PROVE  /\ n \in 1..Len(taken) /\ taken[n] \in Taken
         /\ taken[n].from \in Nat /\ taken[n].objects \in List
         /\ Len(taken[n].objects) \in Nat /\ AnswerEnd(n) \in Nat
         /\ taken[n].from < AnswerEnd(n)
         /\ \A k \in 1..Len(taken[n].objects) : taken[n].from + k < AnswerEnd(n)
<1>1. n \in 1..Len(taken) /\ taken[n] \in Taken
  BY LenProperties DEF TypeOK
<1>2. taken[n].from \in Nat /\ taken[n].objects \in List
  BY <1>1 DEF Taken
<1>3. Len(taken[n].objects) \in Nat
  BY <1>2, ListIsSeq
<1> QED BY <1>1, <1>2, <1>3 DEF AnswerEnd

(* An answer no later than what is sent stays as it is.                    *)
LEMMA SentStays ==
  ASSUME IInv, NEW x \in Message, sent' = Append(sent, x), taken' = taken,
         NEW n \in DOMAIN taken, AnswerEnd(n) <= Len(sent)
  PROVE  Answers(n)'
<1>1. /\ Len(sent) \in Nat /\ Len(sent') = Len(sent) + 1
      /\ \A i \in 1..Len(sent) : sent'[i] = sent[i]
  BY AppendProperties, LenProperties DEF IInv, TypeOK
<1>2. Answers(n)
  BY DEF IInv, AllAnswered
<1>3. /\ taken[n].from \in Nat /\ Len(taken[n].objects) \in Nat
      /\ AnswerEnd(n) \in Nat /\ AnswerEnd(n) \in 1..Len(sent)
      /\ \A k \in 1..Len(taken[n].objects) : taken[n].from + k \in 1..Len(sent)
  BY <1>1, Places DEF IInv
<1>4. \A k \in 1..Len(taken[n].objects) : sent'[taken[n].from + k] = Update(taken[n].objects, k)
  <2> SUFFICES ASSUME NEW k \in 1..Len(taken[n].objects)
               PROVE  sent'[taken[n].from + k] = Update(taken[n].objects, k)
    OBVIOUS
  <2>1. PICK i \in 1..Len(sent) : i = taken[n].from + k
    BY <1>3
  <2>2. i <= Len(sent)
    BY <1>1
  <2>3. sent[i] = Update(taken[n].objects, k)
    BY <1>2, <2>1, <2>2 DEF Answers
  <2> QED BY <1>1, <2>1, <2>3
<1>5. sent'[AnswerEnd(n)] = [type |-> "SlicedObjectList",
                             objects |-> SlicedObjects(taken[n].objects, Len(taken[n].objects))]
  BY <1>1, <1>2, <1>3 DEF Answers
<1>6. AnswerEnd(n)' = AnswerEnd(n)
  BY DEF AnswerEnd
<1> QED BY <1>4, <1>5, <1>6 DEF Answers

(* What was answered before the list at hand was taken is whole.           *)
LEMMA EarlierWhole ==
  ASSUME IInv, NEW n \in DOMAIN taken, n # Len(taken)
  PROVE  AnswerEnd(n) <= Len(sent)
<1>1. n \in 1..Len(taken) /\ Len(taken) \in Nat
  BY Places, LenProperties DEF IInv, TypeOK
<1> QED BY <1>1 DEF IInv, InTurn

(* Taking a list starts its answer where the one before it ended.          *)
LEMMA TakeObjectListKeeps ==
  ASSUME IInv, TakeObjectList
  PROVE  IInv'
<1>1. TypeOK /\ TypeOK'
  BY TypeStep DEF IInv, Next, Main
<1> DEFINE x == [objects |-> Head(inbox).objects, from |-> Len(sent)]
<1>2. PICK last \in Nat : last = Len(taken)
  BY <1>1, LenProperties DEF TypeOK
<1>3. PICK so \in Nat : so = Len(sent)
  BY <1>1, LenProperties DEF TypeOK
<1>4. objects' \in List /\ x = [objects |-> objects', from |-> so] /\ x \in Taken
  BY <1>1, <1>3 DEF TakeObjectList, TypeOK, Taken
<1>5. taken' = Append(taken, x) /\ sent' = sent /\ pc = "take" /\ pc' = "slice"
      /\ msg' = <<>> /\ progress' = 0
  BY DEF TakeObjectList
<1>6. /\ Len(taken') = last + 1 /\ taken'[last + 1] = x
      /\ \A n \in 1..last : taken'[n] = taken[n]
      /\ DOMAIN taken' = 1..(last + 1) /\ DOMAIN taken = 1..last
  BY <1>1, <1>2, <1>4, <1>5, AppendProperties, LenProperties DEF TypeOK
<1> HIDE DEF x
<1>7. \A n \in 1..last : AnswerEnd(n) \in Nat /\ AnswerEnd(n)' = AnswerEnd(n)
  BY <1>1, <1>6, Places DEF AnswerEnd
<1>8. last = 0 => so = 0
  <2>1. last = 0 => taken = <<>>
    BY <1>1, <1>2, EmptySeq DEF TypeOK
  <2> QED BY <2>1, <1>3, <1>5 DEF IInv, NothingHalfAnswered
<1>9. last > 0 => so = AnswerEnd(last)
  BY <1>2, <1>3, <1>5 DEF IInv, NothingHalfAnswered
<1>10. \A n \in 1..last : AnswerEnd(n) <= so
  <2> SUFFICES ASSUME NEW n \in 1..last PROVE AnswerEnd(n) <= so
    OBVIOUS
  <2>1. CASE n = last
    BY <2>1, <1>7, <1>9
  <2>2. CASE n # last
    BY <2>2, <1>2, <1>3, <1>6, EarlierWhole
  <2> QED BY <2>1, <2>2
<1>11. InTurn'
  <2> SUFFICES ASSUME NEW n \in 1..(last + 1)
               PROVE  /\ taken'[n].from = IF n = 1 THEN 0 ELSE AnswerEnd(n - 1)'
                      /\ n < last + 1 => AnswerEnd(n)' <= so
    BY <1>3, <1>5, <1>6 DEF InTurn
  <2>1. CASE n = last + 1
    BY <2>1, <1>4, <1>6, <1>7, <1>8, <1>9
  <2>2. CASE n \in 1..last
    <3>1. taken[n].from = IF n = 1 THEN 0 ELSE AnswerEnd(n - 1)
      BY <2>2, <1>6 DEF IInv, InTurn
    <3> QED BY <2>2, <3>1, <1>6, <1>7, <1>10
  <2> QED BY <2>1, <2>2
<1>12. AllAnswered'
  <2> SUFFICES ASSUME NEW n \in 1..(last + 1) PROVE Answers(n)'
    BY <1>6 DEF AllAnswered
  <2>1. CASE n = last + 1
    <3>1. taken'[n].from = so /\ Len(taken'[n].objects) \in Nat /\ Len(sent') = so
      BY <2>1, <1>3, <1>4, <1>5, <1>6, ListIsSeq
    <3>2. AnswerEnd(n)' > so
      BY <3>1 DEF AnswerEnd
    <3> QED BY <3>1, <3>2 DEF Answers, AnswerEnd
  <2>2. CASE n \in 1..last
    <3>1. Answers(n) /\ taken'[n] = taken[n] /\ AnswerEnd(n)' = AnswerEnd(n)
      BY <2>2, <1>6, <1>7 DEF IInv, AllAnswered
    <3> QED BY <3>1, <1>5 DEF Answers
  <2> QED BY <2>1, <2>2
<1>13. Slicing'
  <2>1. taken' # <<>> /\ Last(taken') = x
    BY <1>6 DEF Last
  <2>2. msg' = SlicedObjects(objects', 0)
    BY <1>5 DEF SlicedObjects
  <2>3. Len(objects') \in Nat
    BY <1>4, ListIsSeq
  <2> QED BY <2>1, <2>2, <2>3, <1>3, <1>4, <1>5 DEF Slicing
<1>14. NothingHalfAnswered'
  BY <1>5 DEF NothingHalfAnswered
<1> QED BY <1>1, <1>11, <1>12, <1>13, <1>14 DEF IInv

(* The list at hand is the last one taken.                                 *)
LEMMA LastTaken ==
  ASSUME IInv, taken # <<>>
  PROVE  /\ Len(taken) \in DOMAIN taken /\ Last(taken) = taken[Len(taken)]
         /\ \A n \in DOMAIN taken : n # Len(taken) => AnswerEnd(n) <= Len(sent)
<1>1. Len(taken) \in Nat /\ DOMAIN taken = 1..Len(taken) /\ Len(taken) # 0
  BY EmptySeq, LenProperties DEF IInv, TypeOK
<1> QED BY <1>1, EarlierWhole DEF Last

(* What a step that only sends keeps of the order of the answers.          *)
LEMMA TurnsKept ==
  ASSUME IInv, taken' = taken, NEW x \in Message, sent' = Append(sent, x)
  PROVE  InTurn'
<1>1. Len(sent) \in Nat /\ Len(sent') = Len(sent) + 1 /\ Len(taken) \in Nat
  BY AppendProperties, LenProperties DEF IInv, TypeOK
<1>2. \A n : AnswerEnd(n)' = AnswerEnd(n)
  BY DEF AnswerEnd
<1> SUFFICES ASSUME NEW n \in DOMAIN taken
             PROVE  /\ taken[n].from = IF n = 1 THEN 0 ELSE AnswerEnd(n - 1)
                    /\ n < Len(taken) => AnswerEnd(n) <= Len(sent')
  BY <1>2 DEF InTurn
<1>3. AnswerEnd(n) \in Nat
  BY Places DEF IInv
<1> QED BY <1>1, <1>3 DEF IInv, InTurn

(* One turn of the loop sends the update of the next object.               *)
LEMMA SliceKeeps ==
  ASSUME IInv, Slice
  PROVE  IInv'
<1>1. TypeOK /\ TypeOK'
  BY TypeStep DEF IInv, Next, Main
<1>2. /\ Len(msg) = progress /\ progress \in 0..Len(objects)
      /\ msg = SlicedObjects(objects, progress)
      /\ taken # <<>> /\ objects = Last(taken).objects
      /\ Len(sent) = Last(taken).from + progress
  BY SlicedAlready DEF Slice
<1>3. PICK last \in DOMAIN taken :
        /\ last = Len(taken) /\ Last(taken) = taken[last]
        /\ \A n \in DOMAIN taken : n # last => AnswerEnd(n) <= Len(sent)
  BY <1>2, LastTaken
<1>4. PICK from \in Nat, size \in Nat :
        /\ taken[last].from = from /\ size = Len(objects)
        /\ taken[last].objects = objects /\ AnswerEnd(last) = from + size + 1
  BY <1>1, <1>2, <1>3, Places DEF AnswerEnd
<1>5. objects \in List /\ progress \in Nat /\ progress < size /\ Len(sent) = from + progress
  BY <1>1, <1>2, <1>3, <1>4 DEF TypeOK, Slice
<1>6. /\ sent' = Append(sent, Update(objects, progress + 1)) /\ progress' = progress + 1
      /\ msg' = Append(msg, Sliced(objects[progress + 1]))
      /\ UNCHANGED <<taken, pc, objects>> /\ pc = "slice"
  BY <1>2 DEF Slice, Update
<1>7. Update(objects, progress + 1) \in Message
  BY <1>4, <1>5, UpdateIsMessage
<1>8. /\ Len(sent') = from + progress + 1
      /\ \A i \in 1..(from + progress) : sent'[i] = sent[i]
      /\ sent'[from + progress + 1] = Update(objects, progress + 1)
  <2>1. PICK u \in Message : u = Update(objects, progress + 1) /\ sent' = Append(sent, u)
    BY <1>6, <1>7
  <2>2. PICK g \in Nat : g = from + progress /\ Len(sent) = g
    BY <1>5
  <2>3. sent \in Seq(Message)
    BY <1>1 DEF TypeOK
  <2>4. Len(sent') = g + 1 /\ (\A i \in 1..g : sent'[i] = sent[i]) /\ sent'[g + 1] = u
    BY <2>1, <2>2, <2>3, AppendProperties
  <2> QED BY <2>1, <2>2, <2>4
<1>9. InTurn'
  BY <1>6, <1>7, TurnsKept
<1>10. Answers(last)'
  <2>1. AnswerEnd(last)' = from + size + 1
    BY <1>4, <1>6 DEF AnswerEnd
  <2>2. \A k \in 1..size : from + k <= from + progress + 1 => sent'[from + k] = Update(objects, k)
    <3> SUFFICES ASSUME NEW k \in 1..size, k <= progress + 1
                 PROVE  sent'[from + k] = Update(objects, k)
      BY <1>4, <1>5
    <3>1. CASE k = progress + 1
      <4>1. from + k = from + progress + 1
        BY <3>1, <1>5
      <4> QED BY <3>1, <4>1, <1>8
    <3>2. CASE k <= progress
      <4>1. PICK i \in 1..(from + progress) : i = from + k
        BY <3>2, <1>4, <1>5
      <4>2. i <= Len(sent)
        BY <1>5, <4>1
      <4>3. sent[i] = Update(objects, k)
        BY <1>3, <1>4, <4>1, <4>2 DEF IInv, AllAnswered, Answers
      <4> QED BY <1>8, <4>1, <4>3
    <3> QED BY <3>1, <3>2, <1>5
  <2>3. ~(from + size + 1 <= from + progress + 1)
    BY <1>5
  <2> QED BY <1>4, <1>6, <1>8, <2>1, <2>2, <2>3 DEF Answers
<1>11. AllAnswered'
  <2> SUFFICES ASSUME NEW n \in DOMAIN taken PROVE Answers(n)'
    BY <1>6 DEF AllAnswered
  <2>1. CASE n = last
    BY <2>1, <1>10
  <2>2. CASE n # last
    BY <2>2, <1>3, <1>6, <1>7, SentStays
  <2> QED BY <2>1, <2>2
<1>12. Slicing'
  <2>1. msg' = SlicedObjects(objects, progress + 1)
    BY <1>2, <1>4, <1>5, <1>6, SliceOneMore
  <2>2. progress + 1 <= Len(objects)
    BY <1>4, <1>5
  <2>3. Last(taken)' = taken[last]
    BY <1>3, <1>6 DEF Last
  <2> QED BY <1>2, <1>3, <1>4, <1>6, <1>8, <2>1, <2>2, <2>3 DEF Slicing
<1>13. NothingHalfAnswered'
  BY <1>6 DEF NothingHalfAnswered
<1> QED BY <1>1, <1>9, <1>11, <1>12, <1>13 DEF IInv

(* The SlicedObjectList completes the answer to the list at hand.          *)
LEMMA SendSlicedKeeps ==
  ASSUME IInv, SendSliced
  PROVE  IInv'
<1> DEFINE x == [type |-> "SlicedObjectList", objects |-> msg]
<1>1. TypeOK /\ TypeOK'
  BY TypeStep DEF IInv, Next, Main
<1>2. /\ Len(msg) = progress /\ progress \in 0..Len(objects)
      /\ msg = SlicedObjects(objects, progress)
      /\ taken # <<>> /\ objects = Last(taken).objects
      /\ Len(sent) = Last(taken).from + progress
  BY SlicedAlready DEF SendSliced
<1>3. PICK last \in DOMAIN taken :
        /\ last = Len(taken) /\ Last(taken) = taken[last]
        /\ \A n \in DOMAIN taken : n # last => AnswerEnd(n) <= Len(sent)
  BY <1>2, LastTaken
<1>4. PICK from \in Nat, size \in Nat :
        /\ taken[last].from = from /\ size = Len(objects)
        /\ taken[last].objects = objects /\ AnswerEnd(last) = from + size + 1
  BY <1>1, <1>2, <1>3, Places DEF AnswerEnd
<1>5. /\ progress = size /\ Len(sent) = from + size /\ objects \in List
      /\ x = [type |-> "SlicedObjectList", objects |-> SlicedObjects(objects, size)]
  BY <1>1, <1>2, <1>3, <1>4 DEF TypeOK, SendSliced
<1>6. x \in Message
  <2>1. msg \in Seq({Sliced(o) : o \in Object})
    BY <1>2, <1>5, SlicedSeq
  <2> QED BY <2>1 DEF Message
<1>7. sent' = Append(sent, x) /\ UNCHANGED <<taken, objects>> /\ pc' = "poll"
  <2>1. sent' = sent \o <<x>> /\ sent \in Seq(Message)
    BY <1>1 DEF SendSliced, SlicedList, TypeOK
  <2> HIDE DEF x
  <2>2. sent \o <<x>> = Append(sent, x)
    BY <2>1, <1>6
  <2> QED BY <2>1, <2>2 DEF SendSliced
<1> HIDE DEF x
<1>8. /\ Len(sent') = from + size + 1
      /\ \A i \in 1..(from + size) : sent'[i] = sent[i]
      /\ sent'[from + size + 1] = x
  BY <1>1, <1>5, <1>6, <1>7, AppendProperties DEF TypeOK
<1>9. InTurn'
  BY <1>6, <1>7, TurnsKept
<1>10. AnswerEnd(last)' = from + size + 1
  BY <1>4, <1>7 DEF AnswerEnd
<1>11. Answers(last)'
  <2>1. \A k \in 1..size : sent'[from + k] = Update(objects, k)
    <3> SUFFICES ASSUME NEW k \in 1..size PROVE sent'[from + k] = Update(objects, k)
      OBVIOUS
    <3>1. PICK i \in 1..(from + size) : i = from + k
      BY <1>4
    <3>2. i <= Len(sent)
      BY <1>5, <3>1
    <3>3. sent[i] = Update(objects, k)
      BY <1>3, <1>4, <3>1, <3>2 DEF IInv, AllAnswered, Answers
    <3> QED BY <1>8, <3>1, <3>3
  <2> QED BY <1>4, <1>5, <1>7, <1>8, <1>10, <2>1 DEF Answers
<1>12. AllAnswered'
  <2> SUFFICES ASSUME NEW n \in DOMAIN taken PROVE Answers(n)'
    BY <1>7 DEF AllAnswered
  <2>1. CASE n = last
    BY <2>1, <1>11
  <2>2. CASE n # last
    BY <2>2, <1>3, <1>6, <1>7, SentStays
  <2> QED BY <2>1, <2>2
<1>13. Slicing'
  BY <1>7 DEF Slicing
<1>14. NothingHalfAnswered'
  <2>1. Last(taken)' = taken[last] /\ Len(taken)' = last
    BY <1>3, <1>7 DEF Last
  <2> QED BY <1>2, <1>4, <1>7, <1>8, <1>10, <2>1 DEF NothingHalfAnswered
<1> QED BY <1>1, <1>9, <1>12, <1>13, <1>14 DEF IInv

(* Every step keeps IInv.                                                  *)
LEMMA StepPreserves == IInv /\ [Next]_vars => IInv'
<1> SUFFICES ASSUME IInv, [Next]_vars PROVE IInv'
  OBVIOUS
<1>1. TypeOK'
  BY TypeStep
<1>2. CASE StateChanges \/ MessageArrives
  BY <1>1, <1>2, AnswersKept DEF StateChanges, MessageArrives
<1>3. CASE SeeConnected \/ Poll \/ PollClosed \/ PollError \/ TakeNothing \/ Close
  <2>1. pc # "slice" /\ pc' # "slice" /\ UNCHANGED <<taken, objects, msg, progress, sent>>
    BY <1>3 DEF SeeConnected, Poll, PollClosed, PollError, TakeNothing, Close, Goto
  <2> QED BY <1>1, <2>1, AnswersKept
<1>4. CASE TakeOther
  BY <1>1, <1>4, AnswersKept DEF TakeOther
<1>5. CASE TakeObjectList
  BY <1>5, TakeObjectListKeeps
<1>6. CASE Slice
  BY <1>6, SliceKeeps
<1>7. CASE SendSliced
  BY <1>7, SendSlicedKeeps
<1>8. CASE UNCHANGED vars
  BY <1>1, <1>8, AnswersKept DEF vars
<1> QED BY <1>2, <1>3, <1>4, <1>5, <1>6, <1>7, <1>8 DEF Next, Main
-----------------------------------------------------------------------------
(* main answers in turn and in full, whatever the socket's thread does     *)
(* between two of its steps.                                               *)
THEOREM Invariance == Spec => []IInv
BY InitEstablishes, StepPreserves, PTL DEF Spec

(* IInv says what AnswersTheList asks of each answer.                      *)
LEMMA AnswersSuffice == IInv => AnswersTheList
<1> SUFFICES ASSUME IInv, NEW n \in DOMAIN taken
             PROVE  LET list == taken[n].objects
                        from == taken[n].from
                        size == Len(list)
                    IN  /\ from = IF n = 1 THEN 0 ELSE AnswerEnd(n - 1)
                        /\ AnswerEnd(n) <= Len(sent) =>
                             /\ \A k \in 1..size :
                                  /\ sent[from + k].type = "ProgressUpdate"
                                  /\ sent[from + k].objectId = list[k].id
                                  /\ k > 1 => sent[from + k - 1].amount <= sent[from + k].amount
                             /\ size > 0 => sent[from + size].amount = 100
                             /\ sent[AnswerEnd(n)].type = "SlicedObjectList"
                             /\ sent[AnswerEnd(n)].objects = [k \in 1..size |-> Sliced(list[k])]
  BY DEF AnswersTheList
<1>1. PICK from \in Nat, list \in List, size \in Nat, end \in Nat, all \in Nat :
        /\ from = taken[n].from /\ list = taken[n].objects /\ size = Len(list)
        /\ end = AnswerEnd(n) /\ all = Len(sent)
        /\ \A k \in 1..size : from + k < end
  BY Places, LenProperties DEF IInv, TypeOK
<1>2. from = IF n = 1 THEN 0 ELSE AnswerEnd(n - 1)
  BY <1>1 DEF IInv, InTurn
<1>3. ASSUME end <= all
      PROVE  /\ \A k \in 1..size :
                  /\ sent[from + k].type = "ProgressUpdate"
                  /\ sent[from + k].objectId = list[k].id
                  /\ k > 1 => sent[from + k - 1].amount <= sent[from + k].amount
             /\ size > 0 => sent[from + size].amount = 100
             /\ sent[end].type = "SlicedObjectList"
             /\ sent[end].objects = [k \in 1..size |-> Sliced(list[k])]
  <2>1. Answers(n)
    BY DEF IInv, AllAnswered
  <2>2. \A k \in 1..size : sent[from + k] = Update(list, k)
    <3> SUFFICES ASSUME NEW k \in 1..size PROVE sent[from + k] = Update(list, k)
      OBVIOUS
    <3>1. from + k <= all
      BY <1>1, <1>3
    <3> QED BY <1>1, <2>1, <3>1 DEF Answers
  <2>3. \A k \in 1..size : /\ sent[from + k].type = "ProgressUpdate"
                           /\ sent[from + k].objectId = list[k].id
                           /\ sent[from + k].amount = Amount(k, size)
    <3> SUFFICES ASSUME NEW k \in 1..size
                 PROVE  /\ sent[from + k].type = "ProgressUpdate"
                        /\ sent[from + k].objectId = list[k].id
                        /\ sent[from + k].amount = Amount(k, size)
      OBVIOUS
    <3>1. sent[from + k] = [type |-> "ProgressUpdate", objectId |-> list[k].id,
                            amount |-> Amount(k, size)]
      BY <1>1, <2>2 DEF Update
    <3> QED BY <3>1
  <2>4. ASSUME NEW k \in 1..size, k > 1
        PROVE  sent[from + k - 1].amount <= sent[from + k].amount
    <3>1. k - 1 \in 1..size /\ from + (k - 1) = from + k - 1 /\ k \in 2..size /\ size > 0
      BY <2>4
    <3>2. Amount(k - 1, size) <= Amount(k, size)
      BY <3>1, AmountFacts
    <3>3. sent[from + k - 1].amount = Amount(k - 1, size)
      BY <2>3, <3>1
    <3> QED BY <2>3, <3>2, <3>3
  <2>5. ASSUME size > 0 PROVE sent[from + size].amount = 100
    <3>1. size \in 1..size /\ Amount(size, size) = 100
      BY <2>5, AmountFacts
    <3> QED BY <2>3, <3>1
  <2>6. sent[end] = [type |-> "SlicedObjectList", objects |-> SlicedObjects(list, size)]
    BY <1>1, <1>3, <2>1 DEF Answers
  <2>7. sent[end].type = "SlicedObjectList"
        /\ sent[end].objects = [k \in 1..size |-> Sliced(list[k])]
    BY <2>6 DEF SlicedObjects
  <2> QED BY <2>3, <2>4, <2>5, <2>7
<1> QED BY <1>1, <1>2, <1>3

(* Every complete answer of handleMessage is the answer to its own list,   *)
(* in order, and the answers follow each other with nothing between them.  *)
THEOREM AnswersInOrder == Spec => []AnswersTheList
BY Invariance, AnswersSuffice, PTL

(* Whenever main is not inside handleMessage, every list it took has its   *)
(* whole answer sent.                                                      *)
THEOREM NothingLeft == Spec => []NothingHalfAnswered
<1>1. IInv => NothingHalfAnswered
  BY DEF IInv
<1> QED BY <1>1, Invariance, PTL
============================================================================
