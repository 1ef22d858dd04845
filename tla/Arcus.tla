------------------------------- MODULE Arcus -------------------------------
(***************************************************************************)
(* The slicing client of src/arcus/example.cpp: main waits for the         *)
(* connection, then polls the socket, takes one message at a time and      *)
(* answers an ObjectList with a ProgressUpdate per object and a            *)
(* SlicedObjectList.                                                       *)
(*                                                                         *)
(* libArcus is modelled from its use here: its own thread moves the state  *)
(* of the socket and queues what the peer sends, between any two steps of  *)
(* main.  The 1000 polygons of an object all carry its vertices; a sliced  *)
(* object keeps its id and those points.                                   *)
(***************************************************************************)
EXTENDS Integers, SequencesExt

CONSTANTS
  Object,            (* records with an id and vertices                    *)
  MaxObjects,        (* bound: objects in a list                           *)
  MaxMessages        (* bound: messages the peer sends                     *)

ASSUME ArcusAssumption == MaxObjects \in Nat /\ MaxMessages \in Nat

VARIABLES
  state,             (* the socket's state                                 *)
  inbox,             (* messages received and not taken                    *)
  arrived,           (* how many messages the peer has sent                *)
  taken,             (* the object lists handled, in order, each with how  *)
                     (* many messages had been sent before it was taken    *)
  pc,                (* where main stands                                  *)
  objects,           (* the global of that name                            *)
  msg,               (* the SlicedObjectList being filled                  *)
  progress,          (* handleMessage's counter                            *)
  sent               (* the messages given to sendMessage                  *)

vars == <<state, inbox, arrived, taken, pc, objects, msg, progress, sent>>

ObjectList == [type : {"ObjectList"}, objects : SeqOf(Object, MaxObjects)]

(* The registered types that main has no use for.                          *)
OtherMessage == [type : {"ProgressUpdate", "SlicedObjectList"}]

Sliced(o) == [id |-> o.id, points |-> o.vertices]

(* A defect to tell AnswersTheList by: the first object counts for nothing.*)
Amount_FromZero(n, size) == (100 * (n - 1)) \div size

(* float(progress) / float(size) * 100, cut off when stored as an int32.   *)
Amount(n, size) == (100 * n) \div size
-----------------------------------------------------------------------------
Init ==
  /\ state = "Connecting"
  /\ inbox = <<>>
  /\ arrived = 0
  /\ taken = <<>>
  /\ pc = "wait"
  /\ objects = <<>>
  /\ msg = <<>>
  /\ progress = 0
  /\ sent = <<>>

(* The socket's thread.                                                    *)
Ways == {<<"Connecting", "Connected">>, <<"Connecting", "Error">>,
         <<"Connected", "Closing">>, <<"Closing", "Closed">>, <<"Connected", "Error">>}

StateChanges ==
  /\ \E way \in Ways : state = way[1] /\ state' = way[2]
  /\ UNCHANGED <<inbox, arrived, taken, pc, objects, msg, progress, sent>>

MessageArrives ==
  /\ state = "Connected" /\ arrived < MaxMessages
  /\ \E m \in ObjectList \cup OtherMessage : inbox' = Append(inbox, m)
  /\ arrived' = arrived + 1
  /\ UNCHANGED <<state, taken, pc, objects, msg, progress, sent>>
-----------------------------------------------------------------------------
Goto(there) ==
  /\ pc' = there
  /\ UNCHANGED <<state, inbox, arrived, taken, objects, msg, progress, sent>>

(* The first loop leaves only when it happens to see Connected.            *)
SeeConnected == pc = "wait" /\ state = "Connected" /\ Goto("poll")

(* The main loop asks for the state up to three times a turn.              *)
Poll == pc = "poll" /\ Goto(IF state = "Connected" THEN "take" ELSE "closed?")

PollClosed == pc = "closed?" /\ Goto(IF state = "Closed" THEN "close" ELSE "error?")

(* A defect to tell EndsWhenDown by: an error is taken for a closed socket *)
(* that may still connect.                                                 *)
PollError_Ignored == pc = "error?" /\ Goto("poll")

PollError == pc = "error?" /\ Goto(IF state = "Error" THEN "close" ELSE "poll")

(* A defect to tell TakesMessages by: a message is looked at, not taken.   *)
TakeOther_Peeks ==
  /\ pc = "take" /\ inbox # <<>> /\ Head(inbox).type # "ObjectList"
  /\ Goto("poll")

TakeNothing ==
  /\ pc = "take" /\ inbox = <<>>
  /\ Goto("poll")

(* handleMessage with a message of another type: the cast fails.           *)
TakeOther ==
  /\ pc = "take" /\ inbox # <<>> /\ Head(inbox).type # "ObjectList"
  /\ inbox' = Tail(inbox)
  /\ pc' = "poll"
  /\ UNCHANGED <<state, arrived, taken, objects, msg, progress, sent>>

(* handleMessage up to its second loop.                                    *)
TakeObjectList ==
  /\ pc = "take" /\ inbox # <<>> /\ Head(inbox).type = "ObjectList"
  /\ inbox' = Tail(inbox)
  /\ taken' = Append(taken, [objects |-> Head(inbox).objects, from |-> Len(sent)])
  /\ objects' = Head(inbox).objects
  /\ msg' = <<>>
  /\ progress' = 0
  /\ pc' = "slice"
  /\ UNCHANGED <<state, arrived, sent>>

Slice ==
  /\ pc = "slice" /\ Len(msg) < Len(objects)
  /\ LET object == objects[Len(msg) + 1] IN
       /\ msg' = Append(msg, Sliced(object))
       /\ progress' = progress + 1
       /\ sent' = Append(sent, [type |-> "ProgressUpdate", objectId |-> object.id,
                                amount |-> Amount(progress', Len(objects))])
  /\ UNCHANGED <<state, inbox, arrived, taken, pc, objects>>

(* A defect to tell NothingHalfAnswered by: an answer is abandoned when    *)
(* the connection is gone.                                                 *)
SlicedList_IfConnected ==
  IF state = "Connected" THEN <<[type |-> "SlicedObjectList", objects |-> msg]>> ELSE <<>>

SlicedList == <<[type |-> "SlicedObjectList", objects |-> msg]>>

SendSliced ==
  /\ pc = "slice" /\ Len(msg) = Len(objects)
  /\ sent' = sent \o SlicedList
  /\ pc' = "poll"
  /\ UNCHANGED <<state, inbox, arrived, taken, objects, msg, progress>>

(* socket.close() on a socket that is down already, and the end of main.   *)
Close == pc = "close" /\ Goto("done")
-----------------------------------------------------------------------------
Main == SeeConnected \/ Poll \/ PollClosed \/ PollError \/ TakeNothing \/ TakeOther
        \/ TakeObjectList \/ Slice \/ SendSliced \/ Close

Next == StateChanges \/ MessageArrives \/ Main

(* main's thread runs.  Nothing is assumed of the peer or of the network.  *)
Spec == Init /\ [][Next]_vars /\ WF_vars(Main)
-----------------------------------------------------------------------------
(* The end of the answer to the n-th list taken, once it is complete: as   *)
(* many updates as the list has objects, and one SlicedObjectList.         *)
AnswerEnd(n) == taken[n].from + Len(taken[n].objects) + 1

(* Every complete answer, whatever the socket did meanwhile, names the     *)
(* objects of its own list in order, its progress never goes back and      *)
(* reaches 100 with the last object, and the list sliced is the list       *)
(* asked for; the answers follow each other with nothing between them: no  *)
(* answer mixes with another or uses the previous `objects'.               *)
AnswersTheList ==
  \A n \in DOMAIN taken :
    LET list == taken[n].objects
        from == taken[n].from
        size == Len(list)
    IN  /\ from = IF n = 1 THEN 0 ELSE AnswerEnd(n - 1)
        /\ AnswerEnd(n) <= Len(sent) =>
             /\ \A k \in 1..size :
                  /\ sent[from + k].type = "ProgressUpdate"
                  /\ sent[from + k].objectId = list[k].id
                  /\ k > 1 => sent[from + k - 1].amount <= sent[from + k].amount
             /\ size > 0 => sent[from + size].amount = 100
             /\ sent[AnswerEnd(n)].type = "SlicedObjectList"
             /\ sent[AnswerEnd(n)].objects = [k \in 1..size |-> Sliced(list[k])]

(* Between two messages nothing is left unanswered, even if the connection *)
(* went down while the answer was being sent.                              *)
NothingHalfAnswered ==
  pc # "slice" =>
    IF taken = <<>> THEN sent = <<>>
    ELSE Len(sent) = AnswerEnd(Len(taken)) /\ objects = Last(taken).objects

(* Once the first loop is over, a socket that has gone down ends main,     *)
(* through whichever of the three polls sees it.                           *)
EndsWhenDown == (pc # "wait" /\ state \in {"Closed", "Error"}) ~> pc = "done"

(* While the connection lasts, no message waits for ever.                  *)
TakesMessages == (pc # "wait" /\ inbox # <<>>) ~> (inbox = <<>> \/ state # "Connected")
=============================================================================
