# vcpkg-test: specification, model checking and proofs

The repository is a collection of small C++ programs, each written to exercise a
library from vcpkg. They share no state and no process; each is a system of its
own. This directory holds TLA+ modules for those that have behaviour of their
own, TLC configurations for small instances, and TLAPS proofs.

## 1. Inventory

| Component | State | Operations | What is hard | What makes it correct |
|---|---|---|---|---|
| `src/min_char_window.cpp` | `chars[256]` with intrusive links and positions, `List{head,tail}`, `size`, `min_distance`, `pos` | `List::emplace_back/pop_front/pop_back/pop`, one turn of `min_win`'s loop, its return | long sequences of unlinking and linking; links left set by `pop_*`; `size_t` arithmetic | the list is ordered by last sighting; the shortest window is returned |
| `src/asio-grpc/main2.cpp` | server, a completion queue and thread each, a coroutine per `SayManyHellos`, a client thread | start-up, registering handlers, both handlers, `client_main`, joins | overlapping calls, broken connections, ignored write results, joins that never return | no method stops being served; a client sees all greetings or a failure; every client ends |
| `src/asio-grpc/main.cpp` | server, a completion queue and thread each; a health check service on thread 0 | start-up, registering, the `SayHello` handler, joins | server pointer dereferenced untested; health is offered before `SayHello` | whoever is told SERVING finds `SayHello` served; every call ends |
| `src/asio-grpc/dataProvider.cpp` | one thread, a coroutine per stream with `request` and `data` | start-up, `repeatedly_request`, read / write / finish | overlapping streams, half-close, a break between read and write | each request is answered once, in order, or the status is not OK |
| `src/arcus/example.cpp` | socket state and inbox (another thread's), global `objects` | the two polling loops, `handleMessage` | the state changes between two polls of one turn; a global outlives a message | each list is answered completely and in order; main ends when the socket is down |
| `src/brpc/{client,server}.cpp` | `log_id`, a controller per turn of the loop | a synchronous call with time-out and retries; `Echo`; quitting | late responses, repeated execution, what a controller still holds, requests in hand at the end | what is logged is the echo of what one call sends; both programs end when asked |
| `src/opentelemetry/{main.cpp,bind_tracer.hpp,tracer_common.h}` | global provider, a span per call | set-up, context injection, `bind_tracer`, the completion handler | order of status, end and handler; the coroutine resumes inside the handler that owns the span | the span is exported once, with the call's status, before the caller goes on |
| `src/variate.cpp` | a registry of types built at compile time | register a type, erase and restore a value | order of instantiation | the value is read as the type stored; the place of each type |
| `src/visit_transform.h` | none | nested and argument-rotating visitors, `forward_as` | continuations called more than once, moved-from arguments | the function gets one result per argument, in order, for every combination |
| `src/gz/*` | none | `replaceAll`, `Generate` with four insertion points | `size_t` step after a replacement; file names; files without messages | equals the reference replacement; inserts into the files protoc writes |
| `src/static_views.hpp` | none | oversized and right-sized arrays | sizes | views hold exactly what was written |
| tbb, protobuf, `client_rpc_intellisense.cpp`, link tests, `opentelemetry/main-copy.cpp` (not built) | none | library calls over literals | nothing | — |

Within a program the parts interact as follows. In `main2.cpp` the threads share
only the server; each thread runs the handlers of its own completion queue one at
a time, and calls reach a thread by matching a request it has asked for. The
client interacts through the transport alone. In `dataProvider.cpp` all
coroutines take turns on one thread, at each `co_await`. In `arcus/example.cpp`
the socket's thread and main share the socket's state and inbox. In
`min_char_window.cpp`, `min_win` owns the list.

`PROJECT.json` lists every component and, under `hazards`, what in this code is
hard to test, each at its line.

## 2. Plan

Order of work, most important first:

1. **done** `IntrusiveList`, `MinWin`: the one algorithm of the repository, checked
   against a reference and proved.
2. **done** `Greeter` implements `GreeterPromise`: the concurrent server.
3. **done** `DataProvider` implements `EchoStream`: bidirectional streaming.
4. **done** `Arcus`: polling against another thread.
5. **done** `BrpcEcho`: what is echoed across time-outs, retries and late responses;
   quitting.
6. **done** `Variate`: stateful template instantiation, and its proof.
7. **done** `HealthServer`: the server of `main.cpp`, health check on thread 0.
8. **done** `Tracer` implements `TracePromise`: the span's life around a call.
9. **done** Pure algorithms: `VisitTransform`, and `replaceAll` in `Generator`, each
   against a reference definition; `Generate`.
10. **done** Proofs: the refinements of `GreeterPromise`, `EchoStream` and
   `TracePromise`, and every invariant that a run checks.

## 3. Modules

Names follow the code. A definition `X_Defect` next to `X` is `X` with a plausible
mistake; no run uses it, and each shows that the property named in its comment
can tell the difference.

**IntrusiveList** (`struct List`). A record of `head`, `tail` and the `next` and
`prev` fields of every node; each member function is an operator from a record to
a record, with the code's branches. As in the code `prev` leads from head to tail,
and `pop_front`/`pop_back` leave a last node in place.

**MinWin** (`min_win`). `Init` chooses input and pattern and fills `chars`; `Skip`
and `Visit` are the two ways through one turn of the loop, `Return` is the end of
the function. `MARKER` is `numeric_limits<size_t>::max()`. Characters are members
of `Chars`, which stand for 0 to 127: the code's array has 256 entries, and a negative
`char` is outside it.

**Greeter** (`main2.cpp`). `main` follows the main function: `AddCompletionQueue`,
`BuildAndStart` (which may return null), `SpawnThread`, `SpawnClient`,
`JoinThreads`, `JoinClient`. A thread registers `SayHello`, then `SayManyHellos`,
then runs; registering without a server ends the process. `HandleSayHello`,
`HandleSayManyHellos`, `WriteReturns` and `FinishReturns` are what run() delivers
to the handlers; `Resume` is the coroutine from the loop's test to its next
`co_await`. `SayHello`, `SayManyHellos`, `Read` and `Finish` are `client_main`;
besides the program's own client (`Local`) other processes may run it.
**GreeterPromise** is what a user sees of it: the lines printed.

**DataProvider** (`dataProvider.cpp`). Per stream, `op` is the operation that the
coroutine awaits; `ReadReturns`, `ReadFails`, `WriteReturns`, `WriteFails` and
`FinishReturns` are its steps, `HandleGet` is `repeatedly_request`. Callers write,
half-close, read and finish. **EchoStream** is the promise to them.

**Arcus** (`arcus/example.cpp`). `pc` says where main stands: each call of
`getState` is a step of its own, so the socket may change between two of them.
`TakeObjectList`, `Slice`, `SendSliced` are `handleMessage`. `taken` keeps each list
handled with the number of messages sent before it, which is where its answer begins.

**BrpcEcho** (`brpc/client.cpp`, `brpc/server.cpp`). `Call` is a turn of the
client's loop up to the synchronous `stub.Echo`, with a new controller
(`NewController`) to which the attachment is appended; `Received` and `Failed` are the
two ways it returns. On the server `FillResponse` is the body of `Echo` and `RunDone`
its return, where `done_guard` runs `done`; `Stop` and `Join` are
`RunUntilAskedToQuit`. `options_max_retry` is what the client hands to its channel.
`log_id` names a call; a message also has the number of its try, and may be lost or
late. An attachment is the number of copies of `FLAGS_attachment` in it. The channel's
retry (`Retry`, `Send`), its choice of the response that counts (`Answers`) and the
call of `Echo` (`Accept`) are brpc's, external to the code.

**Variate** (`variate.cpp`). `Translate` is the compiler at one call of `var`: the
default argument `instantiate_next_flag<T, 0, Tag>(int{})` recurses over the flags
that are declared, stops at the first that is not and injects it, or stops at a
specialisation that was used before, whose return type has been deduced.
`Constrain` is the translation of `make_variant` with its `requires`; `Invoke` and
`ToVariant` are its run. Positions in `flags` count from 1, indexes from 0. The
indexes of this model are those that GCC 12 gives, for example
`variant<int, float, int, char>` with indexes 0 1 2 2 1 3 2 for calls with `int`,
`float`, `int`, `int`, `float`, `char`, `int`.

**HealthServer** (`asio-grpc/main.cpp`). `MainStep` is main, `ThreadStep` a thread up
to `run()`: thread 0 starts the health check service first, then every thread
registers `SayHello`. `WithoutServer` is the unbuilt server being used, which ends
the process. `Handle` and `FinishReturns` are what `run()` delivers; callers make one
`Check` and one `SayHello` each, in any order, and connections may break.

**Tracer** (`opentelemetry/main.cpp`, `bind_tracer.hpp`, `tracer_common.h`).
`InitTracer`, `RunClient` and `Get` are the main function and `RunClient`, `Inject` is
`Greet` up to its `co_await`, `InitiateBound` is `TracerBinderAsyncResultInitWrapper`,
`SetStatus`, `SetAttribute`, `End` and `ReturnBound` are `TracerBinderCompletionHandler`
in its order, `Release` is the handler's destruction.
**TracePromise** is what whoever looks at the traces may rely on.

**VisitTransform** (`visit_transform.h`). `stack` holds the active calls of the
transformer; `Continue` is a continuation that visits the next argument,
`CallFunction` the innermost one. `Visitors` is the fold over `operator|`, `Rotated`
the rotation of the pack. Which values are moved from is kept per argument
(`forward_as`) and per result. What the model says of every combination of up to three
arguments, two alternatives and both value categories agrees with the header compiled
by GCC 12.

**Generator** (`gz/Generator.cc`). A behaviour is one call of `replaceAll`, a turn of
its loop per step, or one call of `Generate`, an insertion per step. File names are
sequences of pieces. The compiled `replaceAll` agrees with `ReplacesAll` on all texts
of the run's size.

External code is modelled from its use and marked external in the map:
gRPC and asio-grpc (a request asked for is matched with one arrived call, the
handler is armed again before the user's handler runs, a write completes once the
transport takes the message, operations on a broken call complete with failure,
a server without completion queues is not built, the health check of a built server
answers SERVING), gRPC callers, OpenTelemetry (a tracer taken before a provider is set
records nothing, `End` exports through the simple processor and counts once, letting go
of a span ends it, `HttpTraceContext` injects an active span only, and there is none), protoc (its C++
generator takes `.proto` or `.protodevel` off the name), transformers and functions
given to `visit_transform`, brpc (retries
follow connection errors, with the attachment of the controller, a response counts for its own try only, `Echo`
is given an empty response, a call ends at
its time-out, a stopped server takes nothing new) and libArcus (the
socket's states and the ways between them).

## 4. Runs

| Run | Instance | Shows |
|---|---|---|
| `min_win` | every input of up to 6, every pattern of up to 3 characters over 3 letters | the list, the count and the window are right at every turn |
| `min_win_doubled_lead` | the same | a violation, see below |
| `greeter` | 0 to 2 threads, the local client (2 greetings) and one elsewhere (asks for −1), window 1 | type, `KeepsServing`, `ReturnsOnlyIdle`, refinement of `GreeterPromise` |
| `greeter_live` | 0 or 1 threads, the same clients | `ClientEnds`, `EndsWithoutThreads` |
| `data_provider` | 2 streams, up to 2 requests each out of 2, window 1 | type, `Conserved`, refinement of `EchoStream`, `StreamEnds` |
| `arcus` | 2 messages, lists of up to 3 of 2 objects | answers, `EndsWhenDown`, `TakesMessages` |
| `brpc_echo` | 2 calls, 1 retry each, with and without `echo_attachment` | type, `LoggedEcho`, `ClientQuits`, `ServerQuits` |
| `variate` | every sequence of up to 6 calls over 3 types, one larger than the buffer | `RoundTrip`, `OnePlaceEach`, `Fits` |
| `health_server` | 0 to 2 threads, 2 callers | `HealthyMeansServed`, `DownOnlyUnbuilt`, `CallEnds` |
| `tracer` | all 17 status codes | refinement of `TracePromise`, `SpanExported` |
| `visit_transform` | both visitors, up to 3 arguments, 0 to 2 alternatives, lvalues and rvalues | `CallsInOrder`, `NothingStaleButRepeats` |
| `generator` | texts of up to 5, replacements of up to 3 characters over 2 letters; names of up to 3 pieces, 0 to 2 messages | `ReplacesAll`, `Returns`, `InsertsIntoCpp` |

*Why the bounds are enough.* Three letters let a character leave the list from the
head, the middle and the tail, and six positions let each happen after any other.
In `greeter` two threads and two clients make calls compete for a request and let
one thread handle two calls; two greetings make one write follow another, −1 takes
the loop's zero branch; a window of 1 makes a write wait for the reader. One
thread in `greeter_live` is the case with most competition. Two requests of
different content tell an answer from a stale one. Three objects give a progress
(33, 66, 100) that is cut off; two messages let an earlier list leak into a later. Two calls let the
second find what the first left in a controller or on its way, and one retry lets an
attachment be sent twice and a response come after its try. Six calls let
each of three types be used first, again, and again after the others. With two
threads, `HealthServer` has one that serves both methods and one that does not, and two
callers make a request run out and be asked for again. Three arguments are the fewest
for which a rotation differs from an exchange, two alternatives the fewest for a
repeated continuation. Replacements of up to three characters may be shorter by more
than the step's one, so that the position moves back and wraps; `Width` is 6 bits,
enough that no other sum of the run wraps, as none does in 64.

*Outside the conditions.* `ReplacesAll` asks that the new text is at most one character
shorter than the old and does not end as the old begins. Otherwise the code may search
what it has just put in, or wrap and stop early: removing `abc` from `abcabc` leaves
`abc`. Nothing in the plug-in calls it yet.

*Deadlock* is not checked: `min_win` returns, clients and streams end, a server
waits for calls that need not come.

*The violation.* `min_win("AA", "AC")` returns `"A"`. The code takes
`!a.next && !a.prev` for "not in the list", which also holds for the only
character in it; meeting that character again links it a second time and counts
it twice for the rest of the input. `MinWindowAlwaysReturned` is the property
without exception; `SizeCountsMet` says exactly how far `size` is off
(`DoubledLead`), and all window properties hold when the input does not begin so.
A pattern with a repeated character (the call in main that has one is commented
out) is excluded as well: `size` counts different characters, `pattern.size()` does not.

*Fairness.* `Greeter`: the main thread, server threads and clients run (the
operating system schedules them); run() delivers a queued completion and the
transport moves a message it can move. `DataProvider`: run() resumes coroutines,
callers read to the end and call Finish; nobody is obliged to write or to close.
`HealthServer`: main, its threads and what `run()` and the transport can do for a call;
nobody is obliged to call. `Tracer`: the program runs; nothing says that the server
answers, so `SpanExported` begins when the call has ended. `Generator`: the call runs.
`Arcus`: main's thread alone. `BrpcEcho`: both programs run, a call ends by its
time-out at the latest (`options.timeout_ms`), `Echo` returns. A connection that breaks is never fair: liveness
holds whether it does or not. Only weak fairness is used, so no interleaving is
excluded that the schedulers permit; starvation of one client by another does not
arise as each makes each call once.

## 5. Proofs

`MinWinProofs` proves, for every alphabet, every bound and so every input and
pattern, from `MinWinAssumption` (`NULL` is not a character, no string is as long
as the largest `size_t`):

- `TypeCorrect`: positions, distances and the returned substring stay in range;
- `ListIsRecencyOrdered`: `RecencyOrder`;
- `ListIsBackLinked`: `BackLinks`;
- `SizeIsMet`: `size` counts the characters met, plus one if the lead was doubled;
- `WindowIsBest`: at each turn the loop holds the best window so far;
- `ReturnsMinWindow`: the result is the shortest window, the first of several.

The inductive invariant is
`IInv == TypeOK /\ Structure /\ SizeCountsMet /\ InRange /\ BestWindow`.
None of its parts is inductive alone. That the list stays ordered needs both
directions of links (`pop` patches through `next`) and that characters outside
the list have no links; `SizeCountsMet` needs `LeadLink`, because the code tells
"already linked" from the link fields and, with one character met, `next` is all
that remembers a second linking; `BestWindow` needs all of these, as the window
is measured from the list's head and its completeness from `size`.

The argument: four lemmas give the list after one turn by the place of the
character read (first, new, head or middle, tail), each as an explicit record.
Others say how `Met`, `Sighted` and `DoubledLead` grow by one character. Then each
part of the invariant is preserved case by case. For `BestWindow`, the head has
the oldest last sighting, so a window that ends at the current character and
covers the pattern starts no later than the head's position: the window measured
is the shortest that ends here, and windows that ended earlier are known by
induction. `IInv` is also checked by TLC on the instance of `min_win`.

`VariateProofs` proves, for every set of types, buffer size and sequence of calls,
from `VariateAssumption`:

- `TypeCorrect`: indexes and flags stay in range;
- `ReadsWhatWasStored`: `RoundTrip`, so `to_variant_recursive` never reaches
  `unreachable()` and never reads the buffer as another type;
- `PlacesOfTypes`: `OnePlaceEach`;
- `NothingTooLarge`: `Fits`.

`RoundTrip` speaks of the end of the run; the invariant carries it from the
translation: every flag returns the types injected up to it (`ListsAgree`), an
index that was deduced or given to a call is a place of its type (`IndexesAgree`),
and the erased value comes from one of the calls (`ErasedAgrees`). A call either
stops at a deduced index, which `IndexesAgree` covers, or at the first undeclared
flag, where the list grows by its own type and no earlier place moves.

`OnePlaceEach` needs `Places` on top of it: which types have left a specialisation at
index 0 (those used after the first call, and only they), and that this
specialisation leads to their one place after the first. It says why the first
call is the exception: its recursion stops at once and deduces nothing. The number of
places and of uses is then a count of sets with at most two elements.

`Fits` needs that the loop of `max_element_unchecked` finds a maximum, for lists of any
length. The lemmas `LoopRuns` and `LoopFindsMax` show it by the least number of turns
for which it would fail; a set of naturals has a least element (`MinIsMember`), which
takes the place of an induction. The rest is that `stage` leaves "translate" only
through the constraint and that the variant does not change after it (`Constrained`).

`GreeterProofs` proves, for any number of threads and clients, any greetings asked for
and any window of the transport, from `GreeterAssumption`: `TypeCorrect`,
`ServesForEver` (`KeepsServing`), `ReturnsIdle` (`ReturnsOnlyIdle`) and
`ImplementsGreeterPromise`, the refinement. `IInv` says of each part of the program what
the others rely on: how far main has come (`Building`, `SpawnedInOrder`: a thread must not
be started twice, or its requests would double); one request per registered handler,
asked for or in hand (`OneRequest`, over all stages of a thread, as `KeepsServing`
speaks only of threads in `run()`); a call that was not made has no operation
(`Dialled`, or matching could give a thread the same call twice); the client of a process
without server has been told so (`Unserved`); and for each stream the greetings
received against those written (`Printing`). The last part carries the refinement:
while the connection holds, the client has received what the handler has written, so a
status OK comes after the last greeting; once it is broken the handler may go on
writing, and the status is never OK.

`DataProviderProofs` proves, for any set of streams and requests and any window, from
`DataProviderAssumption`: `TypeCorrect`, `RequestsConserved` (`Conserved`) and
`ImplementsEchoStream`. `IInv` is a statement per stream. `InOrder` holds of broken
streams too: what was answered answers the first requests sent. `NothingLost` adds,
for unbroken ones, that the request held and those under way are the rest. `FinishedClosed`
is what makes the status honest: the coroutine finishes an unbroken stream only when the
caller has closed it and nothing is left to read. Steps of one stream leave the others
alone, so each action is treated for its own stream.

`ArcusProofs` proves, for any objects, lengths of lists and number of messages, from
`ArcusAssumption`: `AnswersInOrder` (`AnswersTheList`) and `NothingLeft`
(`NothingHalfAnswered`). `AnswersTheList` speaks of complete answers; `AllAnswered` says of
the one under way that its part sent so far is right, and `Slicing` ties the three
things handleMessage goes by, `objects`, `msg` and `progress`, to the list last
taken and to what was sent of its answer. `InTurn` says that answers begin where the one
before ended, for which `NothingHalfAnswered` is needed when a list is taken. No step of
the socket's thread touches any of this. Of `Amount` the proof uses only `AmountFacts`
(it grows with the object and is 100 for the last), which hold of the code's float
division as well.

`BrpcEchoProofs` proves, for any number of calls and retries, from `BrpcEchoAssumption`:
`TypeCorrect` and `EchoesWhatWasSent` (`LoggedEcho`). `LoggedEcho` speaks of the end of a
request's way; `Sent` and `Answered` follow it there. While a call is under way its
controller holds one attachment, so that a retry sends what the first try did; every
request, also a late one of an earlier call, and every request inside `Echo` has the
message and one attachment (`Sent`). Echo starts from an empty attachment, and what
`done_guard` sends is filled (`Answered`). `CallMade` is for the types: a retry belongs to
a call that was made.

`HealthServerProofs` proves, for any number of threads and callers, from
`HealthServerAssumption`: `HealthIsHonest` (`HealthyMeansServed`) and `StaysUp`
(`DownOnlyUnbuilt`). A caller told SERVING was answered by thread 0 inside `run()`
(`CheckedByFirst`), and a thread in `run()` has a request of `SayHello` (`Serves`).

`SingleCallProofs` holds the proofs of the three components whose behaviour is a single
call. It extends all three, which is why the specifications of `Generator` and `Tracer`
have names and variables of their own (`GeneratorSpec`, `stage`; `TracerSpec`, `at`).

For `VisitTransform` it proves, for any number of arguments and alternatives, from
`VisitTransformAssumption`, `EachCombinationInOrder` (`CallsInOrder`) and `NothingStale`
(`NothingStaleButRepeats`). `VisitInv` has six parts. `Shape`: types, and that a visit
is under way exactly while the stack is not empty. `Frames`: the call at depth d is
about argument d and has the pack it should have, which for `visit_transform2` says how
far the rotation is. `CallsSoFar`: the calls of the function are, in order, those of the
combinations that the visit has passed (`Behind`: lexicographically below the
alternatives on the stack, or beginning with them); the last part of `CallsInOrder`
speaks of the end only and is not inductive. `MovedSoFar`: which arguments `forward_as`
has moved from, those on the stack and, once a continuation has returned, those that
were ever reached. `Objects`: when an object on the stack was moved from before its
visit, and when what it yields has been given away. With `NothingStaleButRepeats`
itself, they say of the next call what is fresh in it. The visitors of the arguments
come from a fold; `VisitorsInOrder` shows that it yields them in order, for any number
of arguments.

For `Generator` it proves, for any alphabet, lengths, width and number of pieces, from
`GeneratorAssumption` (every text that can be made has a length in `size_t`),
`ReplacesLikeReference` (`ReplacesAll`) and `InsertsIntoTheRightFiles`
(`InsertsIntoCpp`). (The assumption also says that 2 ^ `Width` is a natural number,
because the provers know nothing of powers.) The reference is a recursion over
positions: `FromExists` shows that a function with its equation exists and `FromStep`
what it is at each position, and `Skip` that a stretch in which nothing occurs is
copied. Where these would be inductions over the position, the least counterexample
(`LeastElement`) takes their place. The invariant `UnderWay` says that the text at hand
is a part that is done and the rest of the source as it was (`DoneUpTo`): `Reference` of
the source is the done part and then what its recursion makes of the rest; from the
place the search resumes at, no occurrence begins before the end of the done part; and
the done part is no longer than `MaxValue` + 1 per character of the source it stands
for, so that the position fits `size_t`. `Separate` is needed for the step: `NotAcross`
shows that an occurrence cannot begin in a replacement and end behind it. An empty
search text, found once more at the end of the source, has a case of its own
(`DoneBehind`). Of `Generate`, `Generating` says which of its four insertions have been
made and into which files.

For `Tracer` it proves, for any set of status codes, from `TracerAssumption`,
`ImplementsTracePromise`. `SetUp` and `SpanLife` say at each place of the program what is
set up and what the span records.

Each component has a theorem that its inductive invariant is one: `Invariance` of
`IInv`, and in `SingleCallProofs` `VisitInvariance`, `ReplaceInvariance`,
`GenerateInvariance` and `TracerInvariance`. TLC finds these invariants, `Places` and
`Constrained` true on the instance of the component's run; for `ReplaceInv` this was
done with a form of `UnderWay` with its bound variables in small ranges. The bounds of
the models (`MaxThreads`, `MaxCalls`, `MaxObjects` and the like) are any naturals in the
proofs. The refinement theorems cover safety, which is all that the three promises
state.

**Proved**: every invariant and every safety property that a passing run checks.
**Model-checked only**: liveness (`ClientEnds`, `EndsWithoutThreads`, `StreamEnds`,
`EndsWhenDown`, `TakesMessages`, `ClientQuits`, `ServerQuits`, `CallEnds`,
`SpanExported`, `Returns`), which is out of the prover's reach.

## 6. Not modelled

- Characters outside 0..127 (`chars[(size_t)c]` with a negative `char`).
- A negative `argv[1]` of `main2.cpp` and `main.cpp`: the loop over `size_t` exhausts
  memory before anything else happens.
- The `Watch` method of the health check service, which is the library's.
- Contents of greetings, logging, and flatbuffers or protobuf encoding.
- `arcus`: normals and indices, which are copied and never used; the listener,
  which prints. The progress is a float division in the code and exact here; they
  agree for the list sizes of the run, and both never fall and end at 100.
- brpc: the wording of message and attachment (the same for every call), the overflow of
  `log_id` after 2^31 calls, `CallAfterRpc` (never registered).
- variate: constructing and moving the values themselves.
- opentelemetry: the carriers. `GrpcServerCarrier` is used by no program, and
  `GrpcClientCarrier::Set` is never called: the injection looks for an active span, and
  `main.cpp` makes none active, so the server is not told of the span. The span's
  attributes other than the status code are constants.
- `opentelemetry/main-copy.cpp`, a synchronous client: no CMakeLists builds it and it does
  not compile, as it calls `get_tracer` with one argument and `tracer_common.h` declares
  it with two.
- visit_transform: the value returned, which is what the transformer returns.
- gz: the wording of the inserted text; messages after the first, for which
  `Generate` inserts nothing.
- `static_views.hpp`: everything is evaluated by the compiler, which rejects a program
  that writes past the end of an array; nothing in the repository's programs uses it at run time.
- tbb, protobuf, `client_rpc_intellisense.cpp` and the link tests only call libraries
  with literals.
