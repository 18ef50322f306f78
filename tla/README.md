# A verification model of errtrail

`errtrail` is a Go library for errors in web services: a code taxonomy that is
mapped to HTTP and gRPC, an immutable error type with internal and
client-visible data, and converters to RFC 9457 responses, gRPC statuses,
OpenTelemetry spans and structured logs.  This directory holds TLA+ modules
translated from its source, TLC configurations that check them on small
instances, and TLAPS proofs for every value of the constants.  `PROJECT.json`
maps each definition to its lines, lists the runs, the hazards and which
properties cover them, and one mutant for every property of a run.

## The system

| part | source | state | operations | who calls it |
|---|---|---|---|---|
| registry | `code.go` | snapshots (two maps each), an atomic pointer to the current one, a mutex for writers | `Register` (validates, clones, swaps, panics), `CodeByName` and the accessors of `Code` (no lock) | everything that asks what a code means |
| errors | `error.go`, `frame.go` | structs with slices of attrs, fields and violations, and a recorded pc | `New`, `Wrap` and their variants, eight builders that copy | user code, `grpcerr.FromError` |
| inspection | `inspect.go` | none; a walk has a flag and a recursion | `walk` and ten collectors over it | converters, `format.go`, `slog.go` |
| grpcerr | `grpcerr/grpcerr.go` | `Domain`, set before startup | `ToStatus`, `ToError`, `FromError`, `FromStatus`, `RetryDelay` | handlers and clients |
| problem | `problem/problem.go` | `TypeURL`, set before startup | `From`, `MarshalJSON`, `Write` | HTTP handlers |
| otelerr | `otelerr/otelerr.go` | none | `Record`, `RecordSpan`, `TraceAttrs` | handlers |
| format, slog | `format.go`, `slog.go` | none | `Format` (`%+v`), `LogValue` | logging |

The parts share two things.  One is the registry: converters query it several
times for one error while other goroutines may be registering codes.  The
other is the errors themselves: a package-level sentinel is derived from by
every goroutine at once, and one chain is walked by many.  What can go wrong
and is hard to test lies there, at the boundaries where one step of several
fails (an option that panics under the lock, a detail that cannot be
marshalled, a value that cannot be encoded), and in the one recursion of the
library, the walk.

What makes each part correct:

- registry: published snapshots never change and are consistent; nothing
  registered is lost or changed; calls are atomic although they are not; the
  mutex is released by whichever panic; a reader never waits.
- errors: nobody sees an error change, two derivations never share a cell that
  one of them writes, and a frame is the user's.
- inspection: each collector returns what the structure of the chain says, and
  nothing public below a `WithoutPublic` barrier; walks end.
- callers: a slice they were given is theirs, and what they do to it changes no
  error.
- converters: an error never becomes OK; what is composed of several lookups is
  mixed in one way only; a failing part costs only itself; nothing a service
  received is re-published; clients recover the code the server meant; a
  conversion ends.
- spans: events name the code on which alerts key, whatever attrs the user has;
  the status is an Error because of a server fault on that span, and a server
  fault leaves one.
- all channels together: log, `%+v`, span, problem and status of one error name
  one code, although two passes over the chain resolve it and an attr may bear the
  same key; a client sees public data only; `%+v` shows what is sent, except the
  delay registered for a code and a detail that the title says already.

## Modules

| module | models | extends / instantiates |
|---|---|---|
| `Codes` | names, entries, the arguments and checks of `Register`, the defaults of the accessors | |
| `CodeName` | `validCodeName`, byte by byte | |
| `CodeTable` | abstract: a registry that is one table, on which every call takes effect at one moment | `Codes` |
| `Registry` | `code.go` as written: heap of snapshots, pointer, mutex, one action per step | `Codes`; refines `CodeTable` |
| `Conversions` | every registry lookup of `ToStatus`, `From`, `PublicMessage`, `RecordSpan`, `FromStatus` as a step, while codes are registered | instantiates `CodeTable`, which `Registry` implements |
| `ErrorOps` | the calls of `error.go`, when they return at once, and what a constructor makes | |
| `ErrorValues` | abstract: errors are values, a call makes one out of another at one moment | `ErrorOps` |
| `Errors` | constructors and builders as memory operations on structs and backing arrays, and the frame they record | `ErrorOps`; refines `ErrorValues` |
| `Collecting` | what callers do with the slices `Attrs` and `FieldViolations` give them, while errors are being derived | `Errors` |
| `Chains` | reference: what a chain says, by its structure | |
| `Walk` | `walkFrom` with its flag, recursion and stops, and all collectors | `Chains` |
| `Wire` | an error's way through several gRPC services | `Codes` |
| `Problem` | `problem.Write` from error to response, with its options | |
| `Taxonomy` | the built-in codes and which of them are server faults | |
| `Spans` | `RecordSpan` call by call on a span that others use too; `otelAttr` | `Taxonomy` |
| `Boundary` | everything that is made of an error: text, `%+v`, log group, problem, status, span event, through several services | `Chains`, `Taxonomy` |

The modules `XProofs` hold the proofs about `X`, the `MC` modules the instances;
`ChainsProofs` is about `Chains`, `Walk` and `Boundary`, which share its lemmas.
The abstract specifications are `CodeTable`, `ErrorValues` and `Chains`.
`Conversions` builds on the first and not on `Registry`, which is sound because
`Registry` is proved to implement it.  In `Boundary` the walks behind the
responses answer what `Chains` says, as `Walk` is proved to do for chains that
end, while `collect`, the one pass behind `%+v` and the log, is computed call by
call from what its walk calls.

Correspondence.

- `Registry`: a snapshot is an index into `heap`, the pc of a writer names the
  statement it is about to execute, and every branch out of `Register` is an
  action: `Validate` (the four argument checks), `CheckCode`, `CheckName` and
  `Options` under the lock, then `Clone`, `SetCode`, `SetName`, `Store`.
  A panic unwinds through the deferred `Unlock`; the goroutine survives it.
  A lookup is two steps, the pointer's load and the map's read.  Go map lookups
  are total functions with `Absent`.
- `Errors`: a slice is array, length and capacity.  `append` to a clipped slice
  is `Extend` (room) or `Grow` (new array with some slack), then `Store`.  The
  step `Copy` is `cp := *e`; slice headers are copied, arrays are not.
  `Caller` has Go's wrapping `int` addition, with the largest int a constant.
- `Walk`: the Go stack of nested loops is `stack`, each entry with the branches
  left and the loop's own flag.  An error is a node: `*Error`, typed-nil
  `*Error`, foreign wrapper, join, or plain.
- `Conversions`: the pc of a conversion names the next lookup.  `born` is a
  history variable: the entry of the code when the conversion began.
- `Wire`: `layers` is the linear chain of a service's own `*Error`s, `cause` the
  status they wrap, `sent` a history variable with what the sender's error said.
  Of a layer, `by` is a history too: the service whose handler made it, 0 if it
  is the one that `FromError` made.
  The transport is external: it drops all details if the message is not UTF-8,
  which is what the comments of `grpcerr.go` say of it.
- `Problem`: one call of `Write`; fields and JSON object are functions on keys.
  An option is any function on a `Problem`: it sets a field or writes to
  `Extensions`, which is a nil map if the error has no fields and no violations.
  A value may fail to encode or panic in its `MarshalJSON`.
- `Collecting`: a collector's `append` to its nil result has `append`'s
  outcomes (`Outcomes`): in place if there is room, a new array otherwise.  Below
  a barrier only attrs are gathered (`Unblocked`).
  `Overwrite` is the caller that sorts or writes over a result.
- `Spans`: the pc of a goroutine is the call on the span it makes next, between
  any two of which the owner of the span may set it to Ok (`SetOk`) or end it
  (`End`), and other goroutines record.  The SDK is external: an ended span
  takes nothing, Ok is final, attributes beyond a limit are dropped.
- `Boundary`: the state is the errors of a request, each built from those before
  it; what the six channels make of one is a definition on it.  A datum is a
  tuple of what it is and which error it was set on, so that every part of a
  response can be traced back.  `Calls` lists the calls of `fn` in the walk of
  `collect`, an error's number being negative where `fn` is told that it is
  blocked, and `See` is `fn`.  `Receive` is the next service: the status
  becomes an error there, and `FromError` recovers the code of the first status
  in the chain it is given.

Definitions that begin with `Bug` are no part of any specification.  Each
stands before the definition it spoils and holds one plausible mistake; the
mutants of `PROJECT.json` use it in place of that definition, and a property of
the run must then fail.

## Runs

| run | question | bounds | states |
|---|---|---|---|
| `registry` | two writers with four rival calls and a reader: snapshots consistent and frozen, nothing lost, calls linearizable, lookups end though writers may stop anywhere | 2 writers, 1 reader, 2 codes and 2 names to fight over, unlimited calls | 576 thousand |
| `registry_ends` | every call ends, with one call for every way to be refused; only sound entries get in | 2 writers, 12 calls | 27 thousand |
| `code_name` | the loop accepts what the pattern matches | all names of up to 6 bytes of 4 classes, `MaxLen` 5 | 13 thousand |
| `conversions` | what a conversion can mix, and never mixes, during registrations; it ends | 1 conversion at a time, 2 writers, 2 custom codes and 2 names, 12 errors, 5 statuses | 164 thousand |
| `errors` | no write is shared; calls are atomic on values | 2 goroutines, 4 errors, slack 0 to 2 | 245 thousand |
| `errors_all` | all operations on nil and at the boundaries of skip and delay compute the right values | 1 goroutine, chains of 3 errors, `MaxInt` 15, stack depth 2 | 46 thousand |
| `collecting` | results are their caller's own, and no error changes | 1 goroutine that derives, 2 that collect and overwrite, 3 errors, with and without barriers | 273 thousand |
| `walk` | every collector on every chain; every walk ends | 5 errors in 9 shapes, 1374 chains | 226 thousand |
| `wire` | what is sent, recovered and passed on, and who set it | 3 services in 125 set-ups, 2 layers each; foreign delays below 0, at 0, usable, beyond `MaxDuration` and beyond `MaxProto` | 189 thousand |
| `problem` | no member forged, explicit wins, a failure is a bare 500 or no response | 1800 errors with fields under 5 keys, 5 option lists | 50 thousand |
| `spans` | events bear code and attrs in order, status and events agree | 2 goroutines on one span with its owner, 2 events, 4 attributes | 439 thousand |
| `boundary` | one pass and single walks give one code, clients see what is theirs, `%+v` shows what is sent, text and trace tell one story | up to 4 errors of a request, of every kind, with a code registered with a delay, a message that is a title and an attr under `code` | 122 thousand |

Why the bounds are enough.  Two writers and two codes give every race of the
registry there is between two calls (same code, same name, both, neither), and
registrations are permanent, so two codes are used up and the later calls meet
a full table.  One conversion is enough as conversions share nothing but the
registry.  An aliased append needs one error with spare capacity and two that
are derived from it, four errors with the first; the slack has room for the longest append.
In the walk the flag crosses at most one barrier, one join and one branch, all
of which occur in five nodes in every nesting of two.  In `wire` a third
service is the first one that sends on what it received.  A stored result and
one collection in progress are enough for a caller to write over what an error
or another caller reads.  On a span two events suffice for a status that one
goroutine explains and another overwrites.  Four errors in `boundary` are enough
for two to be joined under a third that a barrier or a service stands above.
`CHECK_DEADLOCK FALSE` stands in `code_name` and `problem`, whose function
returns for good, and in `spans`, where nothing happens once the span has ended
and the goroutines are done.

Symmetry is used in `errors`, `collecting` and `spans`, on goroutines that the
properties do not tell apart and with no liveness property in the run.

Fairness.  `registry_ends` assumes that a goroutine that can run does (weak
fairness of a writer's steps) and that a mutex does not starve a waiting
goroutine for ever (strong fairness of `Lock`; `sync.Mutex` hands over to a
waiter after 1 ms).  A goroutine need not begin another call.
`registry` assumes weak fairness of a reader's steps and nothing of the
writers, which may stop inside the critical section: the lookups still end.
`conversions` likewise assumes weak fairness of a conversion's lookups only: it
is straight-line code that takes no lock.  `walk` assumes that the one loop of
a walk goes on.  The other runs check no liveness.

Two readings of the documentation are worth a note.  `Conversions` does not
claim that a conversion is linearizable: `code.go` says it is not, and `OneCut`
is the weaker promise the comment makes.  The details of `FromStatus` may mix
registrations in more ways, which is why it is not under `OneCut`.  And a
client whose registry has the name under another number falls back to the wire
code, as documented; `NumericPreserved` and not `CodeSurvives` is then what
holds.

## Proofs

All proofs are by an inductive invariant, and hold for any sets of goroutines,
codes, calls, errors and any bounds, under the named assumptions on constants
(`CodesAssumption`, `BuiltinsAssumption`, `RegistryAssumption`,
`ErrorOpsAssumption`, `ErrorsAssumption`, `WalkAssumption`,
`CodeNameAssumption`, `ConversionsAssumption`, `ProblemAssumption`,
`SpansAssumption`, `CollectingAssumption`, `WireAssumption`,
`BoundaryAssumption`), which TLC evaluates in the runs.  Where a theorem needs
more, its statement says so: two of `Spans` have `Consistent`, and
`ResultCorrect` has `Acyclic`, that no error wraps itself, however indirectly
(`MCAcyclic` shows it of the instance of `walk`).  On a cyclic chain the code's
walk need not return, and there is no order of the chain to compare its result
with.

- `RegistryProofs`, in layers.  `CInv` adds to the types which pcs own the
  mutex and what each has allocated: from it follow `TypeCorrect`,
  `MutexCorrect` and `FrozenCorrect` (a snapshot under construction is the
  last of the heap and is not the published one).  `LInv` says what a writer's
  locals are at each pc (the verdicts passed, the entry as far as options have
  been applied).  `SInv` says what the clone holds at each pc, compared with the
  published snapshot: hence `ConsistentCorrect`, `PermanentCorrect`,
  `SuccessCorrect`, `SoundCorrect`.  `RegistryImplementsTable` maps the
  published snapshot to the table; `Store` and the refusals under the lock are
  the moment a call takes effect, every other step is a stutter.
- `ErrorsProofs`.  Immutability is not inductive: it needs to be known that
  the array a goroutine is about to store to is referred to by no error and by
  no other copy.  That is `Private`; `Bounded` says that every slice stays
  inside an array there is, so that a new array is a fresh one.  `Clip` is what
  makes `Extend` harmless: it only stays in place when nothing is appended.
  Hence `WritesArePrivateCorrect` and `ErrorsImmutableCorrect`.
  `ErrorsImplementValues` is the refinement: `Building` says of a call at each
  pc that its copy is the receiver (`set`), the receiver with one slice longer
  by the items of the call (`store`), or what `ErrorValues` makes of the receiver
  (`return`).  `BuildingKept` is interference: the receiver is an error, so its
  value does not change, and the array of the copy is private, so its elements
  do not.  `Return` is the moment of effect; every other step is a stutter.
  For callers, `CIInv` adds to the invariant that every slice a collector works
  on or has given out is inside its array, that no error and no builder refers
  to that array (`Holds`) and that no other such slice does (`Apart`); hence
  `ResultsOwnedCorrect` and `ErrorsImmutableByCallers`.
  `FramesAreUsersCorrect` is about the arithmetic of skip: below the guard
  `3+skip` does not wrap (`NoWrap`), and no builder touches the frame.
- `ChainsProofs`, in three parts.
  *The reference.*  The operators of `Chains` are recursive functions on the
  errors of a chain.  They are unfolded once, never evaluated: in a chain that
  ends, branches having lower ranks, the equation of the preorder has one solution
  (the least rank at which two would differ has its branches below it), so two
  walks that satisfy the equation say the same.  What is said of a sequence by its
  length is by the least counterexample too (`SeqInduction`).
  *`Walk`.*  For any set `s` of nodes closed under the branches a barrier leaves
  open, the current node and the branches left on the stack are in `s` unless their
  flag is set, and what has been gathered has a source in `s`; the chains may be
  cyclic.  Hence `UnblockedCorrect`, `NoLeakCorrect`, `TypeCorrect`.  For the
  result, `Remains` says that what has been seen, followed by what the stack
  still holds, entry by entry from the top, is the order of the whole chain, once
  for all its errors and once for those public data may come from; `Gathered`,
  that what is kept is what the collector makes of the part seen; `Unstopped`,
  that a collector that stops at its first find has found nothing so far.  At the
  end nothing remains, or the find was the first: `ResultCorrect`.  TLC has
  checked `Remains` and `Gathered` on the instance of `walk`.
  *`Boundary`.*  That every error is of a known kind and wraps only errors made
  before it (`ErrsOK`) is inductive, and with it every chain ends; the four
  properties follow from it in any state.  `CallsSeeAll` and `CallsSeeOpen` tie
  `collect`'s pass to the walks: its calls are, one by one, the errors of the
  chain, and those that are not blocked are the errors public data may come from.
  `CollectIs` follows by induction on the calls: after each of them the code, the
  first public message and delay, the lists and the trace are those of the errors
  seen so far (`SeeTakes`).  `OneCodeCorrect` is that and two more facts: the code
  of an error without one of its own is a branch's (`CodeFrom`), and what stands
  before the code in a log group or an event cannot have its key, whatever the
  attrs are, while one behind it in the log is an attr.
  `ClientsSeeTheirOwnCorrect` needs where a datum comes from: what is found in
  a chain was set on the error itself or is found in a branch above its barrier
  (`FoundAbove`, `PartAbove`).  `ShownIsSentCorrect`: by `CollectIs` what `%+v`
  gathers is what the walks behind the responses find, and a public field that
  the trace shows is the one a problem has, unless its key is reserved.
  `TextMatchesTraceCorrect`: the messages of `Error()` and those of `%+v` both
  satisfy the equation of the order, which has one solution.
- `CodeNameProofs`.  All bytes before the one the loop looks at fit: the loop
  answers as the pattern, for names of every length.
- `ConversionsProofs`.  Between two lookups the registry does anything a table
  may do, and all that can be said is that it grows (`Grows`) and stays `Sound`:
  only the code 0 has the gRPC code 0.  `Fits(t, v)` states what a conversion
  `v` relies on as facts about the table `t` that stay true of every table that
  grows from it, such as that the code found was registered under the name just
  read.  `FitsGrows` is then the whole of interference, and each lookup is a
  sequential step.  What several `RetryAfter` options leave is the last one's
  delay, by well-foundedness of `<`.  Hence `NeverOKCorrect`,
  `ReasonIsRegisteredCorrect`, `TitleIsWordedCorrect` and `RecoveredFitsCorrect`.
  `OneCutCorrect` needs a second invariant on top (`Mixes`): what has been read
  so far is cut between the entry the conversion began with and the one there is
  now (`Cut`).  A registration in between can only move the cut to the end of
  what has been read, as an entry that is there stays (`MixesGrows`).
- `ProblemProofs`.  `Fields` and `Extensible` say, for every member, which of
  the options applied so far decided it, or what it was derived from;
  `Marshalled` says the same of the body, and each pc why the call came there.
  `MembersIntactCorrect`, `ExplicitWinsCorrect`, `ResponseAgreesCorrect`.
- `SpansProofs`.  A goroutine about to set the status has an event of its own on
  the span, unless the span had ended (`Announced`).  `StatusExplainedCorrect`
  and `FaultsMarkedCorrect` hold if codes are registered consistently, gRPC code
  and HTTP status being of one sort (`Consistent`): the documentation of
  `serverFault` asks for it, `Register` does not enforce it.
  `CodeOnEventsCorrect` and `AttrsAsLoggedCorrect` hold for any registry.  They
  rest on what the loop over the attrs computes: that its definition by recursion
  has a solution, and that it puts each attr that is not under the reserved key
  at its `Place`, one more than the number of such attrs up to it, and nothing
  anywhere else (`PlaceIs`), both from the absence of a least counterexample
  (`LeastNat`).  Order and multiplicity are in the places.
- `WireProofs`.  `Attaching` says at each call of `WithDetails` which details
  have been tried and which are left: what is attached is what can be marshalled
  of those tried.  `OwnLayers` says that the layers hold texts of their service
  only, and that the one `FromError` made has no delay; `Made` says that the status
  is made of the layers: so the delay sent is a handler's or the registered one.
  `Says` carries this over to
  the client: whatever the transport leaves, its details are the sender's, and
  those that must survive are among them.  From a service's registry the proofs
  use that it is `Sound`: a custom code has one of gRPC's numbers but not OK's
  (`SoundCorrect`), and the built-in entries stay as they are
  (`PermanentCorrect`).  `DetailsIsolatedCorrect`, `CodeSurvivesCorrect`,
  `NumericPreservedCorrect`, `NothingForwardedCorrect`, `DelaySurvivesCorrect`,
  `DelayIsSoundCorrect`; TLC has checked the invariant on the instance of `wire`.

`TypeCorrect`, `MutexCorrect` and `SuccessCorrect` of the registry,
`UnblockedCorrect` and `FramesAreUsersCorrect` state properties that no run
repeats: what can go wrong there shows in a run's broader property
(`ImplementsTable`, `RegisterEnds`, `NoLeak`, `ImplementsValues`).

Only model-checked: liveness (`RegisterEnds`, `LookupEnds`, `ConversionEnds`,
`WalkEnds`), which TLAPS does not reach here.  Every other property of every run
is stated by a theorem.

## Plan

Done: every package of the library is modelled and checked, and the safety
properties of all runs are proved, with the refinements of `CodeTable` and
`ErrorValues`.  Left: a run of `Boundary` with five errors, which needs a
smaller set of contents, as its state space grows by the square of the ways to
build one.

## Not modelled

`doc.go` is documentation only.  The resolution of a pc to a function and a
line is the runtime's; a frame is a number here.  Layout is left out: the
punctuation of `Error()` and of `%+v`, quoting, the choice of verb in `Format`,
JSON's own formatting; what each of them shows is in `Boundary`, and whether a
value can be encoded in `Problem`.  Attr and field values are opaque; that a
caller must not mutate a map handed to `With` is the documented contract.
`Domain` and `TypeURL` are plain variables, and setting one while conversions
run is a data race; as the packages demand that they be set before startup and
never write them, they are constants.
