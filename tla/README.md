# A TLA+ model of pyrealm

pyrealm reads MongoDB Realm databases in two independent ways. The *logical*
reader (`src/src/pyrealm`, on top of `src/native/module.cpp`) opens a database
through Realm Core and serves its records to Python code. The *forensic* reader
(`src/src/pyrealm_forensics`) never asks Realm Core: it hashes and maps the file,
looks for arrays by their signature, follows their references from the two top
references of the header, and carves strings into a new output directory. The two
share no state; they meet only in the advice an error message gives.

This directory holds the specifications of the parts where the order of steps
matters, the TLC instances that check them and the proofs TLAPS checks.

## Inventory

Paths are relative to the repository root.

| Component | State it keeps | Operations | What is hard, what must hold |
|---|---|---|---|
| Realm session (`src/pyrealm/reader.py` `Realm`, `Table`, `Results`, `RealmLink`, `Record`) | native view, weak map `_record_cache`, strong references of `Table`/`Results` to the Realm, weak ones of `Record`/`RealmLink` | `get_by_key`, `resolve`, `Results[i]`, `all`, `where`, `close`, letting go of objects | threads interleave inside a read; objects die between two lookups; close and release with calls under way. One live record per object, no stale entry, a closed view gives nothing new |
| Record fields (`Record.__getitem__`, `_convert`, `RealmTimestamp`, link equality) | `_raw`, `_converted` | read a field, compare and hash links, take a datetime | a field is readable after release only if it was read before; two threads convert one field; equality of links changes when Realms die; negative nanoseconds |
| Link expansion (`to_dict`) | set of identities on the current path | expand, emit `$ref` | cycles, collections of links, links to no table, failure half way |
| Result iteration (`Results`) | count snapshot | index, slice, `iter_valid` | damaged entries, callback that raises, close during iteration |
| Opening (`open_realm`, `NativeRealm`) | partly constructed view | check, open, load schema, take it over, translate errors | failure after the native view exists, failure of the cleaning up |
| Native bridge (`native/module.cpp`) | `shared_ptr` to the view, class tables | schema, count, query, record | ownership order, index normalisation |
| Structural scan (`pyrealm_forensics/parser.py` `_parse_header` … `_add_references`) | candidate arrays | scan, size, decode references | boundaries, overlapping candidates, damaged headers |
| Classification (`_reachable`, `_classify_nodes`) | stack, visited set, two result sets | two traversals, labelling | cycles, shared arrays, unresolved roots: terminate, be exact |
| Provenance (`_analyze`) | digest, mapping | hash, stat, map, analyze | the file may change between the reads |
| String carving (`_utf8_strings`, `_extract_strings`) | current run | scan one character | truncated and malformed bytes |
| Carve output (`carve_realm`, `cli.main`) | output directory, three reports, exit code | test, analyze, mkdir, write, print | several invocations, crash and I/O error at any step |

Components call each other directly; there are no messages. Shared state exists in
two places: the Realm's map between threads of one process, and the output
directories between processes.

## Modules

| Module | Models |
|---|---|
| `ArrayGraph` | reference graphs, reachability as the least closed set, the documented labels: what the traversal is measured against |
| `ReachabilityLabels` | abstract: the correct labels appear in one step and never change |
| `Classification` | `_reachable` twice and `_classify_nodes`, one loop step per action |
| `ClassificationProofs` | proofs about it |
| `RealmSession` | one `Realm`, its owners and its weak map, used by several threads |
| `RealmSessionProofs` | proofs about it, and about `OpenRealm` |
| `ReportSet` | abstract: outputs as write-once sets of reports |
| `CarveOutput` | `carve_realm` and `main` of several processes on a shared file system |
| `CarveOutputProofs` | proofs about it |
| `StructuralScan` | `_parse_header`, `_scan_array_candidates`, `_add_references` and the warnings of `_analyze`, on the bytes of a file |
| `EvidenceAnalysis` | `_analyze` as the reads it makes of a file that others change |
| `EvidenceAnalysisProofs` | proofs about it |
| `StringCarving` | `_extract_strings` with both scanners |
| `StringCarvingProofs` | proofs about it |
| `LinkExpansion` | `Record.to_dict` on object graphs, one field at a time |
| `LinkExpansionProofs` | proofs about it, and about `RecordFields` and `Timestamps` |
| `ForensicAnalysis` | `_analyze` once the file is mapped: `StructuralScan`, `Classification` and `StringCarving` composed |
| `ForensicAnalysisProofs` | proofs about it and about `StructuralScan`, among them that the graph handed to the traversal is well formed |
| `RecordFields` | `Record.__getitem__`, its converted fields, links as keys, with several threads and Realms |
| `Timestamps` | `RealmTimestamp.datetime`: the operators, what it computes and what it is documented to |
| `OpenedRealm` | `OpenRealm`, then `RecordFields`: a Realm that is opened, read by several threads, closed and let go of |
| `OpenRealm` | `open_realm` with `NativeRealm`'s constructor and `Realm.__init__`, every step failing |
| `ResultIteration` | `Results` over damaged entries, with `NativeResults::get` |
| `ResultIterationProofs` | proofs about it |
| `MC...` | the instances TLC checks |

`Classification` and `StructuralScan` share `ArrayGraph`: the second establishes
`WellFormed(nodes)`, which the first assumes of its input. `ForensicAnalysis` puts
them together: it extends `StructuralScan`, instantiates `Classification` with the
header and the graph the scan left, and `StringCarving` with the payloads between the
offsets it found. `EvidenceAnalysis` takes what they find in a page as given and asks
which bytes they looked at. On the other side, `OpenRealm` ends where `RealmSession`
begins, and `OpenedRealm` puts `RecordFields` behind it; `RealmSession` models who
owns what, `RecordFields` what a record keeps of its fields, and `LinkExpansion` and
`ResultIteration` the two operations that make many reads. Each takes of the others
what it needs: in `LinkExpansion` the map is the set of records somebody holds, in
`ResultIteration` the Realm is owned by the `Results`, in `RecordFields` a Realm is
owned or gone.

Definitions marked "Mutated form" are changed versions of the definition below them,
the way a bug would change it. They are used nowhere; replacing the definition by
its mutated form is how a property is shown to be able to fail.

### Classification

`nodes` is the argument (offset to `child_refs`); `pending`, `seen` and `rest` are
the locals of `_reachable`: its stack, its visited set, and what the generator
given to `pending.extend` has not tested yet. `active`, `inactive` and `classified`
are the locals of `_classify_nodes`. Each traversal is entered by `Enter...`,
which is also the early return for a root that names no array, runs `WalkStep`s
(`SkipSeen` is the `continue`, `Expand` the visit, `PushChild` one element of the
generator) and ends with `Return...`. `LabelNodes` is the loop over the offsets;
it reads nothing that changes, so it is one step. The generator is not atomic with
the visit because it tests `seen` while `extend` grows the stack; the model shows
that this makes no difference.

Properties: `WalkInv` (nothing unreachable is taken up, nothing reachable is
lost), `ReachExact` (each traversal returns exactly what its root reaches),
`WorkShrinks` (a variant of the loop: visits and tests left, which every step lowers)
and `ImplementsLabelling`, the refinement of `ReachabilityLabels`. That the
traversals end is a consequence of `WorkShrinks`, and checked as `Termination` of
`ForensicAnalysis`, where the loops run one after the other. `ReachExact` is only
proved: the refinement would not hold without it.

### RealmSession

The variables `handles`, `native`, `cache` are the Realm: who owns it, the state
of the native view, and the live entries of `_record_cache`. `held`, `got`,
`ident` are the Record objects: those the application keeps, those in the frame of
a call or just returned by it, and what each was read from. `pc`, `path`, `want`
are the calls of the threads. A Record is a slot of the constant `Records` that can
be used again once it is free, as memory is: a map that served a dead object would
show here as serving another object.

A call by key (`Table.get_by_key`, `RealmLink.resolve`) runs `Lookup`,
`ReadNative`, `Recheck` and `Insert`; a call by index starts at `ReadNative`. The
split is where CPython may run another thread. `WeakValueDictionary.get` and the
native call are single steps: the bridge does not release the GIL, and where it calls
into Python for a UUID another thread may run, but the record is read piece by piece
and the step stands for the last call of Realm Core, which decides whether the read
succeeds (`ResultIteration` has the pieces). Every action
that can drop a reference ends in `Collect`, which frees records without a strong
reference, removes their entries, and frees map and native view with the last
owner of the Realm; a method that runs owns the Realm through its frame. This is
CPython's reference counting, modelled as the program relies on it.
`Readable` is the whole of Realm Core here: a closed view and a damaged object
raise.

Properties: `CacheSound`, `ServedIsAsked`, `DuplicateNeedsRace`, `LiveIsCached`,
`ClosedOnlyShrinks` under any interleaving; `NoRereadWhileHeld` for one thread,
which is only proved, since it follows from `LiveIsCached`.
`DuplicateNeedsRace` says how far the identity of records goes: two live records of
one object exist only if two threads were between the second lookup and the
insertion of that object at the same moment. A program with one thread never sees
it; nothing in the repository promises it to programs with several.

No liveness is stated: a call is straight-line code that waits for nobody.

### CarveOutput

One process per invocation. `target` is the output it names (none for `inspect`),
`pc` the statement it is at, `verdict` what the analysis found, `status` the exit
code. `maker`, `writer`, `done` are the file system: who created each directory,
who opened each report, and which reports are complete. `Analyze` is `_analyze`
with its outcome chosen freely; every file system operation and the final print may
raise, which `main` turns into exit code 1 (`Fail`); `Kill` ends the process
anywhere, also between two writes. `TryOutput`, `MakeParent` and `RetryOutput` are
the steps of `Path.mkdir(parents=True, exist_ok=False)`. A retry by the user is one
more invocation with the same target.

Properties: `Attributable` (the reports of an output are all from the invocation
that created it), `SuccessIsComplete` (exit code 0 or 3 means the invocation made
its output and all three reports are complete), and `ImplementsReportSet`. The
converse of the second does not hold: when only the print fails, the exit code is
1 and the output complete.

Left out: other programs that delete or write the outputs.

### StructuralScan

`data` is the mapped file. `ParseHeader` is `_parse_header`; `StartScan`, `ScanHit`
and `EndScan` are the loop over `bytes.find` in `_scan_array_candidates`, one hit a
step, with `ArraySize` the arithmetic of `_array_size`; `NextArray`, `ReadElement`
and `AttachRefs` are the two loops of `_add_references`; `Warn` appends what
`_top_reference_warning` and the reserved byte ask for. Numbers of several bytes are
exact below 2^16 and keep to their two lowest bytes above, which is beyond the end
of every file here (`FilesAssumption`: at most 64 KiB), so that every comparison
with an offset or a length comes out as in the code.

Properties: `ScanExact` (no plausible array is missed, however hits overlap),
`ElementsInside` (nothing is decoded from a slice cut short), `GraphExact` (every
candidate is in the graph, with exactly the references of the format),
`WarnedExactly` (a top reference is warned about exactly if it does not resolve) and
`StreamingProtected`, a part of `LabelsFromBytes` below. They are checked in the
composition, where they see what the steps after the scan see.

### ForensicAnalysis

`FindArrays`, `Classify`, `WarnOfTops` and `ExtractStrings` are the calls of
`_analyze`, each with the steps of its own module; what one leaves is read, not
copied, by the next. `Arrays` is the order of the offsets, `Input` the payloads as
the slices `data[payload_start : payload_start + payload_size]` give them, with each
byte replaced by the part it plays for the carver (`PartOf`): which sequences of bytes
beyond ASCII encode a printable character is the constant `Characters`. Without a minimum
(`Absent`), or without arrays, nothing is carved.

Properties: those of `StructuralScan`; `LabelsFromBytes` (the label of every array is
the documented one for the references in the *bytes* of the file, through arrays of
every kind, and a streamed file is only taken up with its cookie);
`StringsInPlace` (every string is reported for the array whose payload holds it, at
the offset in the file where it stands, and none is missing), and `Termination`: every
analysis ends, whatever overlaps or refers to itself.

Fairness: weak fairness of the next step. `_analyze` runs in one thread, and once the
file is mapped it waits for nothing.

### EvidenceAnalysis

A file is a sequence of pages, the path names one of several files, and `Write` and
`Replace` change either at any moment. The analysis goes `Open`, `HashPage`,
`HashEnd`, `Stat` (by path), `Map`, then the passes over the mapping (`TurnPage`,
`EndPass`): entropy or header first, scan, references and strings as the code
decides. The mapping shares its pages with the writers and keeps its length; a page
that was cut off since ends the process (`killed`, the SIGBUS of a shared mapping).
What was read by which pass is kept in `views`.

Properties: `ReportIsOneContent` (as long as nobody writes the opened file, all of
the report is of one content, except that "empty" may be said of another file) and
`FailsForCause`. Two statements of docstrings are checked as written, and fail; see
below. No liveness is stated: the chunks of `_sha256` end when the file does, and a
program that appends to it for ever keeps the loop going.

### StringCarving

Bytes are the parts they can play in a character; a lead byte tells whether the
character it begins is printable (`stray` begins none that is). `Take` and `Break`
are the two branches of the loop of `_utf8_strings`, `EndUtf8` the run at the end of
the payload. The pattern of `_utf16le_pattern` is modelled by what leftmost greedy
matching does: `Match16` where a row begins, `Skip16` where none does. `Compiled` is
the test that leaves the pattern out. A string is its node, encoding and extent.

Properties: `Utf8Exact` and `Utf16Exact` compare what was found with definitions
that know no scanner: the maximal stretches of printable characters with at least
the minimum.

### LinkExpansion

`stack` holds the frames of `_to_dict`: the object, the field it is at, the depth
that is left. `BeginField` is `self._realm()._plain_value` and its argument, `PlainValue`,
`Reference`, `Unresolved`, `CycleReference` and `Descend` the branches of
`_plain_value` and `_to_dict`, `Return` the end of a frame, which takes the object
out of the set `seen` all frames share. `Close`, `Release` and `Forget` happen
between any two of them.

The Realm is only referred to weakly. `Released` is the error of every place that looks
for it, `_realm()` of the record and of the link (`Dereferences`), when nobody owns it
(`Alive`). Its owners are the application and `pins`, the frames that hold a bound method
of it: `BeginField` takes one, and the frame lets go of it when the field is over, after
its own items (`Emit`) or the expansion of the last one (`Return`). `Descend` leaves it
where it is. Nothing else in the code keeps a Realm alive during an expansion, and
nothing in the code says that this does.

A field is one item or a collection of them: `_convert` takes all items when the field
is begun (`Decodable`), so a collection with one bad item fails before any of it is
expanded; `_plain_value` then goes through the items one by one. `Unlisted` objects
are in no table of the schema, as damaged links are: following one is a failed read,
naming one in a `$ref` fails for its table (`unknownTable`).

What the result should be is defined without a traversal, over `Ways`: the sequences of
items that lead from the first record to a place in the result, no longer than the
depth allows and without meeting a record twice. `ValueAt` is what stands at the end
of a way.

Properties: `SeenIsPath`, `ResultExact` (what is returned is `ValueAt` for every way,
at its place), `FailsForCause`, `NestedKeepsRealm` (the Realm is missed between two
fields of the first record or not at all), `Termination`. Left out: two live records
of one object, collections in collections, Python's recursion limit. `resolve` is one
step, the lookup in the map with the native read behind it, and no other reader is
modelled: a record another thread puts into the map between the two would only be
found by the second lookup (`RealmSession` has these steps). Fairness: the call's own
steps; nobody has to close anything.

### RecordFields

`converted` is `_converted` of the records the application holds, `raw` their `_raw`:
a field links to an object, is a timestamp, or cannot be decoded. `reading`, `at` are the
calls of `__getitem__`: `Hit` and `Miss` are its first test, `Dereference` the weak
reference to the Realm becoming a strong one, `Convert` the conversion, `Store` the
assignment. Between any two, other threads run and the last owner of a Realm may let
go of it (`LetGo`); while `_convert` runs, the bound method owns it. `LinkEq` is
`RealmLink.__eq__`.

Properties: `OneObject` (a field is one object for all who read it, unless two
threads were converting it at once), `AnsweredAsFound` (what a call comes to follows
from what it found when it began: a field once read never raises, and nothing else
than a Realm that is gone or a value that cannot be decoded does), `KeysKept` (links
that are equal stay equal while their Realms die one after the other; links of two
Realms become equal at most when both are gone, so a dict loses no key but may find
a second one). `KeysKept` says how bad it gets, and it is what the code does: nothing in the
documentation speaks of links whose Realm is gone. `Closest` is what the docstring of
`RealmTimestamp.datetime` says of the timestamps in fields, and fails; see below.
`RoundedDown` is what the code does instead, and proved.

No liveness: a call is straight-line code. Left out: a key that is no field, and the
other conversions, which copy what the bridge gave.

### OpenRealm

One call of `open_realm`. `CheckSources`, `ResolvePath`, `ReadKey`, `CheckLength` are
its checks; `Configure`, `Encrypt`, `OpenView` and `LoadSchema` the constructor of
`NativeRealm`; `TakeSchema` is `Realm.__init__`; `Handle` the `except` branch, whose
`close` may fail as well. Each call may raise what it can (`NativeErrors`,
`SchemaErrors`). `view` is the view in Realm Core: while an exception that is not
translated is kept, its traceback keeps the frame and with it the view (`Drop`).

Properties: `ViewNotLeaked` and `FirstErrorReported`. `ViewNotLeaked` makes two
exceptions, and these are the ways to leave a view open: an exception that the handler
does not list (a `MemoryError`), as long as somebody keeps it, and a failing `close`.

### OpenedRealm

`OpenRealm` and then `RecordFields`: an application opens a Realm (`Opening`), takes it
over (`Receive`), and its threads read fields of its records and of those of a Realm it
has already (`Reading`), while the Realm is closed (`CloseRealm`) or let go of, which
closes its view too. The properties are those of the two modules; that closing disturbs
no reader is part of `AnsweredAsFound` here.

### ResultIteration

A consumer is an iterator, an `iter_valid`, a slice or an index; it reads the indexes
of its `plan` one after the other. A native read holds the interpreter lock, except
that a UUID is made by calling into Python; an entry is therefore the sequence of its
segments between such calls, and other threads, `Close` among them, may run after
each. `Position` and `InRange` are the arithmetic of `NativeResults::get`, `ReadOn`
and `Give` the reading, `Raise` a read that failed, `Report`, `Continue` and
`CallbackRaises` the `except` branch of `iter_valid`. Adding the count to a negative
index cannot overflow, so indexes are plain integers. A slice enters as the list of
indexes `range(*slice.indices(n))` gives, which is CPython's.

Properties: `EachInTurn`, `AllSalvaged`, `NothingHidden`, `RaisedForCause`,
`IndexExact`, and `Answered`: every `next()`, slice or index is answered. Fairness:
a thread that is running continues and a callback returns or raises; nobody has to
ask for another record. Left out: one generator shared by two threads, which Python
refuses.

## Runs and bounds

| Run | Instance | Shows |
|---|---|---|
| `classification` | all graphs over two arrays, and over three arrays with the first one's references in any order; top references resolvable, dangling, null | all properties of `Classification`. Two arrays give self references and 2-cycles; three give diamonds, 3-cycles and an array pushed twice before it is visited, the shapes the visited set is for |
| `session_threads` | 2 threads, 3 objects in 3 tables under one object key, one damaged, 4 record slots, at most 2 kept | the interleavings of two calls with keeping, dropping, close and release. Two threads are enough for a race on one identity; two readable objects for confusing identities |
| `resolves_once` | 1 thread, native reads counted up to 2 | violated: see below |
| `forensic` | some five thousand files of a header and up to six words of eight bytes, with and without a minimum length of strings | arrays of every width scheme, overlapping and misaligned signatures, references that are repeated, tagged, dangling; arrays that refer to themselves, to one another and to a shared third; text in both encodings in payloads and between arrays; characters of two and three bytes whole, cut off and interrupted; streaming footers complete and cut off |
| `expand` | all graphs over two records with two items, apart or in one field, over three records with two links, and with links to a record in no table; one record damaged; depths 0, 1, 3 | cycles of every length, shared targets, collections, failure half way, with the Realm closed and released at any step |
| `opened` | keys of 0, 63, 64 and 65 bytes, given directly, in a file, both ways, not at all; missing files; any step failing. Then 2 threads and 2 Realms with the same object, a field that cannot be decoded and a timestamp | every place an open can fail at, and a failure of the closing after it; a field read by two threads at once and while its Realm is closed or goes; links of two Realms that go one after the other |
| `closest_datetime` | one field with one of 119 timestamps, near every place where second, microsecond or sign change | violated: see below |
| `evidence` | two files, six contents of up to three pages, two changes | a file replaced and put back, written and cut off, between any two reads |
| `identical_bytes` | the same with one change | violated: see below |
| `carving` | all payloads of up to five bytes behind the headers of a file, minimums 1 to 3, and one that fits into some of the files only | characters of every width cut off and interrupted at every place; rows at even and odd offsets, shorter and longer than the minimum |
| `iteration` | 2 consumers; all result sets of up to two entries and some of three, an entry damaged at once, late or not; indexes -3..2; slices forwards, backwards, with a step, empty | damage before, between and behind good entries while the Realm is closed and callbacks raise |
| `carve` | 3 processes, two outputs, one inside the other | two carvers on one output and one that makes it as a parent, with failures and kills at every point |

Bounds: `MaxHeld` limits how many records the application keeps, and `Records` has
a slot for each of them and for each thread, so that no step waits for a slot.
`ReadsCounted` saturates the history of native reads, and is 0 where no property
asks for it. `MaxChanges` limits what others do to a file and `SampleHalf` is the
sample at each end in pages. Where a module has a type invariant it is proved, and
no run repeats it. Only one missing parent directory is modelled
(`ParentAssumption`); longer chains repeat the same step.

### Where code and documentation differ

`resolves_once`: README.md says "Accessing a linked field resolves it once and
caches the record". The map the record goes into is weak and the link does not
keep it, so `link["a"]` followed by `link["b"]` reads the object twice unless the
program holds the record.

`identical_bytes`: the docstring of `_analyze` says that extracting strings inside
the same mapping "guarantees the digest, structural offsets, and carved strings all
describe the identical bytes". The mapping is shared by all passes, but the digest
is read through the file before it is made, and the mapping shows later writes. A
program that writes the file during the analysis (a live Realm does) separates
them.

`closest_datetime`: the docstring of `RealmTimestamp.datetime` says "Return the closest
UTC Python datetime". The nanoseconds are divided by `// 1_000`, which rounds down, so a
timestamp of 999 ns becomes the epoch and not the microsecond after it, 1 ns away. What
the code gives is at most 999 ns too early, also before the epoch, and never too late.

Smaller ones, which no run shows:

The docstring of `_sha256` says that a digest "ties generated reports to the exact
input bytes". Emptiness is tested by path after the hashing, so a file that is
truncated, or replaced by an empty one, in between is reported as empty with the
digest of what it was. It is the exception `ReportIsOneContent` makes.

"Realm encryption keys must contain exactly 64 bytes", but a key of no bytes counts as
no key: an empty key file opens a database that is not encrypted
(`CheckLength` of `OpenRealm`).

## Proofs

`ClassificationProofs` proves for every set of well-formed reference graphs and
all top references that `Spec` implies `[]TypeOK`, `[]WalkInv`, `[]ReachExact` and
`ImplementsLabelling`. `ReachExact` is not inductive: at the return of a traversal
it needs that the visited set is closed and holds nothing unreachable. That is
`WalkInv`, with the references of visited arrays allowed to be still on the stack or
still in the generator; with both empty, the visited set is a closed set
containing the root, hence contains the least one. `NotYet` is the third part: an
unresolved root returns the empty set by leaving the initial value alone. The two
traversals share one lemma on a loop step, `WalkStepInv`, stated for any root.

`CarveOutputProofs` proves `[]TypeOK`, `[]Attributable`, `[]SuccessIsComplete` and
`ImplementsReportSet` for any set of invocations and any outputs, assuming
`ParentAssumption` (a missing parent is another output with no missing parent of its
own) and `NoneAssumption`. Neither safety property is inductive. The strengthening
`Carving(p)` says where an invocation may stand: only the maker of a directory is
past `mkdir` with it, the report it opened is its own, and it has completed exactly
the reports before the one it is at (`Before`). `Untouched` says that a directory
nobody made is empty, which is what `mkdir` of a new one relies on. For the
refinement, `QuietStep` shows that a step leaving outputs and exit codes alone maps
to a stutter or an abort, `Claims` and `Finishes` map `mkdir` and the last write.

`RealmSessionProofs` proves every property of `RealmSession` but the violated
one, for any finite set of threads, any identities and any number of records:
`[]TypeOK`, `[]CacheSound`, `[]ServedIsAsked`, `[]DuplicateNeedsRace`,
`[]LiveIsCached`, `ClosedOnlyShrinks` and `[]NoRereadWhileHeld`. The invariant adds
three facts. `LiveHasIdentity`: a record that died leaves nothing behind.
`Private(c)`: the record a thread is about to insert is in nobody else's hands and
under no key of the map, which is what keeps a lookup from ever serving a
half-made record. `Alone(c)`: without a recorded race the map still has no entry
where that record will go, so the insertion replaces nothing; with
`LiveIsCached` this is why two records of one identity need a race. `NothingNew`
carries the invariant over every step that creates nothing; only `Construct` and
`Insert` need an argument of their own.

The same module proves `[]ViewNotLeaked` and `[]FirstErrorReported` of `OpenRealm`,
whose names differ from those of `RealmSession` so that it can extend both, for any
arguments and any step failing. `Told` says what has
failed at each step and what the caller is to be told, `Kept` which local refers to a
view that is open: none while the constructor loads the schema, `native` afterwards.

`ForensicAnalysisProofs` proves the four properties of `StructuralScan`, its `TypeOK`
and `StreamingProtected` for all files of at most 64 KiB. The invariant says where the
loops are: `Scanned` that the candidates are the plausible hits below `offset` (the next
hit leaves none between), `Linked` that the arrays done have exactly their references
and the one at hand those of the elements before `index` (`Attached`).
`SizeCoversElements` is the arithmetic: the aligned size of an array covers each
element, for every width.

It goes on to the composition. `AnalysisScans` shows that `AnalysisSpec` implements
`Spec`, so all of that holds of the whole analysis. `[]LabelsFromBytes` and
`[]StringsInPlace` are proved from what the other modules prove: a step of `Classify` is
a step of `Classification` on the graph the scan left, a step of `ExtractStrings` one of
`StringCarving` on the payloads it found, and every other step leaves them alone. The
theorems of `ClassificationProofs` and `StringCarvingProofs` are therefore used for
those graphs (`FileGraphs`) and payloads (`Carveable`), after showing that these are
what they assume (`TraversalAssumptions`, `CarverAssumptions`). The invariant adds when
each begins: no traversal has taken a step before the graph is complete (`Untouched`,
`Walked`), no string is found before there are labels (`Uncarved`, `Carved`). For the
labels, the references in the bytes make a graph with the same children as the one the
scan attached, and what is reached depends on no more (`SameReach`). For the strings,
each array is in the list exactly by its rank (`Ranked`), so every array is carved;
`PrintableInFile` says that the parts of `PartOf` lose nothing, for what the carver
takes for a character is one of ASCII or of `Characters` in the bytes of the file; and
`InPayload`, which `StringCarving` by itself does not need, says that every string found
belongs to a node and lies in its payload, so that nothing else is reported.

What is assumed of the constants: the files have at most 64 KiB (`FilesAssumption`);
`Characters` are sequences as UTF-8 makes them (`CharactersAssumption`); minimums are
positive (`MinimumsAssumption`; `carve_realm` refuses others); `None` is no position and
`NoLabels` no labelling.

`EvidenceAnalysisProofs` proves `[]TypeOK`, `[]ReportIsOneContent` and
`[]FailsForCause` for any contents and any number of changes. While the opened file
is not written (`Quiet`), each part of the analysis has so far read a part of the
same content; the lemmas follow the passes.

`StringCarvingProofs` proves `[]TypeOK`, `[]Utf8Exact` and `[]Utf16Exact` for payloads
of any length. `InUtf8` and `InUtf16` say that what was found so far is what lies
before the position. The arguments are about where a string may begin: no printable
character lies across the position of the UTF-8 scanner, because a character inside
another would begin with a continuation byte; no row long enough begins between the
place a UTF-16 match was tried and the place matching resumes.

`LinkExpansionProofs` proves `[]TypeOK`, `[]SeenIsPath`, `[]NestedKeepsRealm`,
`[]ResultExact` and `[]FailsForCause` for all object graphs, all collections and every
depth. The first three are inductive together with `Pinning`: a frame owns the Realm
exactly while it is in a field, which the frames below the top always are, because they
went down inside one and come back into it. Where the Realm is gone no frame owns it, so
there is one, between two fields. For the result the frames on the stack
are themselves a way (`Trace`), and the invariant is `Emitted`: the entries written so
far are those of the ways that were passed (`Passed`), which leave the frames at an
earlier item or end with the link a frame is expanding. Emitting an item passes one way
more (`PassedByEmit`), for no way goes on from a plain value, from a link beyond the
depth or from one to a record on the path (`EndsHere`); entering a record passes the way
to it and none inside (`PassedByDescent`); leaving it passes none (`PassedByReturn`); and
when the first frame returns, all ways are passed. A call that raises does so at the
end of the way to the item at hand (`WayToIsWay`).

The same module extends `RecordFields` too and proves `[]OneObject`,
`[]AnsweredAsFound` and `KeysKept` for any threads and Realms, from what
`RecordFields` and `Timestamps` assume of their constants. `FoundDecides` says of a
call what it found when it began and where it can be with that; `OneReader` that a
field nobody crowded has been converted by at most the thread in its way.
`DateTimeRoundsDown` is about the arithmetic, for every timestamp: rounding
nanoseconds down to microseconds and carrying into the second gives a datetime less
than a microsecond before it, at both signs, and exactly the timestamps outside the
range are refused. `KeysKept` needs only that Realms that are gone stay gone.

`ResultIterationProofs` proves all six invariants for any number of consumers, any
result sets, indexes and slices. Consumers share nothing but the native view, so the
invariant is one formula for each (`CInv`): what it did (`InTurn`), why (`Told`), and
where it may stand (`Stands`). `LeftAlone` keeps it for the others in each step, and
for all when the view is closed.

Every invariant and every refinement a passing run checks is proved. Model-checked only: the
liveness properties (`Termination`, `Answered`), which are out of the prover's reach, and
`WorkShrinks` (a sum over a set, which would need induction over data).

## Plan

The modules were ordered by what is hardest to test: the traversals, the shared map,
the outputs, then the scan, the provenance of a report, link expansion, carving and
iteration, and last the fields, the opening and the composition of the forensic
steps. All of it is written, checked and, liveness and `WorkShrinks` apart, proved. If
the code grows, the first candidates are the conversions of values other than links and
timestamps, should they come to keep state, and `RealmSession` with a lock around the
lookup and insertion, for which `DuplicateNeedsRace` would become plain uniqueness.

Abstract specifications of `Results` and of `to_dict` were considered and left out:
`EachInTurn` with `NothingHidden`, and `ResultExact`, say what such a specification
would say.

## Not modelled

Realm Core itself, seen only through the results of its calls; conversion of values
between C++ and Python, which copies fields; query text and arguments, and `len` of a
table, which change nothing; Python's recursion limit in `to_dict`; the float
arithmetic of the entropy (a page is of high entropy or not); the decoded text of
carved strings; wording of messages and summaries; argument parsing; the fixture
generator, build and release files.
