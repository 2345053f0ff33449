# mpt-base: verification project

mpt-base is a C library (with C++, Lua and Python parts on top) of building
blocks for message driven programs: byte queues and coded streams, reference
counted arrays, a node tree with a global configuration and its parser, command
registries with an event dispatcher, a descriptor notifier with an event loop,
and the data side of a plotting program. This directory holds TLA+ models of
those parts that carry state and a protocol, or compute what others rely on,
TLC configurations for small instances, and TLAPS proofs of the properties of
queue, commands, notifier, arrays, node trees, types and identifiers. Every
definition that models code names its source lines in `PROJECT.json` ("map").

## 1. Inventory

Everything runs in one thread. What makes the library hard is not preemption
but (a) long sequences of legal calls on data structures whose layout the
caller does not see (rings, gaps, shared buffers, sibling links), (b) handlers
that call back into the structure that calls them, (c) the operating system,
which delivers data, connections and hangups between any two steps, and (d)
memory that may not be available at any allocation.

| part (source) | state | operations | interacts with | what makes it correct |
|---|---|---|---|---|
| byte queue (`mptcore/queue`) | ring `base,len,max,off` | push/pop/shift/unshift, crop, set/get, find, align, resize, prepare, load/save, string | streams, coded queues, `mpt++/queue.cpp` | reads as a sequence of bytes; never leaves the storage |
| coded queue, codec (`queue_push/recv/shift`, `mptcore/convert/*cobs*`) | encoder: finished and open bytes; decoder: offsets in the same ring | incremental encode, terminate, in-place decode | byte queue, streams | what is sent is what is received, once, whatever the splits |
| array, buffer (`mptcore/array`) | handle, reference count, used/size, element traits | append, insert, set, remove, reserve, clone, reduce, detach, cut | every container of the library | value semantics; counts exact; elements finalised once |
| command array (`mptcore/event/command_*`) | slots id/handler/context with gaps | set, reserve, get, clear, close gaps | dispatcher, connection, `mpt_stream_sync` | one handler per identifier; each context finalised once |
| dispatcher (`dispatch_*`) | default id, handler of unknown ids | set, emit, hash, control, fini; re-entered by its handlers | command array, loop | handlers stay owned; the default event cannot keep a dead loop alive |
| notifier (`mptio/notify`) | slots by descriptor, wait array, use counter, epoll set | add, wait, next, clear, accept, fini | inputs, kernel | slots, descriptors, counter and epoll set agree |
| event loop (`mptio/notify/loop.c`) | wait flag, copy of the default flag | wait, dispatch, default event | notifier, dispatcher | every message is served; the loop ends when nothing is left |
| node tree (`mptcore/node`) | parent/children/next/prev links | insert, add, append, before/after, unlink, switch, clone, destroy, traverse | configuration, layout | links agree in both directions; nothing is lost |
| configuration (`mptcore/config`, `mptcore/parse/parse_node.c`) | tree below a global list | assign, query, remove, clear, merge of a document | node tree, parser, metatypes | reads as a map of paths to values |
| paths (`mptcore/config/path_*`) | text or array, lengths of the valid part and of the first name | add, delete, next, last, valid, invalidate | parser, configuration | elements read back are those added, in order |
| parser (`mptcore/parse`) | current section path, last character, line, flags | next element by format, option, data, check, append to a tree | paths, node tree | what was written is what is read; nesting and tree agree |
| settings (`mptcore/config/config_*`, `mpt++/config.cpp`) | arrays of items | query, reserve, assign, remove; fill from arguments, environment, messages, files | parser, message access | reads as a map whatever was removed or found no memory |
| reply context, connection (`mptcore/event/reply_*`, `mptio/connection`) | reference, identifier, pending replies | defer, reply, push, sync, dispatch | command array, streams | each request is answered at most once, to its identifier |
| stream (`mptio/stream`) | two coded queues and a descriptor | push, flush, poll, dispatch, sync, open/close | coded queue, notifier | order, completeness, progress |
| message access (`mptcore/message`) | position in scattered data | read, get, arguments, ids | connection, decoder | equals access to the flat sequence |
| types (`mptcore/types/type_traits.c`) | four tables, one a list of chunks | register, name, look up, release at exit | everything | numbers are unique and keep their traits and names |
| conversion (`mptcore/convert`) | none | numbers, keys, formats, texts | values, parser | the exact value or a refusal, but for named exceptions |
| objects (`mptcore/object`, `mpt++/object.cpp`) | | set from nodes, arguments, texts, values, iterators, objects; print | messages, nodes | the named property only, with what the source says |
| modes (`mptcore/misc/mode_parse.c`) | | parse | streams | the mode that was written, nothing else |
| identifiers (`mptcore/misc/identifier.c`) | text inline or in a block | set, copy, compare, destroy | nodes, items | shows what was assigned; blocks owned once |
| output, log (`mptcore/output`, `mptplot/history`, `mpt++/logger.cpp`) | mark, level and colour of the current line; row and column; entries | push, end, log, set | connection, console | a line depends on its bytes, not on their division |
| value iterators (`mptplot/values/iterator_*`, `mptcore/meta`, `mptcore/array`) | current value and place | value, advance, reset, clone | raw data, objects | each value once, in order |
| raw data (`mptplot/rawdata_create.c`, `mpt++/cycle.cpp`) | stages of dimensions of values, current stage | modify, values, advance, limit, clone | output of solvers, plots | values stay where they were written |
| visible parts (`mptplot/values/linepart_*`, `mpt++/linepart.cpp`) | parts of a line | set, apply, join | raw data, drawing | visible values drawn once, hidden ones not |
| plot graphic (`mptplot/mapping.c`, `mpt++/graphic.cpp`, `layout.cpp`, `graph.cpp`, `collection.cpp`) | bindings, cycles, items with their references | bind, unbind, look up, load from nodes, send a binding | raw data, objects | values go where their client bound them, if it names one place; names find what they name |
| plot elements (`mptplot/layout`) | properties | set and get by name, copy | objects, sources of values | only the named property changes |
| C++ classes, Lua, Python, loader | wrappers | | C functions | |

`PROJECT.json` lists all of them ("components") with their state of modelling,
and the hazards they are exposed to ("hazards"), each at its line.

## 2. Modules and how they correspond to the code

Conventions. An operation is one operator on a record that stands for the C
structure, and one action that calls it with its inputs chosen by `\E`.
Definitions keep the C name where one function is meant. An action is the whole
call: whatever it does before it returns is part of the step. A failed
allocation is an answer the model may give at every allocation unless stated
otherwise. Variants named `X_Something` in front of a definition `X` are
plausible mistakes in that definition; they are not used by any action and exist
to show that the properties notice them ("mutants").

### Byte queue: `QueueOps`, `Queue`, `Deque`, `QueueDevice`

`QueueOps` has one operator per function of `mptcore/queue`, on a record
`[mem, len, max, off]` with explicit storage cells, so alignment, gaps, split
segments and reallocation are moves of cells as in the code. `size_t` arithmetic
is taken modulo `SizeMax + 1` where the code relies on it. `Queue` drives one
queue with every call in any order and keeps the result of the last call.
`Deque` is the promise: a sequence of bytes with push, pop, shift, unshift and
crop; `ImplementsDeque` says that each step of the ring is a step of the
sequence or leaves it alone. `QueueDevice` is the C++ wrapper
`mpt++/io_queue.cpp`: it makes room before it adds data and shows queued data in
place. Its
`UseSpec` chooses at the start whether C callers or the wrapper use the queue;
`ImplementsDeque` is about the C callers, as the wrapper pops with `mpt_qpop`.

### Command array and dispatcher: `Command`, `Registry`, `Dispatch`

`Command` models the slots, their gaps and the memory behind them
(`command_set.c`, `command_reserve.c`, `command_clear.c`, `command_get.c` and the
part of `stream_sync.c` that answers requests and closes gaps). Contexts are
tokens: each is handed in once and has to be finalised once (`HandlersOwned`).
`Registry` is the abstract partial map from identifiers to handlers. `Dispatch`
extends `Command` by the dispatcher; a handler that runs is a frame on `stack`
and may register, unregister and emit before it returns, so every nesting up to
`MaxDepth` is explored. `idle` is the loop's memory of the default event.
Its `UseSpec` chooses at the start whether the array belongs to a connection or to
a dispatcher.

### Notifier and event loop: `Notify`, `EventLoop`

`Notify` has the slot array, the wait array, the use counter, the epoll set (or
its absence), the descriptor table of the process and, per input, what the peer
has sent, what was fetched and whether the peer is gone. The peer's steps
(send, connect, hang up) are actions of their own and can happen between any two
calls. Reused descriptor numbers are possible. `mpt_notify_wait` keeps the address of
the slots: an accepted connection may make their buffer grow and move, and the events
that are left then look into released memory (`WaitStale`), which still holds the
inputs, is empty, or ends what the model can say. Reading a stream can fail, at which
it is dropped with what the system holds for it (`StreamFails`). `poll()` reports room
for output too, so streams without input are visited (`StreamUnasked`). `EventLoop` is `mpt_loop` with a
program counter for its phases; handlers appear as the results they may return
(`CtlError`, `Retry`, `Default`, `Terminate`).

### Arrays: `Array`, `ArrayValue`

Handles point to buffers with reference count, used cells and capacity;
allocation sizes are rounded as in `buffer_alloc.c`. Elements with traits are
cells that are initialised, copied and finalised one by one. `ArrayValue` gives
each handle a sequence of its own, without buffers: `ImplementsValues` says that
sharing is never visible. One cell stands for one element, so the alignment of
element sizes is left out; the `Immutable` flag is never set by these buffers;
buffers over mapped memory (`buffer_map.c`) are not modelled.

### Node tree and configuration: `NodeOps`, `Node`, `NodeWalk`, `ConfigMap`, `Config`

`NodeOps` are the C functions on a heap of nodes with four links each, with what a
consistent heap is and what places are. `Node` calls them
in any order, `NodeWalk` has the four traversals and what they have to visit.
`Config` puts the global configuration on top: assignments, removals, clears and
documents. A document is the sequence of events the parser hands to
`mpt_parse_node`, with the map it stands for. The variable `conf` is changed by
the actions of `ConfigMap` only, and `TreeAsMap` compares what a query finds in
the tree with it and asks for a consistent heap.

### Codec and stream: `Cobs`, `Stream`

`Cobs` has the encoder and the decoder as operators: the encoder on cells of a
storage with its state (finished bytes, open block), the decoder in place on the
content of a queue with its offsets, both for plain COBS, zero pair elimination
and inlined tail. `Stream` puts them on the ring of `QueueOps`: `Push` is
`mpt_stream_push` with the four ways of `mpt_queue_push` to place a block in a
wrapped queue, `mpt_stream_flush` hands any number of finished bytes to the wire
(also in the middle of a message), `mpt_stream_poll` gives up storage and reads
any number, `mpt_stream_dispatch` decodes, calls the handler and decodes ahead.
`due` is what was sent and not yet dispatched. The constant `Care` names turns
of the code that are known to be wrong (section 6); a call that would take one is
not made, so the run shows that the rest is right. Each of them alone violates
`SentArrives` when it is removed from `Care`. Streams with an
output buffer and an encoding are modelled; text streams, memory mapped files
and the deletion of a message are not.

### Types, conversion, texts, messages, plot elements: `Types`, `Calls`, `Convert`, `Text`, `Message`, `Layout`, `Objects`

`Types` is the registry: the tables are filled by registrations in any order, up
to their limits, and emptied at exit; `granted` is what callers were told, and
`TypesKept` compares it with the tables. The functions of the other modules keep
no state: each call is a step that puts function, arguments and result into
`call` (`Calls`), for every argument within the bounds, and the property compares
the result with a definition of its own: the value a number has
(`ConvertExact`), the words of a text (`TextsRead`), the joined bytes of a message
in parts (`PartsJoined`), the element with one component changed
(`ElementProperties`). `Convert` has every pair of integer types with the width
of its types as a parameter; a floating point number is one abstract value. The
exceptions the code makes are named in `ValuesExact` and `TextExact`: text for the
widest signed type is read as unsigned, negative text for an unsigned type is its
complement, and a wide number may be taken for the character of its low bits. `Layout`
has the property functions of axis, line, text, world and graph: names by part,
sources that answer for some types only, copies from whole elements. `Text` has
also the description of files and sockets in front of an address. `Objects` hands values
to an object behind its interface, from nodes, arguments, texts, iterators, another
object and a message; what the source answers is part of the input.

### Where plot data goes: `Graphic`

Bindings of value sources to places of a layout (`mptplot/mapping.c`,
`graphic::mapping`) as a list that clients extend and shorten, the message that asks
another process for a binding, the texts that name places, and the layouts these
are in: items made from nodes with their inherited properties, and graphs bound to
the axes and worlds they name. `ValuesAsStored` and `ElementProperties` of `MCData`
compare each with a definition by sets. Items are compared by what a user reads of
them; references are counted where they can be lost.

### Value iterators: `Iterators`

One record per kind of iterator, for all that `mptplot/values` creates from a
description (linear, range, factor, numbers, profiles, files) and for those over
words, buffers and variable arguments. A description is a sequence of tokens, so
its parser is part of the model; a number is a fraction, so that steps are
exact. `cursors` is what was promised, the values a description stands for and the
current place, kept apart from the iterator; `ValuesInOrder` compares each result
with it. The promise is the plain sequence; where the code departs from it
(`ReadEnds`, `AdvanceFails`, `ResetFails`, `CloneFails`, section 6) the iterator is not
compared until its next reset. Two iterators exist at a time, the second as a clone of
the first.

### Identifiers: `Identifier`

The storage is modelled in cells, because the pointer to the block of a long text
lies inside the space of a short one. Blocks are allocated and released
explicitly; a wrong release is a `fault`, behind which nothing is known. Two calls have
an undefined result by themselves (`UndefinedCall`): an inline copy longer than `_val`
over an identifier with a block, and inline data without a name. The run makes all other
calls (`CarefulIdents`), and no `fault` is reached by them.

### Containers of the C++ interface: `Containers`

The templates of `mptcore/array.h` with `mpt++/array.cpp`: arrays of values, items,
references and pointers, maps, byte arrays and slices. `kind` chooses the template of
a run, a container is a handle on a buffer with its reference count, an element is a
key with the object it refers to. `shown` is what each container was last asked to
hold, kept apart from the buffers; `ContainersHold` compares the two and counts the
references to objects and buffers. Calls with a known wrong outcome (section 6) are
left out by name: a copy that is too small for its content, going on with a shared
buffer that could not be copied, `compact` of shared pointers without memory,
`map::set` for a known key, `prepend` into a buffer that is shared or full.

### Raw data and line parts: `RawData`

`RawData` has the C instance of `mpt_rawdata_create` and the C++ `cycle` with a
clone that uses the same stages until one of the two inserts. `log` is what was
written; `Expected` overlays the writes in order, and `ValuesAsStored` says that a
dimension of a stage is that. Its second part (`LinesNext`) applies the values of one dimension after
the other to the parts of a line. Ranges are the same for all dimensions, cut and
trim are fractions of `CountMax + 1` as in the code. Transformations with a
logarithmic axis are not modelled.

### Paths, parser and settings: `Path`, `Parse`, `Settings`

`Path` models both kinds of storage, the text of the caller and the array that
keeps characters behind the valid part; `PathHolds` compares the elements that
are read back with those added. `Parse` extends it: characters are taken one at a
time, a name becomes part of the path when it is complete, each element is given
to the handler, which puts it into a tree (`mpt_node_append`). The documents of a
run are generated from their elements, with spaces, comments, line ends and quotes
at every place the format allows; `DocumentRead` compares the elements read with
those written, `TreeAsRead` the tree with the elements, for these documents and
for every other short text over the characters that matter in a format.
`Settings` is the configuration in arrays of items. A removed element stays in its
array with its name, without value and elements; only a name that finds no memory
leaves a free slot. `SetFails` lets an assignment lack memory at each place it asks
for some, `Args` for the value of one argument. `SettingsAsAssigned` compares what
`mpt_config_getp` reads with a map that knows no arrays. A query that takes memory
behind the used slots for an element is left out by `Behind` (section 6); with a
name in it the property is violated at once.

### Outputs: `Output`

The log file, the history of values and the local output, which are layers of one
object in the code, with the default logger and the message store. What is written
is a sequence of tokens per stream; `message` remembers the bytes of the current
message. `OutputAsPushed` computes the line or the rows from these bytes alone,
with two exceptions named where they are: formats of several columns in one push
stand for copies of the first one (`StandsFor`), and a line of the log file with a
source and no level leaves its colour on (`SourceTwice`). Messages whose header
failed or whose settings were changed on the way are left out (`disturbed`), as are
values of another byte order and rows past the wrap of the column counter.
Another output may follow (`localPush`): it refuses a push, takes a part of it or
all, and `PassedWhole` is about what it gets.

### Composition in `MCData` and `MCText`

Parts that do not call each other are put side by side: the variable `part`
chooses one of them in the initial state, so the state space is the sum of theirs.

## 3. Runs

| run | module, cfg | expected | properties | shows |
|---|---|---|---|---|
| queue | `QueueDevice`, `MCQueue.cfg` | pass | `TypeOK`, `FindFirst`, `PrepareSuffices`, `ImplementsDeque`, `FrontInPlace` | every sequence of queue calls on storage of up to 4 cells, by C callers or through the C++ wrapper: the ring implements the byte sequence, room is made before data is added, searches and peeks see what is queued |
| command | `Dispatch`, `MCCommand.cfg` | pass | `UniqueIds`, `HandlersOwned`, `ReservedIdIsNew`, `ImplementsRegistry`, `BadDefaultEnds` | every order of set, reserve, answer, clear and fini, and handlers of a dispatcher that register, unregister and emit while they are called: identifiers stay unique, contexts are finalised once, the array implements the partial map and a default event without handler does not keep the loop busy |
| notify | `Notify`, `MCNotify.cfg` | pass | `TablesAgree`, `EventsReady` | a program that opens, waits, takes, clears and closes in any order while peers send, connect and hang up: slots, descriptors, the use counter and the epoll set agree, and no input is asked for data it does not have; the slot buffer moves when the third input is accepted |
| eventloop | `EventLoop`, `MCEventLoop.cfg` | pass | `WaitingRegistered`, `NothingLost`, `MessageServed`, `LoopEnds` | the loop with epoll: nothing that was dropped is dispatched, also when an accepted connection gets the descriptor of a closed one, no input is dropped without an error before its messages are dispatched, no fetched message is forgotten; every message is dispatched unless its connection fails, and a loop without inputs and default event ends, under fairness of the loop |
| array | `Array`, `MCArray.cfg` | pass | `OwnedExactly`, `UniqueKept`, `ImplementsValues` | every order of the array operations on three arrays that share buffers, but for a mpt_array_set that ends before the last element: reference counts are exact, elements are finalised once, unique elements are not copied and every array keeps a value of its own |
| config_merge | `MCConfig`, `MCConfigMerge.cfg` | violation | `TreeIntact` | a document whose empty section meets a section with elements: the elements are handed over and destroyed |
| node | `NodeWalk`, `MCNode.cfg` | pass | `WellLinked`, `OrderAsAsked`, `WalksComplete` | every tree of up to five nodes that the functions can build: links agree, nodes get the place asked for, exchanged subtrees change places and every traversal is complete |
| config | `MCConfig`, `MCConfig.cfg` | pass | `TreeAsMap` | assignments, removals and documents in any order: the tree stays one and a query finds what a map of paths holds |
| stream_gap | `MCStream`, `MCStreamGap.cfg` | violation | `NotStranded` | a message whose first byte is received alone stays in the input queue for ever |
| stream | `MCStream`, `MCStream.cfg` | pass | `SentArrives`, `FoundUnlessNoGap` | messages cross two ring buffers in any pieces, with every encoding: they arrive complete, in order and once, and decoding stops early only without storage to decode to |
| data | `MCData`, `MCData.cfg` | pass | `TypesKept`, `ConvertExact`, `TextsRead`, `PartsJoined`, `ElementProperties`, `ValuesInOrder`, `IdentifierKept`, `ValuesAsStored`, `VisibleDrawn` | the parts that hold and convert data, each driven through its own calls: registered types keep their numbers, conversions give the exact value or none but for the exceptions they name, texts, messages in parts, plot elements, value iterators, identifiers and the stages of raw data show what was put in, lines draw what is visible |
| text | `MCText`, `MCText.cfg` | pass | `PathHolds`, `DocumentRead`, `TreeAsRead`, `SettingsAsAssigned`, `OutputAsPushed`, `PassedWhole` | from configuration text to settings and from messages to the log: paths, the document formats, the tree they are read to, the settings below it and the log lines, value rows and messages an output writes |

Why the bounds are enough.
* queue: storage of 4 cells with blocks of 2 reaches every split of data and gap
  (0, 1 or more cells on each side), full and empty rings, off = max, growing and
  shrinking with the allocator answering either way. `SizeMax = 63` keeps the
  wrap-around of sizes representable but out of the requested range;
  `StackWords = {0}` see section 6.
* command, dispatch: the range (3) is smaller than what callers may try, the
  first allocation (2) and one growth step fit below `MaxSlots`; identifiers 0
  and 4 are the special ones (no identifier, outside of the range). Two handlers
  deep is enough for a handler to change the entry that is being called, and for
  the changed entry to be called in turn.
* notify, eventloop: two streams and a listener. In `notify` (both kernel
  interfaces) there are three descriptors and memory for slots comes in steps of two,
  so the buffer moves while events are left; the streams share one message. In
  `eventloop` there are two descriptors: a stream that is closed, or the listener that
  failed, gives its number to the next accepted connection, while the wait array
  still has entries; two messages, so that a dispatch leaves one behind. The slot
  buffer does not move there: it is in `notify` and in the theorems.
* array: three handles on three buffers: two that share and one that takes over.
* node, config: five nodes give three levels, or lists of four with a child.
  Names need two values for "same name" and "other name". The configuration needs
  four elements for two paths of length two that share no element.

* stream: the block limit (3 instead of 255 or 223), the limit for pairs (3
  instead of 32), the buffer for wrapped blocks (4 instead of 256), the growth (2
  instead of 64 and 256) and the alignments (2 and 4 instead of up to 16) are
  scaled together, so two messages of four bytes in all meet full blocks, pairs,
  inlined tails, wrapped blocks and queues that grow with wrapped data. The
  second push to an upper part (`queue_push.c:143`) needs longer messages.

* data: words of 2 to 5 bits stand for 8 to 64, so that every pair of widths,
  every sign and every limit is met by all values. Tables of types have one to four
  places and chunks of two, so each is filled and a second chunk is begun. Texts,
  messages and their parts are short, but all of them are tried. Identifiers have
  inline space for 3, 5 or 11 bytes of a name or a block; names fit always, in
  some and in the largest only. Two stages, two dimensions and three writes let each stage and
  dimension appear by writing, by reading and by a limit, with a gap before the
  data. Lines have up to four values with parts of at most five values, prepared as
  parts of three; two dimensions hide values before, between and behind each other.
* text: settings have four names at the top for arrays of at most three items. Texts of up to five characters contain every pair of special characters of
  a format with a character on both sides. Log messages have up to five bytes,
  values eight, so that columns begin a second row and the counter of positions (6
  instead of 256) wraps.

Symmetry is used for handles, buffers, contexts, nodes, never for values that
`CHOOSE` or arithmetic tell apart. `CHECK_DEADLOCK FALSE` is set where the
program may stop: all storage used (queue), everything closed (notify), the loop
done (eventloop), no free node (node, config), all messages sent (stream).

### Fairness

`eventloop` has `WF(Loop)`: `mpt_loop` is a loop in the one thread and its blocking
wait returns as soon as a descriptor is ready, so a step that stays possible is
taken. In addition a stream that can be read again and again is read some time
(`SF` of `Recovers`): when reading fails, `stream_poll.c` may keep the stream for its
output, and the next wait tries again; a failure that never ends would keep a message
from being served. `command` has weak fairness of the loop's repetition of the default event
and of the return of a handler that was called: the same loop calls
`dispatch_emit` again as long as it notes a default event, and handlers are
functions that return. `BadDefaultEnds` needs both: handlers on the stack have to
return, and the call that fails for want of a handler has to be made. Nothing is assumed of peers, signals, the program
that sets the loop up, or of what handlers return.

## 4. Proofs

The runs check small instances; the theorems below hold for every value of the
constants that satisfies the assumptions named in the modules: storage, slots,
descriptors, arrays and buffers in any number. Each proof has the same plan: an
inductive invariant, one lemma per operation saying what it does to the record it
works on, a step per action that applies these lemmas, and a temporal step. TLC
has checked each invariant, with its strengthening, before it was proved.

### The byte queue (`QueueProofs`, about `UseSpec` of `QueueDevice`)

* `QueueTyped`: the used part and the start of the queue stay inside the storage,
  for every mix of C calls and for the wrapper. `TypeOK` is inductive by itself.
* `RingImplementsDeque`: every C call is a step of the `Deque` (`ImplementsDeque`).
* `FoundFirst`: `mpt_queue_find` gives the first matching element (`FindFirst`).
* `RoomSuffices`: room that was made is enough for the call that follows
  (`PrepareSuffices`).
* `FrontIsShown`: strings and peeks show the queue from its oldest byte
  (`FrontInPlace`).

Assumptions: `QueueAssumption` (sizes are naturals, units positive, storage below
`SIZE_MAX`). All five theorems are about the behaviours without a `FullPrepended`
call: a prepend to a queue without a free cell that is not refused, because
`mpt_qpre` took the words it found on the stack for free sizes (section 6). The
theorems hold for every value of these words (`StackWords`); the run gives 0,
with which such a prepend is always refused. For `RingImplementsDeque` and `RoomSuffices` also
`SizesFit`: no request plus the storage and its rounding exceeds `SIZE_MAX`, as the
test in `mpt_queue_prepare` does not prevent the sum from wrapping. The proof is
about `Content`, the sequence a ring shows: one lemma per operator says what
becomes of it (`CropContent` drops the front, `AlignContent`, `ReallocContent` and
`PreparedContent` keep it, `PushedContent` and `UnshiftedContent` extend it,
`ResizeContent` keeps the newest bytes). All of them come down to `At`, the address
of the i-th byte, in four layouts: in one piece or split, before and after. The
search is reduced to a search in one piece (`FirstMatchIs`, by the least number of
`Least`), then to elements that do not lie across the end (`FindInSplit`).

### Commands and dispatcher (`CommandProofs`)

* `CommandsUnique`: no identifier has two handlers and the slots fit the memory
  (`UniqueIds`). It needs `TypeOK` beside it: the search for a free identifier looks
  at active slots only, and closing the gaps keeps identifiers apart only because it
  keeps the order of finitely many slots.
* `DispatchOwned`, `ConnectionOwned`: every context is unused, finished, or in
  exactly one place (`HandlersOwned`), for a dispatcher whose handlers call back into
  it and for the requests of a connection. The invariant `Owned` speaks of the set of
  *places* of a context, the handler for unknown identifiers among them, so that it
  can be counted when entries move.
* `ReservationsNew`: a reserved identifier has no handler, no other entry changes,
  and a reservation is refused only if all identifiers are taken (`ReservedIdIsNew`).
* `ArrayImplementsRegistry`: the array with its gaps implements the map of
  `Registry`; what each operation does to the set of entries decides the step.

### Notifier and loop (`NotifyProofs`)

* `NotifyAgrees`: slots, descriptors, counter and watched set agree (`TablesAgree`),
  and `EventsStayReady`: each event that is still to be handled is one of a ready
  descriptor (`EventsReady`), with `epoll` and with `poll()`. The strengthening
  `EventsDistinct` says that a wait visits no descriptor twice: otherwise a second
  visit could meet one that an earlier input has closed.
* `LoopServes`: what waits is registered, what was fetched waits
  (`WaitingRegistered`, `BufferedWaits`). The invariant `LoopInv` adds what only the
  loop guarantees: inputs found in a wait are open and not visited again
  (`FoundOpen`), nothing is left from the last wait when the next begins
  (`WaitEmpty`), messages are with the system, fetched or done (`Conserved`).
* `LoopLosesNothing`: a stream is removed only after hangup and dispatch of all its
  messages (`NothingLost`). Its hypothesis is `Modes = {TRUE}`, the loop of the run:
  `poll()` reports streams as writable as well, and a read without data is then taken
  for an end.

### Arrays (`ArrayProofs`)

* `ArraysOwned`: reference counts are the numbers of users, exactly the elements in
  use are alive (`OwnedExactly`). The invariant `Owned` is stated for a heap, handles
  and a number of elements, not for the variables, because an operation passes through
  states between; `Sound` bounds each buffer.
* `ElementsUnique`: elements that may not be copied go nowhere while others use them
  (`UniqueKept`).
* `ArrayImplementsValues`: arrays are variables of their own (`ImplementsValues`).
  The argument has two halves: the buffer an operation writes to belongs to its array
  alone (`Detached`), and every other array keeps its buffer and content (`Keeps`);
  data appended to a shared buffer with room left is the exception the promise names.

Assumptions: sizes positive, finitely many handles and buffers. The three theorems
are about the behaviours of `Spec` without a `ReplacesInside` step, a `mpt_array_set`
that ends before the last element: the code allows it and leaves elements finalised
but in use behind it, or an array with a buffer it gave back (section 6). So they say
nothing about a use that does replace elements inside an array.

### Nodes (`NodeProofs`)

* `NodesWellLinked`: whatever is built, inserted, moved, exchanged, copied, relinked
  and released in any order, the four members of the live nodes describe ordered trees
  (`WellLinked`), for any number of nodes.
* `NodesEnd`: there are no rings either: whoever follows neighbours and children from
  any live node comes to an end (`Acyclic`).

`WellLinked` speaks of what is below a node (`Closure` of `Kids`), which follows chains of
any length, and what an assignment does to a chain cannot be said in one step. The invariant `Linked` speaks of single members
instead: they have their types and lead to live nodes (`Heaps`, `LinksLive`), neighbours
point to each other (`PairsAgree`) and have the same parent (`ParentsAgree`), first
children and their parents point to each other (`OwnersAgree`), copies that are still
to be relinked are apart from everything else (`RawApart`), and each non-empty set of
live nodes has one that no other of the set leads to (`Acyclic`). The last part
excludes rings of neighbours and nodes below themselves without following a chain,
and is kept by an insertion because a set that contradicts it afterwards contradicts
it before: without the inserted node, or with what is below it and not the rest.

The chains come back in two places. The functions that search a place or walk a tree
(`node_insert`, `mpt_node_locate`, `mpt_gnode_relink`) are shown to stay inside closed
sets (`ChainInside`, `ReachClosed`); what is below a node is the least set that
contains its children and that no member leads out of (`ClosureLeast`,
`ClosureClosed`: as many steps as there are nodes are enough). And `LinkedSuffices`
derives `WellLinked`, as a closed chain in a set without rings visits no node twice
(`ChainDistinct`). Insertions (`AfterLinked`, `BeforeLinked`), removals (`DropLinked`),
exchanges (`ExchangeLinked`) and copies (`CloneOne`, by the number of nodes copied) have
a lemma each that says what happens to the members, then that `Linked` holds again.

Assumptions: `MemoryAssumption`, there are finitely many nodes, and
`AnySwitch = FALSE`: `mpt_gnode_switch` is called for pairs whose places it exchanges
completely (`Switchable`), since it leaves links to the wrong node for others
(section 6). The run has the same restriction.

### Types (`TypesProofs`)

* `TypesAlwaysKept`: whatever is registered and looked up until exit, in any order,
  each number that was returned keeps its traits, belongs to one registration, and
  its name leads to it (`TypesKept`).

`TypesInv` is the invariant: each granted number is *backed* by the entry of one kind
of table (`OfInterface`, `OfBasic`, `OfMeta`, `OfValue`), and names appear once in
the table that is searched for them. `TypesKept` alone is not inductive: it asks what
a look-up answers, and a new entry changes that unless older ones are found first. The
lemmas on tables say that entries stay where they are (`Stays` for one list, `Keeps`
for a list of chunks, where a new chunk is linked behind the others) and that the
next free place is behind every granted one; the four ranges do not meet
(`RangesAssumption`), so numbers of different kinds differ. Assumptions:
`RangesAssumption` and `NamesAssumption`; the texts that occur are collected in
`Texts`.

### Identifiers (`IdentifierProofs`)

* `IdentifiersAlwaysKept`: every identifier shows what it was given last, comparisons
  with names, zeros and other identifiers tell exactly that, each block belongs to one
  identifier and nothing undefined happens (`IdentifierKept`); for any sizes of
  structure and names and any number of identifiers and blocks, in every behaviour
  without a call of `UndefinedCall`. So it says nothing about a use that copies a
  longer inline text over an identifier with a block (identifier.c:142-144).

The invariant `Kept` speaks of the cells: the length and charset are those of
the last assignment, and the bytes are in the cells or in the block whose address is
in the cell behind `_val`. Each operation is a
function on one identifier and the blocks; its lemma says what it shows afterwards and
which block it took or gave back, and one lemma says that others notice nothing. The
hypothesis `IdentConstants` is that names are sequences of numbers, no block has the
null pointer as address, and identifiers of the smallest and the largest size for
inline data have room for the address of a block; the run evaluates it for its values.

### Only model-checked

* Liveness (`MessageServed`, `LoopEnds`, `BadDefaultEnds`): fairness and `ENABLED`
  are out of the prover's reach.
* What functions compute from data of any length (conversion, texts, messages,
  parser, outputs, iterators, codec): that takes induction over data, and most of
  these modules use recursive operators.
* The order of nodes, traversals and the configuration (`OrderAsAsked`,
  `WalksComplete`, `TreeAsMap`): what they promise are sequences along chains of any
  length, by induction over them; that the links they follow agree is proved.
* Raw data and lines, bindings and containers (`ValuesAsStored`, `VisibleDrawn`): their
  promises overlay writes or fold over elements.

## 5. Findings

* `mptcore/node/node_move.c:53` (run config_merge, `TreeIntact`): when the new element has no children, mpt_node_move gives it those of the old one but leaves children of the old one in place; mpt_parse_node then destroys the old elements with mpt_node_clear(root), so the new element points to released nodes. The comments say (src/mptcore/node/node_move.c:51) "reparent children to target" and (src/mptcore/parse/parse_node.c:64) "clear remaining/superseeded entries".
* `mptcore/queue/queue_shift.c:24` (run stream_gap, `NotStranded`): after the code byte of a first block was consumed, nothing is decoded yet (pos and len are zero), so mpt_queue_shift gives up the byte in front of the encoded data. The decoder needs a byte there (src/mptcore/convert/decode_cobs.c:208 "no remaining target space"): it answers 0 for data, and for a zero the queue is only enlarged when it is not full. The complete message stays undelivered, although mpt_queue_recv says (src/mptcore/queue/queue_recv.c:39) "Receive next complete message waiting on queue."

## 6. Other deviations met while modelling

The models follow the code in these places; where a passing run would stumble
over one, a constant excludes the calls that lead there, and says so.

* `queue/qpre.c:23`: with a full queue `mpt_queue_empty` leaves the sizes
  uninitialised; any value but 0 lets the used length pass the storage
  (`FullPrepended`; the runs give `StackWords = {0}`, the theorems exclude the call).
* `queue/queue_resize.c:74`: the sum of request and used size can wrap.
* `queue/queue_crop.c:75`: cropping inside a split queue; only the front is used.
* `array/array_append.c:44` writes into a shared buffer with room left (the
  appended cells are behind every other user's `used`, so values stay right).
* `array/buffer_set.c:82` finalises elements behind the replaced range although
  they stay; the comment of line 79 says "terminate overlapping target data".
  No property holds behind that call (`ReplacesInside`): the run leaves it out
  (`CarefulSpec`), the theorems are about the behaviours without it.
* `array/array_reserve.c:68` (also `meta/meta_new.c:56`, `mpt++/array.cpp:345`)
  passes flags and size in exchanged order; `array/array_clone.c:40` and
  `array/slice_write.c:22` compare with the wrong size; `array_reduce` never
  shrinks a private buffer.
* `event/dispatch_hash.c:75`, `event/dispatch_param.c:210`: the result of a failed
  lookup is used; `mpt++/event.cpp:70` looks identifiers up as positions.
* `notify/notify_add.c:154`: a cleared input is searched in the slots and not in
  the wait array, so a program that clears between wait and next is handed the
  removed input. The comment of line 131 says "clear from wait buffer". The loop
  never does that (`WaitingRegistered`).
* `notify/notify_wait.c:45` keeps the address of the slots over the calls of inputs;
  one that accepts a connection may have the buffer moved, and lines 70 and 113 then
  read released memory (`WaitStale` of `Notify`). It may still hold the inputs, or
  the process ends there: the properties speak of the wait up to that point.
* `stream/stream_poll.c:92-95`, `:107`: an input whose queue cannot grow or whose
  reading fails is dropped with the data the system holds (`StreamFails`).
* `notify/notify_add.c:75`, `notify_wait.c:104`,
  `stream/stream_dispatch.c:50`, `stream/stream_reply.c:33`, `notify/loop.c:72`:
  results of failed steps that are ignored.
* `node/gnode_swap.c:52-69`: parent and children are only updated for a place
  without successor, and neighbours end up linked to themselves (`Switchable`
  of `Node` names the pairs that work). `gnode_relink` does not descend below a
  first child; `node/tree_clone.c` tests its result the wrong way round (see its
  comment in line 24) and leaves copies without parent; `node/node_clone.c:30-39`
  uses a copy after destroying it.
* `node/node_move.c:42` loses kept entries; `parse/parse_node.c:57` keeps the
  address of a stack frame as parent; `config/config_global.c:259-263` keeps a
  pointer to a removed first element; `config/node_assign.c:60` leaves a first
  child without parent when memory ends inside a path. The constant `Care` of
  `Config` names which of these the calls of a run avoid.
* `path_set` with negative length and assign character.
* `queue/qpop.c:35`: for data in one piece the bytes delivered are those at the
  start; lines 45-60 copy too many bytes of a split tail and lower the length by
  one part only. The comment of line 11 says "Remove data from queue end."
* `stream/stream_poll.c:121`: a connection closed by its peer is kept when replies
  are left in its output queue; streams are registered for input only, so nothing
  writes them and the loop is called for that input again and again. The comment
  of line 119 says "avoid removal if input not queried".
* Coded queues, avoided by `Care` of `Stream`: an empty message resets the
  finished length to 2 ("empty", `convert/encode_cobs.c:81`); a full block
  without room for its successor is counted one byte too long ("late", line 155);
  the inline variant does not test room for the terminator ("tail",
  `encode_cobs_r.c:50`); the upper part of a wrapped queue is addressed with base
  and state both advanced ("offset", `queue/queue_push.c:77`); data is aligned by
  the length before the open block was extended ("stale", line 139). Line 149
  adds the wrong size after a second push; not reached within the bounds.
* The deletion of a message (`convert/encode_cobs.c:103-124`) searches from a null
  pointer; `convert/decode_cobs.c:165` stores an offset without the part already
  decoded; `mpt_queue_recv` leaves the last message in place when the queue is
  empty, so an empty message would be dispatched twice.

Types and conversion:
* `types/type_traits.c:226` clears the interface table by the size of a pointer;
  a failed allocation in `_meta_init` leaves `next` unset; the limit of interfaces
  is tested before the table exists; a metatype may have the name of an interface
  and hides it; "iter" and "meta" are aliases and hide registered names.
* `convert/data_convert_int.c:282`: `uint16_t` accepts 'h' where 'n' is meant;
  lines 135 and 139 test no null pointer for `uint8_t`; values above the width of a
  character are asked whether they are printable, and a wide one delivered as 'c'
  keeps only its low bits. `convert/convert_number.c:51` reads 'x' as unsigned, so
  text above the signed maximum becomes a negative number. The flag for left alignment is masked in
  `number_tostring`. `data_converter` counts the old reference, not the new.
* `convert/valfmt_*`: a trailing space is an error; a null source of a set is
  refused; the test for traits is inverted.

Messages:
* `message/message_id.c`: `while (!--len)` of `mpt_message_buf2id` ends at once and
  the value is never stored; its callers (`connection_dispatch.c:88`, `:226`,
  `stream_sync.c:98`, `stream_input.c:51`, `:156`, `output_remote.c:306`,
  `io_stream.cpp:197`) use their own initial value.
* `array/message_append.c:40` drops the last part or runs on behind it;
  `message/message_argv.c:81-89` counts one byte too far, and a quote across parts
  is lost.

Paths, parser, settings:
* `mpt_path_set` counts separators only without assign character and goes one byte
  past the text when that is absent; `mpt_path_add` stores a length of the first
  name cut to 8 bits; `path_del`, `path_last` ignore the offset.
* `parse/node_append.c:37`: values without a name lack the end flag, the next
  element goes below them; a first section without name fails; a comment behind a
  name is an error; the encoded format with different start and end characters
  never finds an end; spaces after the first character of a name are dropped in the
  formats with separators; an opening quote inside of data is kept.
* `config.cpp:210` gives an element to remove the name 0 with the length -1, which
  `mpt_identifier_set` refuses: the element keeps its name and its slot, a query still
  finds it, without value and elements, and removing it again succeeds. The comment of
  line 210 says "mark element as unused".
* `config_item_query.c:36` walks the allocated slots, not only the used ones; what
  memory behind them holds may be taken for an element (`Behind` of `Settings`, the
  run has none). `config_item_reserve` cuts a slot that is used again by the length
  of the outer array. An argument "=value" is accepted and assigns to an element with
  an empty name; a property without name ends `config_args` with a logger as well.
* `mpt_config_message_next`
  leaves the path without length; `config_load` leaks on failures; `config_args`
  returns 0 at its regular end; `parse_folder` hands an uninitialised buffer on.

Identifiers:
* `misc/identifier.c:31` reports a successful copy as failed and a failed one as
  done; lines 142-144 write inline data before they release the block whose address
  lies there; line 220 copies from a null pointer for a length without text;
  `_identifier_fini` leaves the length of a block that is gone.

Outputs:
* `logfile_log.c:65-68` prints the source again in place of the reset code and
  leaves the colour on, below the comment "no further coloring" (`SourceTwice`);
  `mpt_logfile_set` refuses "ignore"; pushed file messages are never filtered;
  text that `mpt_output_vlog` cuts ends with its terminator and dots, and a log call
  during a message ends that message.
* `history/history_values.c`: several formats in one push are all read from its
  first byte; values in the same push follow an invalid pointer; a failure behind
  the number of columns leaves it set; other byte orders are off by one; the
  counter of positions wraps at 256. `mpt_history_get` by position does not end.
* `history/history_values.c:162-166`: sizes from 256 on in another byte order are
  written behind the buffer before their type is refused (`Crash` of `Output`).
* `history/output_local.c:179`, `:193`: the number of bytes the next output took is
  handed to the caller, `mpt_output_vlog` ignores it and goes on with its next piece.
* `history/output_local.c`: a local message asked for during another one redirects
  its rest; replacing the next output inside a message divides it.
* `mpt++/logger.cpp`: setting an entry with text fails; sources of 255 and more
  bytes are cut wrongly; parts behind the first are always empty; the level of a
  store never changes.

Iterators:
* A clone of a boundary iterator writes behind the object; a polynom keeps its last
  value over a reset and clones as 0; an iterator over numbers stays before a word
  that is none; a string iterator that is advanced before it was read skips
  everything, does not come back after its end, and its clone has no words behind
  one that was read; a file ends at a word that is read and no number, and has a
  place behind its last separator; a reset of variable arguments
  puts the last value in front; a clone over a buffer shows its first text;
  `iterator_consume` mistakes the result of advance (precedence); descriptions by
  another iterator with too few words use unset values ("wild"); a factor count of
  UINT32_MAX has no elements; `values_linear` divides by 0 for one point. The promise of
  `Iterators` is the plain sequence; from such a call to the next reset it is not
  compared (`ReadEnds`, `AdvanceFails`, `ResetFails`, `CloneFails`).

Raw data and lines:
* `linepart::array::set` (`mpt++/linepart.cpp:76-88`) writes `usr` and `raw` only:
  parts that were there before keep the `_cut` and `_trim` of an earlier apply, so a
  line that is set and applied again (`polyline::set`) has its first or last step
  shortened where nothing is hidden, and parts that could be joined stay apart.
* `rd_advance` reports an existing stage without making it the current one, adds
  none to a buffer with a type, and makes a buffer without type, whose stages are
  never finalised, when there is none.
* A cloned `cycle` uses the stages of its original until one of the two inserts, so
  writes reach both; `limit_stages(0)` does `&= LimitStages` and lifts no limit;
  `cycle::modify` refuses other types than numbers when the room is made, which
  leaves zeros; reading creates dimensions.
* `linepart::array::apply` does not end for a NaN behind a hidden value;
  `mpt_linepart_join` drops the trim of the second part; apply loses the trim of a
  part with hidden values behind it; a dimension that is shorter than the line hides
  the rest of the current part, not the following ones; fractions below 1/65536 are
  stored as 0, so a hidden end is taken for a visible one.
* `maxsize` (`mpt++/value_store.cpp:58`) looks at the first store only;
  `polyline::set` advances its stores for applied ones only; `value_apply` tests the
  range of a logarithm the wrong way; `mpt_mapping_add` appends the mappings it
  should merge; `clear_cycles` of `mpt++/graph.cpp` compares unrelated members.

Plot elements:
* "color" of a world without source resets its cycles; intervals of an axis lose
  their flag by a failed call; the alignment and clipping of a graph are never read
  from text; "grid" cannot be set, "titlepos" reads the title, "fg", "bg" and
  "labelpos" cannot be read; `fpoint_set` uses an iterator it did not get; a copy of
  an empty text or graph is uninitialised.

Objects and modes:
* `mpt_value_convert` reports 0 for a value of exactly the type asked for, which
  `mpt_object_set_value`, `mpt_object_args` and `object::set` take for "no value": a
  property set by a value of its own type is reset to its default.
* `object_args.c:56` says that options without a value are set to their default: that
  is so for text only, others refuse the empty text. An argument without text leaves
  the name of its property to the next step, which resets it; an empty text for a number reads a byte that is not there (`held`).
* `message_property` hands the argument on twice when leading space fills the first
  part of the message; `object::set` from another object reports success for nearly
  every outcome; the generic reply of a stream sends the message it answers.
* `misc/mode_parse.c` leaves the caller's mode unwritten when permissions are refused;
  it compares "ipv4" with five characters.

Plot graphic:
* `mptplot/mapping.c`: the comparison of `mpt_mapping_add` is inverted, so a client's
  second place is merged into its first and all its bindings lead to one place.
* `clear_cycles` compares the graph of a place with the world of the hint.
* `mpt_output_bind_string` returns 0 and not a count, leaves the message open after a
  bad destination, and a word in front of all destinations ends the text silently.
* `graphic::target` never reads a world with a dimension behind it (it uses the text
  of the graph), stores nothing without dimension, and overwrites the mask of what
  matched for a world that is a number.
* `add_items`: the test of a warning is inverted, and the reference of a shared
  metatype is given back although the group keeps it. `relation::find` with a dotted
  name finds nothing; `layout::bind` leaves earlier graphs bound when a later fails.

Containers of the C++ interface:
* `unique_array::reserve` reports success when the buffer could not be detached, so
  `insert` and `resize` go on in the buffer of others; `_mpt_buffer_alloc_detach`
  lowers the count of users before a copy that may fail; `length()` is asked of the
  buffer after `_ref.detach()`, so negative lengths are refused always.
* `map::get` returns the value behind the last entry for a key that is found, and
  `map::set` of a known key writes there.
* `reference_array` makes its traits from the size of the object instead of the
  reference: inserts fail unless both are the same.
* `array::insert` adds its offset twice and never stores the new buffer;
  `array::set` of a value calls `mpt_buffer_set` with length and position exchanged and
  always fails; `pointer_array::compact` uses a buffer it may not have got.
* `mpt_array_string` tests `!traits ||` and always fails. `_fast_append` of
  `array/slice_write.c` compares one element with the space, whatever the number of
  elements, and never raises the used size.
  `mpt_vprintf` takes a text that just fits for a complete one and leaves the used size
  of its first try behind the second.
* `encode_array::prepare` is refused when there is an encoder, and `array::set` of a
  length replaces the data it should keep; `shift(0)` assigns a comparison to the size
  it moves by.


## 7. What is left

Modelled, checked and, where section 4 says so, proved: everything in section 2.

Next, proofs in this order:
1. `OrderAsAsked` of `Node`: from `Linked` and the lemmas on members, what an insertion
   makes of the chain of its list, element by element.
2. The stages of raw data (`ValuesAsStored`), where the overlay of writes has to be
   stated per cell instead of in the order of the log.
3. Containers, along the lines of `ArrayProofs`: the reference counts first.

Not modelled:
* Reply contexts and the receiving side of connections (`event/reply_*`,
  `mptio/connection`, `output_remote.c`). They have no defined behaviour that a
  model could follow: `reply_deferrable.c:112` hands out the address of the
  interface where the data of the reply is asked for, so the identifier is written
  over it (`connection_dispatch.c:124`); the stream is dispatched with an unset
  wrapper (`connection_dispatch.c:183`); `outdata_recv.c:55` receives to the end of
  its buffer instead of the start; the id of a reply is read by
  `mpt_message_buf2id`, which stores none, so the handler is looked up by an unset
  number. The command array that keeps requests is `Command`, the stream below is
  `Stream`, the bytes of ids are in `Message`.
* Floating point: places of ticks, transformations, logarithmic axes, drawing,
  conversion to and from text, the 80 bit type.
* What `mpt++/graph.cpp` and `graphic.cpp` keep for drawing: updates of a layout
  beyond the merge of their hints, styles and transformations.
* File operations of streams (memory maps, seeking, text mode), buffers over mapped
  memory, opening and accepting of sockets beyond their effect on the notifier.
* Parameter handlers, client commands, hash functions, start-up: pure functions or
  calls handed on.
* The loader, Lua and Python parts, examples and build files.

