# A TLA+ development of libupd

libupd is a header-only C library for programs that run inside, or as drivers
of, a *upd* host.  The host owns the files; the library asks it for them.  All
of it is single-threaded and driven by callbacks: an operation starts a request
or a lock, returns, and goes on in whichever callback the host runs next.  The
state of an operation is therefore spread over a C structure, the host's tables
and the set of callbacks still to come, and that is what these modules model.

## 1. Inventory

| Component | State | Operations | Talks to |
|---|---|---|---|
| Path lookup, `pathfind.h` (`upd_pathfind_t`) | base, path, len, term, one `upd_req_t`, one `upd_file_lock_t` | `upd_pathfind`, `upd_pathfind_with_dup`, callbacks `next_`, `lock_cb_`, `find_cb_`, `add_cb_` | lock service, directory drivers, caller's `cb` |
| Message receiver, `msgpack.h` (`upd_msgpack_recv_t`) | unpacker, one `upd_req_t`, a watch, flags ok / busy / reading / pending | `recv_init`, `recv_next`, `recv_deinit`, callbacks `recv_watch_cb_`, `recv_read_cb_` | the stream's driver, watches, user's `cb` |
| Message server, `msgpack.h` (`upd_msgpack_t`) | unpacker and packer, memory account `mem`/`maxmem`, flags busy / broken, output buffer | `init`, `deinit`, `unpack`, `pop`, `handle` | clients' requests, user's `cb` |
| Message parser, `proto.h` (`upd_proto_parse_t`) | refcnt, err, message, holds | `upd_proto_parse`, `_with_dup`, `hold_`, `unref_`, encoder and object parsers, path-lookup callback | path lookup, the host's file table, user's `cb` |
| Pointer array, `array.h` | n, p | `resize`, `clear`, `insert`, `remove`, `find`, `find_and_remove` | `upd_malloc` |
| Byte buffer, `buf.h` | max, size, ptr | `append`, `append_str`, `drop_tail`, `drop_head`, `clear` | `upd_malloc` |
| Allocation, `memory.h` | - | `upd_malloc`, `upd_free` | C library |
| Paths, `path.h` | - | `normalize`, `validate_name`, `drop_trailing_slash`, `dirname`, `basename` | - |
| Field tables, `msgpack.h`, `yaml.h` | - | `find_obj*`, `find_fields`, `yaml_parse` | msgpack-c, libyaml |
| Strings, tensors, `str.h`, `tensor.h` | - | `streq*`, `strcaseq*`, switches; conversions, `count_scalars`, `type_sizeof` | - |
| Host interface, `libupd.h` | - | declarations, `upd_req`, the two `with_dup` wrappers, the table of an external driver's host | the host |

How they interact: the receiver, the server and the lookup send requests
(`upd_req`, which is a call of the driver's `handle`) and are called back
through the request object; the lookup also takes locks and is called back
through the lock object; the receiver watches its file and is called back for
every event.  The parser starts lookups.  The containers call `upd_malloc`.
There is one thread, so nothing is preempted; but a callback may run *inside*
the call that asked for it, and giving back a lock may run the callbacks of
whoever waited for it, so the interleavings of the operations are those of
their callbacks, at every call that leaves the library.

What is hard, and what makes each component correct:

| Component | Hard | Correct when |
|---|---|---|
| Path lookup | locks refused or timed out, requests refused or failed, other clients editing the tree, other callbacks inside `upd_file_unlock`, two lookups creating one name | it reports once, then is left alone; its lock covers every request; nothing stays registered at the host; it ends where the path leads |
| Message receiver | events while busy, several messages in one read, one request object, refused reads, closing | no wakeup is lost, no message stranded, no read overlaps another or outlives the receiver, everything is delivered |
| Message parser | a lookup that calls back inside the call or after it, files removed meanwhile, many early returns | the count is the number of activities, it reports once and last, the file is alive for the user, references balance |
| Message server | writes while the user is busy, account arithmetic, undefined result of `pop` | the account is what the unpacker holds, no request is stranded, replies come out once and in order |
| Field tables | two formats, every type, ends of the integers, keys twice | with no complaint, everything required is stored and nothing present was passed over; a stored number is the one written |
| Strings, tensors | NUL bytes, counts that wrap in unrolled loops | a key matches itself only; each number is converted once |
| Array, buffer | allocation that fails half way, also when shrinking | they are a list and a byte string; a failing operation changes nothing |
| Paths | unsigned arithmetic at the end of the path, order of "..", "." and names | the result is the normal form and lies inside the given bytes |

The hazards of `PROJECT.json` name the lines where each of these bites.

## 2. Plan

Done, in this order: `PathWalk` and `PathFind` (the most intricate control),
`MsgpackRecv`, `ProtoParse`, `Memory` with `PtrList`/`Array` and
`ByteString`/`Buf`, `PathNorm`; then `MsgpackServer` and `Duplex`, which puts
it at the other end of `MsgpackRecv`'s stream, and the functions without state,
`Strings`, `Fields` and `Tensor`, with `Calls`, which makes every call of them.
Proofs for `PathFind`, `MsgpackRecv`, `ProtoParse`, `Duplex`, `Calls`, `Array`,
`Buf` and `PathNorm`: every invariant a passing run checks, and every action
property, is also a theorem.

To come:

1. `ProtoPathFind`: `ProtoParse` over `PathFind`, the lookup's report being the
   parser's callback, so that `LookupAnswered` and `LookupCb` are steps of the
   lookup that `PathFind` has.  It needs a rule of the host for the lifetime of a file that
   is removed while somebody waits for its lock, which libupd.h does not state.

## 3. Modules

| Module | Models | Abstract specification | Proofs |
|---|---|---|---|
| `PathFind` (`MCPathFind`) | pathfind.h, the host's locks and directories, another client | `PathWalk` | `PathFindProofs` |
| `MsgpackRecv` | the receiver of msgpack.h, its user, the stream | - | `MsgpackRecvProofs` |
| `ProtoParse` (`MCProtoParse`) | proto.h, the host's file references | - | `ProtoParseProofs` |
| `MsgpackServer` | the server of msgpack.h, its user | - | - |
| `Duplex` | `MsgpackServer` and `MsgpackRecv` on one file, a client | `MsgpackRecv` | `DuplexProofs` |
| `Memory` | memory.h | - | with those of its users |
| `Array` | array.h | `PtrList` | `ArrayProofs` |
| `Buf` (`MCBuf`) | buf.h | `ByteString` | `BufProofs` |
| `PathNorm` | path.h | the operator `Normal` | `PathNormProofs` |
| `Strings` | str.h | - | - |
| `Fields` | the find functions of msgpack.h and yaml.h | - | - |
| `Tensor` | counts and loops of tensor.h | - | - |
| `Calls` (`MCCalls`) | one call of any function of the three above | - | `CallsProofs` |

An `MC` module gives a specification its instance where a `.cfg` cannot (sets
of records or sequences).  Definitions announced as mistakes ("handlers with a
mistake in them", "a bug: ...") belong to no specification: each is a variant
of the definition it is named after, with an error the code could have had, and
`PROJECT.json` lists the property that tells the two apart.

### PathFind

`base`, `rest` and `reply` are `pf->base`, what is left of `pf->path` (in
terms; `pf->term` is the length of the first) and `pf->req.dir.entry.file`.
The C code has no program counter, and neither has the model: a lookup is where
the callback it waits for will put it.  What it waits for is an entry of
`locks` (its `pf->lock` at the host), an entry of `reqs` (its `pf->req` at a
driver) or `cont`, the rest of a handler that is inside `upd_file_unlock`.

| Action | Code |
|---|---|
| `Start`, `Enter` | `upd_pathfind`, `upd_pathfind_next_` |
| `LockGranted`, `LockTimedOut` | `upd_pathfind_lock_cb_` with `lock->ok` and without, up to the unlock |
| `FindCb`, `AddCb` | `upd_pathfind_find_cb_`, `upd_pathfind_add_cb_`, up to the unlock |
| `Resume` | what each of them does after `upd_file_unlock` |
| `WriterLock`, `WriterRemove`, `WriterUnlock` | another client with an exclusive lock (external) |

A host that answers inside `upd_file_lock` or `upd_req` is covered by one that
answers later: nothing in the handlers follows those calls but a return when
they succeed.  That is not so for `upd_file_unlock`, hence `Resume`.  The root
that `next_` falls back on when it is left without a base is `StandsOn`; it
takes a driver that made a directory and named none to get there, which the
host modelled here does not do.

`PathWalk` promises less than the code does: a walk moves along links of the
tree, one per term, may give up, and reports exactly once.  It knows every
link ever made, because a lookup may follow one that was removed after its
driver had answered.

### MsgpackRecv

The flags are the code's; `req` is `recv->req` at the driver, `turn` says that
`recv->cb` was called and the user has not called in again.  The stream is cut
into chunks and `PerMsg` chunks make a message, so that counters (`written`,
`taken`, `fed`, `delivered`) stand for the bytes: order is the file's, and what
can go wrong is that something is there and nobody moves it on.  `Write` with
no bytes is an event for another reason; `Serve` answers a read with all there
is, as `upd_msgpack_handle` does.  The user tries again after a failure only
when nothing was lost with it: after a bad message or a full unpacker there is
no telling where the next message starts.  That a read in flight has `reading`
set, until its callback is over and not longer, is a part of the type invariant:
a `reading` that is reset after the next read was sent breaks it.  `RecvNext`
clears `pending` and sends the read in one step, so what the host does inside
`upd_req` comes after both; that the code does them in this order is why this is
right, and nothing the model could show.

### MsgpackServer, Duplex

`mem`, `broken` and `working` are `mpk->mem`, `broken` and `busy`; requests are
counted in chunks as the receiver's messages are.  The driver's code, which
`mpk->cb` calls, is the `job`: it pops, replies to what it popped and pops
again until there is nothing.  The source leaves that code to the driver, and
this is the use its busy flag is for.

| Action | Code |
|---|---|
| `Write`, `WriteRefused` | `upd_msgpack_handle` for a write, with `upd_msgpack_unpack`, up to the call of `mpk->cb` |
| `WriteAnswered` | what it does when that call is back: `req->cb` |
| `HandleRead` | `upd_msgpack_handle` for a read |
| `PopMessage`, `PopPart`, `PopBad`, `PopUnlisted` | `upd_msgpack_pop`, by the code the unpacker returns; after one that pop has no case for, what it returns is either |
| `Reply` | the driver packs a reply (external) |
| `ServerDeinit` | `upd_msgpack_deinit` |

A write's handler is cut in two because the user may do all of its work inside
`mpk->cb`, or part of it, or nothing yet.  `Reported` is what the unpacker says
a pop consumed.  Whether it reports a part of a request once more together with
the rest is a matter of msgpack-c, so it is a constant, `Cumulative`; the run
takes the answer that makes the account drift, the theorems either.  `drift`
keeps what was reported twice so far (`Repeated`), so that `AccountExact` can say
what the account is at any time.

`Duplex` adds no steps of its own: each of its actions is one of the server's,
one of the receiver's, or both at once.  `ServerReply` is a reply that reaches
the file with an event (`MsgpackRecv!Write`), `ServeRead` is a read that is
handled (`MsgpackRecv!Serve`, with what the server has instead of all there
is).  The client writes with `upd_req_with_dup`; its copy lives until
`WriteAnswered`, or until the call is back when the write is refused.

### ProtoParse

`refcnt`, `err`, `file` and `hold` are the fields of `upd_proto_parse_t`.
`call` and `lookup` are the two activities that may touch it: the call of
`upd_proto_parse` and the lookup it started.  A lookup may call back between
`ParsePath` and `ParseReturns`, that is inside `upd_pathfind_with_dup`, or
after; one that cannot be started is `ParsePathRefused`, with its count put up
and taken back.  `Unref` is `upd_proto_parse_unref_`; the user's callback lasts from
there to `Release`, which gives back the copied holds.  A message is a record
of what the parser's tests tell apart, and `Verdict` is the outcome of the
tests in their order.  `VerdictComplete` does not use it: `Wellformed` says
without an order what a message in order is, and a parse that reports has an
error unless its message is in order and has the file it needs.

A lookup gives its lock back between the driver's answer (`LookupAnswered`,
which leaves the file in `answer`) and its report (`LookupCb`, which takes the
hold), and nothing keeps the file alive in between.  So it may be removed there,
and `LookupCb` looks at nothing: it names the file and holds it, dead or alive.
`FileAliveForUser` excepts that case, which `RemovedBeforeHold` recognizes by
the history variable `late`, and no other.  What a reference on freed memory
does is not modelled; the balance `NoLeakedReference` leaves such a hold out.

### Memory, Array, Buf

A block is the sequence of its cells, `NULL` the empty one, and `Malloc(b, k)`
the set of things `upd_malloc` may do: resize the block, or fail and leave it,
when it grows (`GrowFails`) or when it does not (`ShrinkFails`).  `Moved` is
`memmove`, in offsets and counts, so that an off-by-one would show.  In `Array`
`p` may be longer than `n`, after a shrink that failed; the same holds for
`ptr` and `size` in `Buf`.

### PathNorm

The path is rewritten in place, and so is `buf`; `l`, `r`, `tail` and `up` are
the code's, as offsets.  One step of `Scan` is one turn of the loop.  The copy
whose unsigned count would be -1 has no defined outcome, and the state after it
is called "wild".  `Normal` defines the result independently: it reads the path
forwards and stacks its terms, where the code scans backwards and counts.
`ValidateName` has no state of its own; the paths the run normalizes are also
the names it judges, with a slash behind them and without.  With one, "." and
".." are in the run too, and have to be refused.  The byte "?" stands for all
that `UPD_PATH_NAME_VALID_CHARS` leaves out.  Whether `utf8chr` finds a NUL byte
at the end of that table is up to utf8.h, which is not among the sources, and so
NUL is none of the bytes here.

### Strings, Fields, Tensor, Calls

Functions without state are operators.  A string is a sequence of bytes, one of
which is NUL, and a comparison goes over a length and stops where both have a
NUL, as utf8.h does.  A field of a table is its name, whether it is required,
and which of its pointers are set (`want`); what `find_fields` does to the
caller's variables is the set of values stored, field by field.  A YAML scalar
is the number it stands for, or the kind of text it is; `Strtoumax` and
`Strtoimax` wrap and clip as the C library does.  A tensor is its shape, and
`Converted` counts the numbers that a call of a conversion converts, with the
unsigned loop count as it wraps.

`Calls` holds one call: its name, arguments and result.  A run makes each of
them once, and its properties compare results with what callers rely on.

## 4. Runs

| Run | Instance | Shows |
|---|---|---|
| `pathfind_faulty` | two lookups, paths of up to two terms, four files, a client that edits both directories, every failure | types, `OneOutstanding`, `EditsExcludeLookups`, `UntouchedAfterReport`; the lookups implement `PathWalk`, and each reports |
| `pathfind_clean` | three lookups, no failures, nobody removes | `Resolved`, `NoFalseMiss`: creation under a shared lock races, and a lookup that loses the race reports a term that is there by then |
| `pathfind_no_iso` | one lookup without an iso | a violation of `RootLookupHasIso`, see below |
| `recv_faults` | messages of two chunks, five chunks, two events on their way, every failure and refusal | the receiver's safety, and `AllDelivered` |
| `duplex` | requests and replies of two chunks, six chunks of requests, a limit of four chunks in memory, sizes of four bits, two writes without an answer, bad input and full unpackers | the server's account and that it strands nothing; the server is the stream of `MsgpackRecv`; each request is answered |
| `recv_refused` | the same with refusals only | a violation of `DeinitAssertion` |
| `proto_frames` | two parsers, two files, frames by path and by id, messages with nothing to look up, a message for each early error | the parser's count, holds, verdicts and reports, also when a file is removed between the lookup's answer and the hold, and that each parse reports |
| `array` | up to four elements, two pointers and NULL, any allocation may fail | a list, but for removals that cannot shrink; those lose nothing else |
| `buf_string` | up to five bytes, with a limit of three and without, any allocation may fail | a byte string within its limit |
| `path_tame` | every path of up to eight bytes over `/`, `.`, `a` and `?` whose last term is a name or has a slash after it | the normal form, inside the given bytes; a valid name is a path of one term |
| `path_wild` | every path of up to four bytes | a violation of `StaysInside` |
| `calls` | strings of up to three bytes, maps of up to two pairs, tables of up to two fields, integers of three bits and a sign, tensors of up to two dimensions of up to nine | `KeysExact`, `FieldsComplete`, `ValuesKept`, `ConvertsEach` |

Why the bounds are enough.  Lookups meet only at a directory's lock and at a
name they both create, which two do and three do with a third in the way; two
terms make a lookup take a second lock, ask under it and step down twice, and
the third term would repeat the second.  Five chunks in messages of two make
messages that come in one read, in several, two in one read, and a part left
over; two events are one that arrives while the other is handled.  Two
parsers share two files, so that one is held twice, once and not at all while
it is removed, before a hold or under it; each holds at most one, and a parser
knows of another only by the counts of files.  Four elements let a move have cells on
both sides.  Three requests of two chunks are written whole, in halves and two at
once, so that one is popped, one waits and one is half there; sizes of four
bits let the account wrap.  Three bits hold both ends of each integer type,
their neighbours and zero; two pairs hold a key twice, two fields one that is
found and one that stops the loop.  Eight bytes hold three terms with doubled slashes, or two ".."
after a name.

Where a run does not check for deadlock the system may stop: every lookup,
parse or path is over, or the receiver is closed or has nothing to read.
`pathfind_faulty` checks it: the other client can always go on.

### Fairness

Only what the host owes: it calls back for each lock and request it accepted
(a lock at the latest when it times out, `UPD_FILE_LOCK_DEFAULT_TIMEOUT`),
delivers the events it queued, and returns from `upd_file_unlock`.  The
receiver's user asks for the next message after each one it was given; that is
how the interface is used, and `AllDelivered` lets it give up after a failure.
In `Duplex` the server's user pops when it was called and replies to what it
popped.  Nothing is assumed of who starts an operation, writes, removes or closes.

### Findings

* `upd_pathfind` (pathfind.h:61-69) drops the base of an absolute path before it
  takes the iso from it, so a caller with a base and no iso has `upd_file_get`
  called with NULL, which libupd.h:252 rules out.
* `upd_msgpack_recv_next` (msgpack.h:317-321) leaves `reading` set when its
  request is refused.  A user that then closes the receiver fails the assertion
  of `recv_deinit` (msgpack.h:297).
* `upd_path_normalize` (path.h:94) computes a count of -1, unsigned, for a path
  that ends in "." or ".." without a slash, against the canary of test.c:183.

Met on the way and not a run of their own: `upd_array_remove` ignores that the
block could not shrink and keeps `n` (the exception in `ListUnlessStuck`), so
the assertion of test.c:98 needs that allocation to succeed; appending nothing
to an empty buffer returns NULL like a failure; a path of which nothing is left
normalizes to the same zero as one above the root.  An unpacker that reports a
part of a request again with the rest makes the server's account drift, and
wrap, so that a small `maxmem` then refuses every write; the default limit
of SIZE_MAX never binds (`AccountExact` says how far off the account is).  A
file removed after a lookup has found it and before the parser has hold of it
(pathfind.h:172, proto.h:251) is given to the user all the same.  `upd_yaml_find_fields` takes a negative text for an unsigned
field, as strtoumax does, and a document without a root looks as if every field
had been found.  A conversion of no numbers runs its loop SIZE_MAX+1 times.

## 5. Proofs

TLAPS checks these for every value of the constants that the modules' `ASSUME`s
allow: any number of lookups, files and names, any tree, messages and streams
of any length.

`PathFindProofs`.  `OneOutstanding` is not inductive: whether `Resume` may step
down depends on what `FindCb` left in `reply`, and whether `LockGranted` may ask
for the head of `rest` on a lookup with nothing left having reported.  The
invariant `IInv` says that, lookup by lookup (`Progress`), and adds that `links`
covers the tree (`TreeIsLinked`) and that a held lock keeps the other client
out (`HeldExcludesWriter`).  A step of one lookup leaves what `Progress` of
another reads alone (`Frame`), so each action needs one argument about one
lookup (`StartKeeps` to `ResumeKeeps`, `WriterKeeps`).  From `IInv` follow
`TypeCorrect`, `OneOutstandingHolds`, `EditsExcludeLookupsHolds` and
`UntouchedAfterReportHolds`.  `ImplementsWalk` shows that every step maps to a
step of `PathWalk` or a stutter, under `RootsKnown`: every caller gives an iso,
or a base for a relative path.  Without it the first finding makes a lookup
start nowhere.

`ResolvedHolds` and `NoFalseMissHolds` are about a tree that no other client
edits (`Shared = {}`, and `RootsKnown` for the first): with somebody removing entries a lookup stands where the
path led when it asked, and that is what `ImplementsWalk` says.  A lookup is on
its trail (`TrailOf`) when it stands where the terms it has consumed lead.  A
step of this or any other lookup only adds links, under names that had none, so
a walk along a path that led somewhere leads there still: the function `Walk`
that a longer tree gives agrees with the old one up to the place where the
lookup stands.  For a miss on a host that does not fail, the invariant keeps
what each answer established: an empty `FIND` was true of the first tree, and a
`NEWDIR` that came back empty found the name taken or no file left; neither is
undone later.  Lookups that create the same name meanwhile are any number.

`PathNormProofs`.  The scan goes backwards and `Normal` reads forwards, so the
invariant `PathInv` joins them in the middle.  `Scanning` says that left of `l`
the path is as it was, that reading it that far gives a stack of terms, and
that right of it are the terms kept, each with its slash; `Kept`, that taking
`up` terms from that stack and then adding those kept comes to the terms of the
whole path.  Each kind of turn of the loop preserves it (`StepEmpty`,
`StepKeep`, `StepTake`), and at the start what is owed is what `Recover` writes
back (`ScanEnds`, `NormalIs`).  That `tail + 3 * up` stays within the given length
is a part of the invariant: each ".." has made room for itself and its slash.
`RoomHolds`, `NormalizedHolds` and `ValidNamesHold` assume `Tame`, that the last
term of a path without a slash after it is neither "." nor "..": the paths left
out are those of the third finding, which the code gets wrong.
No bound on the length is used: `MaxLen` may be any number.

`MsgpackRecvProofs`.  The invariant adds to the types how the flags hang
together: a busy receiver waits for its read or for its user, never for both or
neither (`OneHand`), and an idle one has fed all it took and holds less than a
message (`Drained`).  From it follow `SingleRead`, `NoLostWakeup`,
`NoStrandedMessage` and `NoReadOutlives` with every failure and refusal, and
`DeinitAssertion` when reads are not refused.

`ProtoParseProofs`.  Two of the properties are not inductive.  That the file is
alive for the user needs to know that a found file sits in a hold from
`FoundKeeps` until `Release`, and that every hold is counted by the host; that
the verdict is complete needs to know what a parser has found while its call or
its lookup still runs, when nothing is reported yet.  `Outcome` says both,
`Counted` says how the count, the reports and the two activities go together,
and `NoLeakedReference` is the balance of references.  `HoldAdds` and
`ReleaseDrops` are the arithmetic of that balance: one more pair of parser and
slot, or all the pairs of one parser fewer; a hold on a file that was gone by
then is among neither.  Each step is an argument about one
parser, the others being left alone (`Others`), and one about the balance.
The assumptions are those of the module: finitely many parsers, at least one
slot, a set of messages.  The order in which the call, the callback and the
removals of files come is arbitrary.

`DuplexProofs`.  That the server strands nothing needs that its user is busy
exactly while there is a job (`Employed`).  `AccountExactHolds` assumes nothing:
modulo `SizeMax + 1` the account is what the unpacker holds less what it
reported twice, and each addition and subtraction keeps it so (`PlusShifts`,
`MinusShifts`).  `AccountIsHeld` takes the modulus away, with an unpacker that
reports each byte once and a size that holds whatever the client may send
(`Base + MaxSent <= SizeMax`).  The rest is about both ends, and is proved from
what is known of each: the invariant of `MsgpackRecvProofs` is carried over to
the receiver's half (`RecvStaysSound`) and one fact about the two is added,
that what is written and not taken is in the server's buffer (`InTransit`).
With it each step is one of `MsgpackRecv` or none (`StepsAsRecv`), so the server
discharges what `MsgpackRecv` assumes of its stream, and `DeinitAssertion`
holds because this server refuses no read.  This needs no bound on the number
or length of requests and replies, nor on the limits.

`CallsProofs`.  A call returns what its function returns (`Returned`, the
invariant), so each property is a fact about functions, for arguments that
`ArgumentsAssumption` describes: sequences, and integers of their width.
`StreqExact` and `StrcaseqExact` go by the first byte in which two strings
differ; `FieldsReturned` says what the loop over a table returns, field by
field, and `OffersKeep` and `YamlOffersKeep` that what is stored for a value is
its number.  `ConvertsEach` has two halves: the unrolled loop converts `n`
numbers (`ConvertedIsAll`), and the count of a tensor's scalars is their product
(`CountIsProduct`).  The count wraps nowhere on the way if the last product is a
size, because no product on the way to one above zero is larger than it
(`ProductsGrow`).

`ArrayProofs`, `BufProofs`.  What resizing and moving do is
worked out cell by cell (`ResizedCells`, `MovedCells`), then what each operation
leaves, with either answer of the allocator (`ResizeCells`, `InsertCells`,
`CloseCells`; `GrowCells`, `ShrinkCells`).  The array's invariant adds to the
types that the block is a sequence of pointers and unwritten cells, beyond `n`
after a failed shrink; the buffer's types are inductive as they stand.  Two
sequences with the same cells are the same, so each operation is a step of
`PtrList` or of `ByteString`.  Lengths and elements are arbitrary;
`MaxN` and `MaxSize` bound a run, and may be any numbers.

What a definition computes by recursion over a sequence (`Walk`, `Written`,
`Reading`, `Slashed`, `Counting`) is proved for every length.  The library's
induction theorems take an operator, which the provers here cannot instantiate,
so each induction looks at its least counterexample instead (`Least`): a set of
numbers that is not empty has a least one, by the well-ordering the library
proves.  That the recursion has a solution at all, and one only, is shown the
same way (`FoldExists`).

Only model-checked: everything temporal under fairness (`EveryLookupReports`,
`AllDelivered`, `EveryParseReports`, `RequestsAnswered`), which the prover cannot
do.  The three violations are of single instances by their nature.

## 6. Not modelled

* The `_with_dup` wrappers of lookups and parses: of them only the failing
  allocation matters, and `ParseAtOnce` has it.  That the copy they return may
  be gone by then is a matter of callers; those in this repository only test
  the pointer.  `upd_file_lock_with_dup` has no caller here.
* The clamping and scaling of a tensor's numbers, and the sizes of their types.
* Texts that the conversions of the C library read differently, such as a
  leading zero (octal for `ui` and `i`, decimal for `f`).
* `upd_yaml_parse`, `upd_msgpack_pack_*`: calls into libyaml and msgpack-c.
* The host: another program.  Its locks, requests, events and references are
  modelled from their declarations in libupd.h and from how they are called.
  `PathFind` keeps files for ever; `ProtoParse` counts their references, and
  says no more of a file that is gone than that it is.
* Widths: `n*sizeof(void*)` in array.h and `size+n` in buf.h are taken not to
  wrap, since no object is that large.  The count of path.h:94, which does, is
  in the model.
* The bytes of names, messages and buffers, beyond what the tests in the code
  tell apart.
