# VDatabase in TLA+

Specifications of VDatabase: EasyDB, a concurrent table server (Rust, `src/Concurrent Database`),
its driver and ORM (Python, `src/Driver`, `src/ORM Layer`), and a separate RPC framework (C++,
`src/RPCFramework`). `PROJECT.json` maps each definition to the lines it models and lists the
runs, the slips ("mutants") each property catches, the hazards and the findings.

The server's commands, its cascading drop and its threads are specified, the sessions of the ORM
on top of the commands, and the RPC framework twice: one connection between a client and the
server, byte by byte, and the server's table of all connections.

## The system

**Commands** (`database.rs`). State: the schema, one map from row id to (values, version) per
table, and *one* counter of row ids. insert, update, drop, get and query each run to the end
under a mutex. A foreign key is checked when it is stored; a drop removes the rows that refer to
the dropped one, and what refers to those. Correct when no reference ever dangles, ids are never
reused, an error changes nothing, and the version tells a client whether the row it read changed.
Hard: long mixtures of updates and cascades, the recursion of `handle_drop` over lists made
before it and used after it, the special version 0.

**Threads** (`server.rs`). State: a counter of clients and the database, each behind a mutex.
A thread per connection admits or refuses, then receives, locks, executes and responds until
EXIT or an error. Correct when at most 4 clients are served, slots come back, the database mutex
is never left locked, a request is executed once, and clients are answered. Hard: the early
returns (`?`) on broken sockets, panics that poison the mutex, reads at the end of a stream.

**Packets** (`packet.rs`). Big-endian integers, values with type and size, strings padded to four
bytes; one read per packet into an uninitialized buffer. Correct when decoding inverts encoding
and never fails to return.

**Schema** (`schema.rs`). Tokens, then tables one by one; a column's type is a native type or a
table parsed before. Correct when what is accepted has no cycle of references.

**Driver** (`easydb.py`). A socket and two flags (of which `close` sets the wrong one). insert
retries until OK. Errors become exceptions. Correct when it stops, reports refusals, and never
uses a closed socket.

**ORM** (`table.py`, `field.py`, `orm.py`). Objects with a cached id and version; `save` inserts or
updates, saving referenced objects first; fields are descriptors shared by the class. Correct
when concurrent saves lose no update, and one object's save or default does not affect another's.

**RPC server** (`rpc.cc`, `rpc.h`). One thread, epoll, two sliding buffers per connection, a
doubly linked list of connections by age (nothing uses it to time out idle ones), a table of services filled from
another thread. Correct when pipelined requests are answered once and in order, the list holds
exactly the connections, and no pointer to a deleted one is followed. Hard: connections are
deleted while a batch of events names them, or while the destructor walks the list; buffers fill
up; clients end in the middle of a write.

**RPC client and codec** (`rpc.cc`, `rpcxx.h`). Up to 8 pending requests, flushed together and
matched to replies by order only; encoders and decoders per type, strings with a one-byte length.
Correct when each result is that of its own call, a call fails only for a reason, and Flush
returns. Hard: streams cut anywhere, resets that overtake replies, arithmetic modulo 2^8.

Interaction: the ORM calls the driver, the driver exchanges packets with a server thread, the
thread calls `handle_request` under the mutex. The RPC framework stands alone.

## Modules

| Module | Models | State and actions |
| --- | --- | --- |
| `EasyDB` | `database.rs`, each command one step | `data` is `data_tables` keyed by table and id, `row_num` and `response` as in the code; `Insert`, `Update`, `Drop`, `Get`, `Query` are the five handlers |
| `DropCascade` | `handle_drop`, call by call; extends `EasyDB` | `stack` holds the calls and their `to_drop`; `StartDrop` enters, `Recurse` is the loop's call, `Finish` removes the row and returns |
| `Server` | `server.rs`, the sockets and the clients | `thread` is the place in `handle_connection`, `count` and `db_holder` the two mutexes; `ThreadStep` is the thread, `ClientStep` the environment |
| `Orm` | `table.py` and the driver's use of responses; extends `EasyDB` | `obj` is pk and version of each session's `User` and `Account`, `doing` what is left of a call that takes two commands; `New`, `SaveUser`, `SaveAccount`, `GetUser`, `GetAccount`, `Delete` begin a call, `Continue` sends its next command |
| `Rpc` | one client and its connection: `BaseClient`, `OnConnectionEvent`, `HandleRequest`, the codec's lengths | `calls`, `results`, `insz`, `instart` as in `BaseClient` and `Flush`; `inbuf`, `outbuf`, `has_error` as in `Connection`; four counters for the two streams. `Send`, `StartFlush`, `ReadReplies`, `ParseReply`, ... are `Send` and the loops of `Flush`; `OnConnectionEvent`, `HandleRequest`, `EndPipeline` the server's turn |
| `ConnList` | all connections of the RPC server: list, descriptors, epoll, batches, `~Server` | `list` holds the pointers `mru`, `lru`, `next_mru`, `next_lru`; `OnNewConnection`, `OnConnectionEvent`, `OnError`, `DestroyNext` as in the code |
| `CallQueue` | what a client of the RPC framework may rely on: calls made, executed and answered in turn | abstract specification of `Rpc` |
| `Recency` | what the list promises: connections, most recently active first | abstract specification of `ConnList` |
| `EasyDBProofs`, `CascadeProofs`, `ServerProofs`, `RpcProofs`, `RpcErrorProofs`, `ConnListProofs`, `RecencyProofs`, `OrmProofs` | theorems | |
| `MCEasyDB`, `MCDropCascade`, `MCServer`, `MCRpc`, `MCConnList`, `MCOrm` | instances for TLC | |

`EasyDB` is the abstract specification of `DropCascade`: under the mapping
`data <- Shown` (the tables before the drop while it runs) a whole cascade is one `Drop` step (`DropIsAtomic`).
`Drop` is defined by what it must remove, the smallest set of rows closed under "refers to";
`DropCascade` by how the code finds them.

`Recency` is the abstract specification of `ConnList`: under `order <- Walk(list.mru, list.next_mru)`
every relinking of pointers is a move to the front, an entry or a departure (`RecencyOrder`).

`CallQueue` is the abstract specification of `Rpc`: with the functions of `calls`, the length of `log`
and `error` in the place of its variables, everything that happens to bytes, buffers and the two ends is
`Make`, `Execute`, `Answer`, `GiveUp` or invisible (`CallsQueueUp`).

`Orm` composes with `EasyDB`: each of its steps is one command of `EasyDB` and what the driver and
`table.py` make of the answer, so its properties rest on the server's checks and on the ORM's
bookkeeping together.

A comment "Slip:" marks an operator that differs from the next one as a plausible bug would; no
specification uses it. Each is the mutant with which a property is shown to fail.

Choices a reader may question:

- A critical section of `mutex_count` is one step. It touches only the counter, and the response
  written under it goes to the thread's own socket.
- `Server` abstracts a packet to what it does to the thread: a command, one whose command panics,
  one that does not decode, a text that `from_raw` never finishes, EXIT. `EasyDB` says what commands do.
- At the end of a stream `receive` decodes an uninitialized array. It may hold the thread's request
  before (same stack slot), that of a connection whose thread had the same stack, or nothing valid,
  so any packet may come out (`EndOfStreamDecodes`), an `EXIT` or one that panics too.
- A write to a closed peer succeeds once and draws a reset, after which writes and reads fail. A
  client that closes with unread bytes resets at once, and a client that vanishes may do either. Clients and sockets are the environment.
- The driver's `connect` compares a tuple with numbers, so a refused client of `Server` goes on as
  if it were connected, until it finds its socket closed. `Answered` says that it does not wait for
  ever; that `connect` should have told it is not checked.
- `Rpc` counts bytes instead of storing them. What the buffers begin with follows from how many
  bytes went in and out, so a call or a reply is found by its place in its stream; a place where
  none begins is garbage.
- A function in `Rpc` is what the codec needs to know of it: the bytes of each argument and of the
  result, which of them are texts, and whether the service exports it. A text brings its one-byte
  length; the count of the bytes behind it is taken modulo 256 where the code does.
- `Verdict` of `Rpc` leaves out that a call with credentials is rejected (`rpc.cc:202`): the
  framework's client writes none (`SunRpcCallBody`), and other clients are not modelled.
- In `Rpc` the server reads the stream with the client's end at once or a while before it; a close
  with unread calls turns into a reset, which overtakes replies. The signal SIGPIPE, which nobody
  handles, may end the server at any write to a client that is gone (`WriteFails`).
- `ConnList` lets epoll refuse any new socket and fail nothing else. A refused `Connection` keeps a
  number that the next socket may get: closing either then hits the descriptor of both, as in the code.
- Each session of `Orm` has one `User` and one `Account` that refers to it. What a program assigns
  to a field between two calls is chosen when the object is saved. `seen`, `writer` and `blindly` are
  histories; no guard reads them.
- A panic is a response `PANIC` in `EasyDB` and the end of the thread, with the mutex poisoned, in `Server`.

## Runs

| Run | Shows | Bounds |
| --- | --- | --- |
| `easydb` | rows stay typed, references whole, ids unique and never reused; errors change nothing | three tables, table 3 refers to 2 and 1, so a row can hang on another along two paths; four rows ever inserted, the fewest that let a row hang on another only through a third; updates on versions 0 and 1; wrong types, wrong arity, unknown tables and rows |
| `easydb_blind_version` | finding: version 0 sets versions back | as above |
| `drop_cascade` | the recursion implements `Drop`, ends, is never deeper than the tables are many, does not panic, and leaves references whole after every single removal | the same schema, four rows: both paths and a bystander |
| `server_orderly` | exact counting and return of slots, refusals only when full, nothing executed twice | three clients for two slots, two requests each |
| `server_faults` | limit, mutex and answers with clients that vanish, requests that panic or never end, and ends of streams decoded as any packet | three clients for two slots, one request each |
| `server_busy` | finding: a slot leaks | one request each |
| `server_phantom` | finding: a request is executed that nobody sent on that connection | one request each |
| `rpc` | calls executed once and in order, results matched, no call left waiting that could be answered, no failure without a reason, `Flush` returns, connections are let go; the connection implements `CallQueue` | headers of 2 bytes and buffers of 8, so that every cut of every stream and every full buffer occurs; three calls to a pipeline, four in all; a function that is not exported, one with a text; the server may be stopped |
| `rpc_texts` | finding: `Flush` never returns | the sizes of the code, eight calls, streams cut at 4096 bytes only |
| `conn_list` | no use after free, both directions of the list agree, descriptors have one owner, all closed at the end; the list implements `Recency`; a stopped server stops | three connections, three descriptors, batches of up to three events in any order |
| `orm` | no lost update, no spurious abort, every call comes back on the answers a session can get (those on which the driver's `insert` loops for ever, `easydb.py:233`, are not among them) | two sessions, two ids, two contents, versions to 2 |
| `orm_reference` | finding: a stored reference is refused | as `orm`, one content |

Four rows in `easydb` give the diamond (a row that refers to another directly and through a
third) and the chain without the direct reference, which a drop must follow to its end. Three clients for two slots give a refusal beside two that compete for the
mutex. `MaxClients` is 4 in the code; nothing depends on its value, as the theorems show.
Clients need not send, and no
run switches the deadlock check off: `AllOver` is the one state in which `Server` rests.

Bounds in guards: `MaxRowId` (`EasyDB`), `MaxSends` (`Server`), `MaxCalls` and `Segment` (`Rpc`),
`MaxVersion` (`Orm`). In `rpc` four calls against a pipeline of three give a second flush after a
first, and three replies of four bytes against an output buffer of eight and a socket that takes
five make the server stop its loop with calls left in its buffer. The socket's buffer must hold what
the server's buffers do not: with one no larger than `(MaxPipeline - 2) * MaxResponse`, calls left in
the buffer could wait for ever, since only input makes the server look at them again
(`NoCallWaits`; TLC shows it with a buffer of that size exactly). In the code that is 6 * 128 = 768
bytes, and the kernel's smallest buffers hold 2.5 KB, so the code relies on this and may. In
`conn_list` three connections are the fewest with one between two others. In `orm` two ids are enough
for a `User` and its `Account` that two sessions share; a row deleted and stored again by a session
whose `Account` is still there needs a third id and is beyond TLC here, but covered by the proof.

**Fairness.** `DropCascade`: the thread in `handle_drop` goes on. `Server`: weak fairness of each
thread and of clients noticing what they are sent; no client has to send, exit or vanish. Weak
fairness is enough for the mutex only because the number of requests is bounded: a thread that
waits could be overtaken for ever by clients that never stop, for Rust's mutex is not fair, and
`Answered` says nothing about that. It does say that a thread that panics or hangs holds
nobody else up. `Rpc`: the server's one thread runs, and so does a client inside `Flush`, which
polls without a timeout; nobody has to call, to flush or to leave. `ConnList`: the server's thread
runs; nobody has to stop it. `Orm`: a session inside a call sends its next command.

## Proofs

`tlapm` checks the eight modules of theorems, for
every value of the constants that satisfies the assumptions named in the modules (the schema is what
the parser returns, requests are typed, a message fits its buffer, there are finitely many
connections):

- `TypeCorrect`, `RowsAlwaysWellTyped`, `ReferencesAlwaysHold`, `IdsAlwaysUnique`: the conjunction
  `IInv` of the four invariants is inductive. A drop keeps references because the removed set is
  closed (`DoomedIsClosed`): a row that stays cannot refer to one that went. Insert and update
  share `StoreRow`: a stored row was checked against the same tables it is stored in.
- `RejectedChangesNothing` needs the invariant: the cascade runs before the row is looked up, and
  only because nothing dangles does a drop of a missing row find nothing (`NothingDoomed`).
- `IdsNeverReused`: what a step adds carries an id above the counter.
- `VersionsOnlyGrow`: versions only grow if nobody sends version 0 (`NoBlindUpdates`). The run
  `easydb_blind_version` shows the condition is needed.
- `CascadeIsOneDrop`: `CascadeSpec => DropIsAtomic`, the refinement, with `CascadeTypeCorrect`,
  `RecursionBounded` and `ReferencesHoldInside` from the same invariant `CInv`. `CascadeTypeOK` is
  more than ranges: what a call has still to drop are rows of tables that refer to its own, each with
  such a column (`Frame`). A list made before the
  recursive calls may name rows that are gone and need not name rows that a later frame has; what
  holds is that a row which refers to a call's row is on its list or being dropped by the next call
  (`Listed`), so nothing refers to a row when it goes. What is listed, being dropped or gone lies in
  every set closed under "refers to" (`OnlyDoomed`); when the outermost call returns what is gone is
  itself closed, hence the smallest such set. Each call is for a later table than the one before
  (`GoesDown`), which bounds the depth and keeps the first row to the last. Between drops, the
  refined and the abstract commands are shown equal operator by operator (`SameCommand`).
  `OnlyQueriesPanic`: the panic in the scan needs a stored row that does not fit its table, so no
  command panics but a query on the column after the last (`NoQueryPastColumns` excludes it).
- `LimitHolds`, `MutexHolds`, and `TypeCorrect` of `Server`: the number of serving threads is at most
  `count`. It is an inequality because slots leak; it is what keeps `count` from falling below 0.
- `CountIsExact`, `NoPhantoms` and `RefusedWhenFull` hold for clients that keep to the protocol
  (`Orderly`: nobody vanishes, nobody sends the query that panics). The invariant `OrderlyInv` adds
  that on each connection it is one side's turn (`TakesTurns`): then the peer's end is open whenever a
  thread writes, no write fails, no early return of `handle_connection` is taken, and the counter is
  the number of threads that serve. The runs `server_busy` and `server_phantom` show what
  vanishing clients do to the equation and to the buffer.
- `RpcProofs` proves `TypeCorrect`, `Executed`, `Replied` and `Settled`. None of the properties is
  inductive, for the code compares no ids: that the next reply in the client's buffer answers the
  oldest call without one is a fact about places in streams. The invariant `IInv` says that calls
  and replies each lie end to end in their stream (`Chain`), that the server's input buffer begins
  where the executed calls end, that the replies of the first k executed calls are the first k
  replies and as long as their results (`RepliesInv`), that an error reply ends the connection's
  service, and that the client has parsed up to where the replies it counted end (`ClientInv`).
- `ConnListProofs` proves `TypeCorrect`, `Safe`, `Owned` and `EverythingClosed`. A doubly linked list
  needs a local strengthening (`Linked`: a neighbour's pointer points back, and the ends are those
  of `mru` and `lru`); with it every relinking keeps every pointer within the living. It needs a
  global one too, that the list has no circle, which a rank of its connections states (`Ranked`). An event names a connection that epoll watches and that occurs once in its batch, which is
  why deleting the connection of one event leaves the others good; the destructor's next connection is
  another one because ranks fall along the list. `AllClosed` needs that what is open is what is
  watched (`WatchInv`), and that the destructor has every watched connection still before it
  (`DestroyInv`).
- `RecencyProofs` proves `Mirrored` (the list read backwards is the list read forwards) and
  `ListsByRecency`, the refinement of `Recency`. Both are about the sequence a walk along the pointers
  makes. The proof keeps that sequence beside the list: a sequence "lays out" the pointers if its
  neighbours are those the pointers name. Each relinking is a step of the sequence, and a walk along
  pointers that a sequence lays out gives that sequence. The last is an induction on the length of the walk,
  done on a set of numbers with a least element (`AllNumbers`).
- `RpcErrorProofs` proves `ConnectionIsQueue`, the refinement of `CallQueue`, for all sizes and without a
  hypothesis. To the invariant of `RpcProofs` it needs that calls without a reply have no result yet and
  that a client that failed has no descriptor (`OpenInv`): then what `Fail` marks by position is what has
  no result, the call a reply is given to is the oldest without one, and no reply is read after a failure.
  It also proves `CallsAnswered` and `ErrorsHaveReasons`, under two hypotheses on the sizes.
  `SocketHolds` is the one of "Bounds" above. The argument counts: each call is answered in at
  most `MaxResponse` bytes, so the replies since the last flush are at most that much for each
  call (`AnswersInv`), and what the server has still to write did not fit behind the replies of earlier flushes
  in the kernel's buffer (`OutInv`). Hence there is room for a reply whenever a call waits, and a call
  that waits is a call not yet received in full (`PipeInv`). For the errors
  every way to `Fail` gets a reason (`Reason`): a read or write fails only at a connection that was
  closed (`ReadInv`, `CloseInv`), and an input buffer is never full with a call or reply that looks
  incomplete (`FrontWaits`). The last needs `TextsCounted`, that a text behind which a buffer
  is full still looks complete, which excludes the effect of finding 4: with the sizes of the code it is true of
  functions without texts, and false of texts that bring bytes of their own.
- `OrmProofs` proves `SessionsTypeCorrect`, `UpdatesNotLost` and `OwnVersionsCurrent`. The invariant
  includes that of `EasyDBProofs`, whose lemmas are used again, and says (`Agrees`) that no object is
  ahead of its row, that one with the row's version saw its values, and that the last writer has its
  version; of the row that a `get` has fetched and not yet given to its object it says the same. That
  no object is ahead needs that an atomic save never sends version 0. Rows saved with
  `atomic=False` are excepted, for the reason of the first finding.
  `SessionsAreClients` shows that every step of a session is one typed request that `EasyDB` handles
  (the server's specification with all typed requests allowed), or none; so references hold, ids are not
  reused and rejected commands change nothing in the composition too (`SessionsKeepReferences`,
  `SessionsReuseNoId`, `RaisingChangesNothing`). `VersionsOnlyGrow` does not carry over:
  `atomic=False` sends version 0.

Only model-checked: the liveness properties `DropReturns`, `SlotsReturned`, `Answered`, `FlushReturns`,
`ConnectionReaped`, `Stops` and `CallsReturn`, for liveness under fairness and `ENABLED` are out of the
prover's reach. So are the induction theorems of the library, which take an operator as a parameter;
where a proof needs an induction it is on a set of numbers that has a least element (`AllNumbers`).

## Findings

1. `database.rs:301`: an update on version 0 resets the version to 1 instead of incrementing it, so
   a stale update can pass the version check.
2. `server.rs:122`, `129`, `147`: the early returns keep the client's slot; after four, the server
   refuses everybody.
3. `packet.rs:356`: the number of bytes read is ignored; after the last packet the one before, or
   another connection's, may be executed.
4. `rpcxx.h:281`: the decoder of a text counts the bytes behind the length modulo 256. With enough
   further replies behind it a complete text looks incomplete, and `Flush` polls for ever. On the
   server's side, where the same decoder reads the arguments, an input buffer that is full behind such a text makes
   the server close the connection; `ErrorsHaveReasons` has a hypothesis because of it.
5. `table.py:246`: `InvalidReference`, "foreign key not found in the database", is what a new object
   raises when the object it refers to is stored. A save that failed half way, after it stored
   the other object, can therefore never be repeated.

Also seen, without a run of their own. In the server: a query on the column after the last panics
under the mutex (`database.rs:418`), the operator check is never true (`database.rs:466`), a text
without characters hangs its thread (`packet.rs:336`). In the driver: `connect` always succeeds
(`easydb.py:90`), `close` sets a flag nobody reads (`127`), `scan` reads 4096 bytes at most (`672`),
insert repeats for ever after BAD_TABLE, BAD_ROW or BAD_REQUEST and makes BAD_VALUE an
`InvalidReference` (`233`, against the comment at `exception.py:24`), and `drop` only prints on other
errors. In the RPC framework: replies' transaction ids are never compared (`rpc.cc:648`), a
failed `Flush` closes a descriptor that the destructor closes again (`637`), a write to a client that
is gone may end the server by SIGPIPE (`530`), a `Connection` refused by epoll stays until `~Server`
(`435`), texts longer than 255 letters are cut (`rpcxx.h:264`). In the ORM a field with a default
ignores the first value assigned to it, in any object (`field.py:276`).

## Not modelled

- Floats with NaN, overflow of ids and versions (2^63 operations), responses larger than the socket
  buffer, packets split over several reads, errors of `accept` in the Rust server.
- The bytes of packets (`packet.rs`, `packet.py`) and the tokens of the schema (`schema.rs`): they
  keep no state, and the models use what their callers get from them.
- The driver's checks of arguments, its `scan` and its flags; the ORM's `filter` and `count`, its
  fields and their defaults, and a save with `atomic=False` of an object with references.
- `AddService` and the table of services of the RPC server, filled before it listens; `Listen` and
  `Connect`, which lead to the initial states.
- googletest is third-party code and by far the larger part of the repository's C++ (41000 of 43000
  lines); the specifications cover little of that total and most of the framework's own code with
  state. `main.rs` and the scripts only start things.

## What could follow

The composition of `Orm` with `Server`, where a request may be executed twice.
