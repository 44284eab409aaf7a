# History chain: a verification project

This directory holds TLA+ modules that model `history-chain`, the TLC
configurations that check them on small instances, and proofs of theorems about
them that TLAPS checks. Paths like `chain.rs:68` are under `src/src/`.

## 1. The system

A node keeps a *main chain* of digest blocks. Each digest block holds the Merkle
root and the length of a *side chain* of data blocks. Nodes exchange signed
messages over UDP; chains and the meta data of files go to local files.

| Component | State it keeps | Operations | Talks to | What makes it correct |
|---|---|---|---|---|
| `hash.rs` | none | `hash_neighbor`, `merkle_root` | called by `block.rs` | a root and a length determine the hashes under them; the loop ends |
| `block.rs` | a block | `create`, `genesis`, `verify`, `time_verify`, `digest` | called by `chain.rs`, `executor.rs` | the hash covers every other field; the time window never widens |
| `chain.rs` | blocks and limit of a chain; `Main`, `Sides` | `new`, `add`, `verify`, `iter_mut`, `index_select`, `Main::add_block`, `Sides::add_chain` | owned by the keeper and by callers | what `add` builds, `verify` accepts; limits hold; tampering shows; selections are the right blocks |
| `keeper.rs` | main chain, side chains by digest id | `is_full`, lookups | behind a lock in the executor | each side chain matches its digest; nothing is lost |
| `executor.rs` | keeper, `chain_buf` | `add_block`, `add_chain` | callers hand it whole chains | digest and chain come together; ids are never reused |
| `fpsc/` | one buffer, its state, two wakers | `produce*`, `consume*`, `poll_write`, `poll_read`, `reuse` | two tasks share it through raw pointers | all bytes, in order, once; both sides end; no access to the buffer at the same time |
| `req_resp.rs` | queue of requests, a oneshot for each | `Request::send`, `Response::response`, `Worker::run` | every task of a node | an answer or an error for each request, never silence |
| `nodes/identity.rs` | signing key, queue | `sign`, the signing task | the encode task, address checks | the same, and the signature is of the bytes sent |
| `nodes/node.rs`, `network/register.rs` | four tasks, three channels, handlers | receive, handle, sign, send | each other by channels, the network | answers go to whoever asked; the node goes on receiving |
| `network/udp.rs` | sockets bound for one exchange | `udp_recv_from`, `udp_send_to`, `check_addresses_available` | the network | an address that answers is found available |
| `network/protocol.rs` | none | encode, decode, sign, verify | UDP and streams | what is sent is what is decoded, whole |
| `db.rs` | meta file, cache of it, bundle file and its description | `save_file`, `find_meta`, `save_to_file`, `save_chains_to_bundle`, `load_chains_from_bundle` | the file system | what was saved is found, after a restart too |
| `serializer.rs` | a buffer | encode, decode, read all of a stream | used by bundles | every byte of the stream is read, once; growing the buffer ends |
| `archive.rs`, `pipe.rs`, `nodes/center.rs`, `nodes/normal.rs`, `network/{handlers,network,signal,tcp,router}.rs`, `utils/`, constants, errors | none, or unused | | | helpers, builders, and parts that are unfinished at this commit |

Hard behaviours: `add_chain` fails halfway; the wall clock steps back between two
blocks; u64 sums wrap; `iter_mut` writes into verified chains; two tasks share a
ring buffer without a lock; requests dropped by failing or cancelled workers; a
receive loop that ends on a timeout; a lock held across an await; unflushed writes
and torn entries; a cache that is never refreshed. `PROJECT.json` lists each at
its line, with the properties that watch it.

## 2. The modules

| Module | What it is |
|---|---|
| `Merkle` | SHA-256 as the symbol `Hash`; `hash_neighbor`, `merkle_root` |
| `Blocks` | blocks as records; creation, hashing, verification; the width of u64 as `TimeSpace` |
| `Chains` | what a chain computes without changing: `chain_verify`, `accepts` (the test of `add`), `index_select` |
| `BlockChain` | one chain in a caller's hands: `add`, writes through `iter_mut`, a published copy |
| `MerkleLoop` | the loop of `merkle_root`, one round a step, on two chains side by side |
| `Ledger` | abstract: commitments that only grow, and a store of the chains committed to |
| `ChainExecutor` | `add_block`, `add_chain`, the keeper, and the caller that builds and tampers with the chains it adds |
| `ByteStream` | abstract: bytes accepted and delivered, in order, no more than a capacity under way |
| `Fpsc` | the ring buffer of `fpsc/`, a producer of either kind, a consumer of three kinds, one poll a step |
| `Service` | abstract: a call that was begun is answered once or fails, and nothing is answered after closing |
| `ReqResp` | a task that serves requests, in its three forms: `Worker::run`, the signing task, a handler's `spawn_run` |
| `NodePipeline` | the four tasks of a node, their channels, the child tasks, the mutex of the register, sockets |
| `Introduce` | `make_new` with the probes of `check_addresses_available` |
| `Catalogue` | abstract: lookups that return what was stored and do not change while the process lives |
| `MetaStore` | `save_file` and `find_meta` of the database, delayed writes, restarts |
| `Serializer` | encoding a vector of chains into a buffer that grows, reading a stream into it, decoding |
| `Bundle` | chains saved to and loaded from one file through one serializer, and its description |
| `Wire` | headers and messages as frames, in datagrams and in streams |
| `MC*` | the values TLC uses |
| `*_proofs` | theorems, for one module each or for the two halves of a part: `BlockChain_proofs` also of `MerkleLoop`, `Db_proofs` of `Bundle` and `MetaStore`, `Node_proofs` of `NodePipeline` and `Introduce`; `Chains_proofs` holds the lemmas that the chain modules share |

`Merkle`, `Blocks` and `Chains` are used by `BlockChain`, `MerkleLoop` and
`ChainExecutor`; `Serializer` by `Bundle`. `ChainExecutor` implements `Ledger`, `Fpsc`
implements `ByteStream`, `ReqResp` and `NodePipeline` implement `Service`, `MetaStore`
implements `Catalogue`. `MerkleLoop`, `MetaStore` and `Introduce` put the name of their
part before `Init`, `Next` and `Spec`, so that a module of proofs can extend them next to
another one. The signer in `NodePipeline` is a `Service` that answers or is
gone, which is what `ReqResp` shows of the signing task. Operators whose comment begins
with "Mutant" are wrong variants of a definition after them, used to show that each
property can fail; no specification uses them.

### Chains: `BlockChain`, `MerkleLoop`, `ChainExecutor`

A block's `body` stands for `data_hash` and `data_uuid`, or for
`merkle_root` and `length`. A chain is the sequence of its blocks; index `i` in the
code is `i + 1` in the model. Each method that takes `&mut self` or holds the
keeper's write lock from its first access to its last is one step: `add`,
`add_block`, `add_chain`. `add_chain` has three outcomes and three actions:
`AddChainRefused` (an early `Err`), `AddChainDigestOnly` (the `?` of `executor.rs:156`
after the digest block went in) and `AddChain`. Every created block takes any
timestamp, so the clock may step back. `hash_block` is one symbol for each tuple of
fields: this assumes that SHA-256 has no collisions among the blocks of a run; the
theorems `RootBinds` and `TamperEvidentAlways` name that assumption, the others do not need it. `BlockChain` adds
two history variables: `writes` (how often `iter_mut` was written through; a chain is
`pristine` while it is 0) and `published` (the copy that another party kept). `Overwrite`
and `OverwriteDraft` put any block `Rewritten` allows in the place of one: every field of a
`DataBlock` is public, so the body, the timestamp, the ids and the link may change, and the
hash may be kept, taken from elsewhere or computed anew for the new fields. Several writes
make a chain that is hashed and linked consistently again from some block on.

### The ring buffer: `Fpsc`

`vec`, `state`, `w_waker` and `r_waker` are the fields of `Inner`; each call
of `poll_write`, `poll_read` or one of the two `poll` is one step, named after the call
and the branch it takes: `PollStream(n)` is `ProducerBuf::poll` on a stream that gave `n`
bytes, `PollReadTooSmall` the error of `poll_read`. A task is `ready`, `parked` (its waker
is saved) or `waiting` for the stream, and ends `ok` or `err`; `tokio::join!` may poll a
task that nobody woke, so a parked task may be polled too. `StreamReady` stands for the
stream's own wakeup. A byte is the call that gave it and its place in it. `taken`,
`consumed`, `lost` and `overtaken` are history variables. A closure reads its slice and
does not write to it.

`ReuseFromConsumer` and `ReuseFromProducer` are `reuse_buf_from_consumer` and
`produce_to_producer` (`mod.rs:24-33`). They take their half of the pair by `&mut`, so no
call of that half is under way; the other half may be in the middle of one. `reuse` itself
looks at nothing and wakes nobody: what was not read is gone, so is the end that a reader
was about to see, and a producer that was parked sleeps on with its buffer free. `overtaken`
marks that last case. A reuse sets the half that had returned back to `idle`.

### Tasks that serve requests: `ReqResp`

A request is named by the client that makes it. `queue` is the mpsc channel, `oneshot`
the answer channel of each request, `hand` the request between `recv` and its answer.
`NewRequest` makes the oneshot, `SendToWorker` takes a place in the queue: tokio's
`reserve` and push are one step, since a receiver that is dropped closes the channel
before it drains it. `Receive` and `DropResponse` are the two ways in which a client
ends. `RecvWork`, `SendBack` and `DropRequest` are the worker's loop, `RecvNone` the
`None` branch, which goes round again (`req_resp.rs:185`), and `Stop` the cancelled
branch. `kind` tells the three loops apart where they differ: the signer's `select!` waits for the
token alone once no sender is left (`RecvNone`), and an identity signs everything or, as
a clone without its secret key (`identity.rs:237`), nothing.

### The node: `NodePipeline`

Tasks 1 to 4 are `listen`, `handle`, `encode` and `send`, with a channel in front of each
of the last three. `nature` says what will become of a message, `fate` what has become of
it. Task 1 binds a socket for every datagram (`Bind`, `Take`, `CloseSocket`) and ends on
the first error: a timeout, or a datagram that does not decode (`node.rs:267`). Datagrams
that arrive while no socket is bound are lost. Task 2 starts one child for each message
(`StartChild`), and the children take the register's mutex for the whole handler
(`LockRegister`, `HandleOk`, `HandleFails`). Task 3 waits for the signer (`Sign`), task 4
sends (`SendTo`). A response too large for the buffer is dropped where it is encoded
(`EncodeFails`, nature "oversize"); one for which `udp_send_to` returns an error, because
its bind or its send fails, is dropped by task 4, which goes on (`SendToFails`, nature
"unreachable"). All four end
on cancellation, between any two of their awaits. A handler that is "stuck" never
returns, as one does that waits for the register itself.

### Making friends: `Introduce`

`probe` holds the futures of `join_all`, which one task polls in their order: each binds
`UDP_CHECK_PORT`, sends, and waits for one datagram; a probe that finds the port taken
fails, so that one address is probed at a time unless an earlier probe is done before a
later one is polled. Peers answer to the port from which they were asked, from any port of
their host. Nodes start and stop at any moment, during a call too (`NodeUp`, `NodeDown`);
what they sent stays in `net`, so a call may take the answer of a node that has stopped
since. `net` keeps late answers for later calls, and `Stray` is what other nodes
send to either port, introductions nobody asked for among it. `been_up` (the hosts at which
a node has listened) and `introduced` (the datagram of the last introduction) are history
variables.

### Files: `MetaStore`, `Bundle`, `Serializer`

In `MetaStore`, `write_all` on a tokio file only fills a buffer (`pending`); `Write`,
`WriteTorn` and `Restart` decide later what reaches the file `disk`, in any order. A scan
of `find_meta` reads one entry a step with the list's mutex held, while saves go on. Any
error of a read ends it (`FindFails`), on a whole entry too, and so does a caller that drops
the future at an await (`FindCancelled`): what was read until then is the list from then
on, though it is a part of the file (`scan.cut`). A torn
entry takes its missing bytes from the next ones: what comes out may decode, under a uuid
that nobody looks for, and may take the reader past the end it noted. The file names
"meta" and "bundle" are excluded; a file of that name would overwrite the store itself.

In `Serializer` a cell stands for four bytes: a size header is one cell. `EncodeNext` is
one round of `encode_vec_into` with its three ends (`ok`, `panic`, `hang`), `ReadInto` one
round of `read_all_from_stream`. In `Bundle`, `SaveToFile` appends, `SaveChains` writes
from the beginning of the file, and a load is `Open`, any number of `Read`, and
`EndOfFile` or `ReadFails`, which the code does not tell apart: `Ok` with what was read.
A write returns before its cells are in the file (`underway`); `LandAtEnd` and
`LandAtStart` put them there later, in any order, all of them or a part. `SaveChains(cs, n)`
is a call whose one `write` took `n` cells, `Err` if these are not all (`db.rs:484-493`),
`SaveToFileFails` one whose `write_all` failed after some, which leaves them in the file and
the description as it was. The cells of one write reach the file in one step. The sums of
the description are those of u64 (`Plus`, `Minus`); they wrap, as in a release build, where
a debug build panics.

### Messages: `Wire`

A frame is a header of `H` cells and the message. Cells carry the message they belong to,
so that a signature is valid for exactly the cells it was made of. `SendPadded` is
`udp_send_to`, which adds the size of a header to a size that has it already, `SendExact`
is task 4 of the node, `IntoStream` and `ReadHeader`/`ReadBody` are `into_stream` and
`from_stream`. `into_stream` writes as many cells as the message has without its header,
of a buffer that begins with the header, so that every message is cut and the reader
loses step; a header made of other cells may carry any length.

## 3. What TLC checks

| Run | Question | Bounds, and why they are enough |
|---|---|---|
| `block_chain` | does `add` keep a chain linked, in its window, within `max_len`; does `index_select` return the right segment; does a change of a published chain show? | 2 timestamps with gaps 0 and 1, so that `time_start + time_gap` wraps; `max_len` 0, 2 and 3, so that limits bite at once and late, and a block in the middle has a predecessor and a successor to break; 2 data values, interchangeable (symmetry), so that a block can be changed; indices 1 and 2, right and wrong; 2 writes through `iter_mut` (`WriteBound`), so that a block can be changed and hashed anew and its successor linked to it |
| `merkle_loop` | does the loop build the tree, bind the hashes, end? | up to 5 hashes: odd and even levels, an odd level above an even one; one leaf equals an inner digest |
| `chain_executor` | is the ledger consistent after refused, half-done and successful `add_chain`? | main chain of 3, side chains of 2: two successful additions, or a half-done one before a successful one, at the limit; 2 data values and 2 writes (`WriteBound`), so that a block of a draft can be changed and its successor linked to it; the view leaves out `chain_buf` and the block returned, which nothing else reads |
| `fpsc` | is a wakeup lost, a byte lost, doubled or reordered; does each side return unless the other gave up? | a buffer of 2, slices and streams of 0 to 5 bytes: less than, exactly and more than one and two buffers; up to 4 calls (`MaxCalls`), so that a call on a finished buffer is followed by one after `reuse`, and one that was overtaken by a reuse by another; readers with room for 1 or 2 bytes |
| `req_resp` | is a client ever left waiting in silence, a request handled twice, a cancelled task kept alive? | 3 clients on a queue of 1: one that waits for room, one in the queue, one in hand; every subset of requests fails |
| `node_pipeline` | can a message be lost, doubled, kept for ever; can a handler hold up the listener; does a cancelled node stop? | 3 messages on channels of 1: one in a task's hand, one in the channel, one that waits for room; every nature occurs, next to plain ones; one order of each mix, since messages arrive in any |
| `introduce` | who is found available; does the check free its port; who may introduce; does each call return? | 3 addresses on 2 hosts, as in the tests of `node.rs`, and one other node; 2 datagrams under way: a late answer of an earlier call, perhaps of a node that has stopped, next to one of this call |
| `meta_store` | has each entry its file; what is the list in memory a picture of; are answers stable? | 4 saves, 2 of a uuid, 2 of a file name, one that fails after it overwrote a file; every order of writes and of 2 lookups, cut off at any entry |
| `bundle` | do loads return what the file holds; does the description cover its chains? | a temporary buffer of 3 cells; chains shorter, as long as and longer than it, and one that reaches past the last of 8 timestamps; 2 saves (`SaveBound`), so that one write overtakes, overwrites or is appended to the other, and a vector meets a longer and a shorter one; reads of every length; a buffer of up to 7 cells before a load, that is after 2 loads |
| `wire` | does a datagram decode to its message; is anything accepted that was not sent? | a header of 2 in a buffer of 7: messages shorter than a header, as long, longer, as long as the buffer lets through, and too long; 2 messages under way, lost, doubled or one after the other in a stream |
| `response_to_port` | `node.rs:597` "then wait for the response" | violated |
| `load_returns_all` | `serializer.rs:407` "read all the data" | violated |

What the properties say beyond their names:

* `Bounded`, `LoopInv`, `MainInv`, `BufferInv`, `BufferFits`, `QueueInv`,
  `PipelineInv`, `ProbeInv`, `ListInv` and `FramesInv` are each the type invariant of
  their module with what it bounds or owns: `max_len`, the numbering and links of the
  main chain, nobody asleep on work, requests and messages in one place, the mutex with
  its handler, the port, the list as what one scan read of the file at one moment. `Bundle`
  calls its own `BufferFits`. `BufferInv` lets one task sleep on work, a producer that was
  parked when the consumer's side reused the buffer.
* `AddKeepsLinked` and `WindowBound`: what `add` accepted, `verify` accepts, inside the
  window of the limit. `SelectOrdered`, `TamperEvident`: of selections and of changes.
* `SidesDigested`, `LedgerSpec`: each stored chain matches its digest, and commitments
  only grow. `TamperEvident` and `SidesDigested` hold whatever was written into a block,
  hashes and links included. `Delivered`, `StreamSpec`, `ProducerEnds`, `ConsumerEnds`: all
  bytes since the last reuse, in order, once, and both sides return, unless the other one
  gave up, or reused the buffer and was not called again, or the producer was parked when
  the consumer's side reused it.
* `NoSilence`, `GoodServed`: a waiting client has an answer, a dropped oneshot or a running
  worker that has its request; and a request that succeeds is dropped only by a
  cancellation. `ServesFairly` adds that every call ends.
* `PlainLostOnly`, `AcceptedEnds`, `ListenerNotHeld`, `CancelStops`, `ServesMessages`: the
  same questions for a message in the pipeline, whatever the others do. `PlainLostOnly` is
  about messages on which the handler succeeds and whose response fits and can be sent.
* `AvailableHostSeen`: an address is found available only if a node has been up at its host,
  whatever other nodes send. It may have stopped since, also before this call, for a late
  answer of it counts; and `udp.rs:126` compares the ip of an answer only, so it is the
  host that is known, not the address. `IntroducedByFriend`: an introduction comes from the
  first address of a known friend, ip and port (`node.rs:609`), and one of the friend's
  addresses answered the check of this call. Whether the introduction was asked for
  nobody tests.
* `MetaAfterFile`: an entry has its data file, or another call took the file's name.
* `LoadReturnsFile` has a condition: the file is smaller than `BUFFER_SIZE`, or a load was
  made before. A load that no read failed in returns all of the file; after a failed read
  it returns the beginning, with at most one entry at the end that is not whole.
  `LoadReturnsAll`, without it, is violated. Both speak of loads during which no earlier
  write reaches the file. `VectorFirst`: the file begins with the vector whose write was the
  last to reach its beginning, or with as much of it as did. `DescriptionCovers` is about the
  chains that `save_to_file` returned, if none of them reaches past the last u64: those of
  `save_chains_to_bundle` are in no description, though `db.rs:372` has `counter` as "the
  number of chains in the bundle".
* `AcceptedAsSent`: a node accepts only what was sent, to it, by its signer, in whatever
  state the reader of a stream is.

`CHECK_DEADLOCK FALSE` is set where the system may stop: the loop of `merkle_root`
returns, a caller may have no further call to make, both tasks of `Fpsc` may have
returned, the workers and nodes may be cancelled, a caller of the database may have
nothing more to ask, and `make_new`'s network and the wire may be empty. `Bundle` is checked
for deadlock.

**Fairness.** `MerkleLoop` has weak fairness of its only action: a loop in a
function that runs goes on running. `Fpsc` has weak fairness of
polling a task that is `ready`, as the runtime polls whoever was woken, and of the
stream's wakeup; and strong fairness of `PollStream`: a stream that is polled again and
again is not pending for ever. Polls of a task that was not woken, calls, failures and
`reuse` are not fair. In `ReqResp` every task that can go on is polled and task functions
return; a send that waits for room has strong fairness, since tokio gives out the
permits of a channel in the order in which they were asked for; and so has `Stop`, since
`select!` picks at random among its ready branches. In `NodePipeline` messages are finite in
number, so weak fairness of each task suffices; a stuck handler need not return, and
nothing has to arrive, time out or be cancelled. In `Introduce` the task is polled and both
timeouts pass. The chain modules, `MetaStore`, `Bundle` and `Wire` claim no liveness:
nothing obliges a caller to call, and their loops end or fail with the file.

## 4. What is proved

All theorems hold for every value of the constants that satisfies the named assumptions
(`TimeSpace` positive, limits of the right type, ids natural numbers, channels and
buffers with room, uuids and names of the right type, sizes natural numbers, and `Bad`,
the garbage a decoder returns, no chain), for every `Hash`, and for chains, queues, files
and streams of every length. Every invariant and every refinement that a run checks is
proved; what liveness needs is not.

* `BlockChain_proofs`, of `BlockChain`: `TypeOK`, `AddKeepsLinked`, `WindowBound`,
  `LengthBound` and so `Bounded`. The link invariant is inductive with `TypeOK`:
  `AppendLinked` (in `Chains_proofs`) says that a block `accepts` lets in leaves a linked
  chain linked, and a write through `iter_mut` ends `pristine`. `WindowBound` follows from
  it: each timestamp is between the first and the end of the window, whether or not the sum
  wrapped. `TamperEvident`, under `HashInjective`, needs `PublishedLinked`, the copy was
  linked when it was kept; nothing is asked of the chain that is compared with it, so that
  any write into any field is covered. `HashBindsChain` looks at the last place behind the first block
  at which the two chains differ (`LeastNumber` on the distances from the end): its hash is
  fixed by the block after it, and fixes the block. `SelectOrdered` follows from `TypeOK`
  alone: `SelectsSegment` says that the positions computed from the first and the last
  index are those of the range.
* `BlockChain_proofs`, of `MerkleLoop`: `LoopInv`, from `OnLevel`, which says of each run
  that it holds the level of the tree that belongs to its rounds, and what the rounds of
  the function `merkle_root` come to. `TreeFacts` shows that a round turns a level into the
  next, because the ceiling of `n / 2p` is half the ceiling of `n / p`, rounded up
  (`CeilingHalved`); `RoundsFacts`, that levels shrink until one digest is left, in at most
  as many rounds as there are hashes, so that the loop is bounded. `RootBindsHashes`,
  under `HashInjective`, from `LevelsBind`: equal levels have equal leaves.
  `NeighborInjective` shows that one round keeps it, because pairs and the odd single are
  hashed as tuples of different length.
* `ChainExecutor_proofs`: `TypeOK`, `MainIndexed`, `MainLinked`, `MainLengthBound`, and so
  `MainInv`; `SidesDigested`, `AppendOnly`; and `ImplementsLedger`, the refinement. The
  inductive invariant is `LedgerInv`, the conjunction of `TypeOK`, `MainIndexed` and
  `SidesDigested`: that the next digest id is not yet a key of the sides
  (`NextIdIsFresh`) needs the numbering of the main chain, and everything about the
  sides needs that. `MainStep` and `SidesStep` say once what a step may do to each.
  `HistoryBound`, under `HashInjective`, is what the two levels of chains are for: the
  length of the main chain and the hash of its last block fix every side chain. It puts
  together `HashBindsChain` for the main chain, `RootBindsSequence` (a root and a length
  fix the hashes below) and `HashBindsBlock` for the blocks of a side chain, behind its
  first block, of which `Chain::verify` never computes the hash.
* `Fpsc_proofs`: `TypeOK`, `NobodySleepsOnWork`, and so `BufferInv`; `Delivered` and
  `ImplementsStream`. `NobodySleepsOnWork` is inductive by itself, with `overtaken` for what a reuse
  leaves asleep. The rest needs
  `BytesAccounted`: what `vec` holds is unread, or already consumed, or cleared, as
  `state` says, which is why `PollReadLast` must clear it. `StepKinds` sorts all actions
  into five kinds (rest, write, read, drop, empty), and the invariant and the refinement
  go through those. `DeliveryInv` adds that a consumer that returned `Ok` has seen the end.
* `ReqResp_proofs`: `NoSilence`, `QueueInv`, `GoodServed`, and `ImplementsService`, the
  refinement without its fairness, for any number of clients. The inductive invariant
  `IInv` adds two parts to the properties: `ClientsInStep`, what each client does fits the
  state of its oneshot, and `StoppedIsEmpty`, a stopped worker has neither queue nor hand.
  `NoSilence` is kept by `Stop` only because the stop empties both, and `HandledOnce` by
  `SendToWorker` only because the sender's oneshot is open and it is not yet waiting.
* `Node_proofs`, of `NodePipeline`: `PipelineInv`, `PlainLostOnly` and `ServesMessages`, the
  refinement, for any number of messages of any nature and channels of every capacity.
  `PipelineInv` counts places with `Cardinality`; the inductive invariant `IInv` says the
  same without counting: a message is held by one station at most (`OneStation`), and once
  in its channel (`QueuedOnce`); with `TasksInStep`, what the tasks hold fits where they
  are. `OnePlace` turns it into the count. `FateSteps` sorts the steps into the four that
  a caller can tell apart, and `Refines` maps each to a step of `Service`.
* `Node_proofs`, of `Introduce`: `ProbeInv`, `AvailableHostSeen` and `IntroducedByFriend`,
  for any list of addresses. The inductive invariant `IntroInv` adds `LiveSeen` and
  `NetFromSeen`, nodes and datagrams are of hosts at which a node has been up, and `CallInStep`, what a call has found out fits
  where it is.
* `Db_proofs`, of `Bundle`: `BufferFits`, `LoadReturnsFile`, `VectorFirst` and
  `DescriptionCovers`, for chains, vectors and files of every size. `BundleInv` adds to them
  what a load under way has read (`ReadSoFar`, `InPlace`), what its buffer decodes to
  (`DecodedBuffer`), that a write under way is the beginning of its vector (`WritesLaid`), that
  the last vector is at the beginning of its file (`WrittenFirst`), and when the description
  counts at all (`Counted`). Encoding and decoding are recursive functions: their solutions exist
  (`EncodeUnfolds`, `DecodeUnfolds`), and what they compute is proved by induction on sets of
  numbers (`UpInduction`, `DownInduction`), which need no operator as a parameter. So
  `EncodeFacts` gives where each chain of a vector lies, and `LaidDecodes` that cells in which
  chains lie so decode to them, whatever the buffer held before and behind them.
* `Db_proofs`, of `MetaStore`: `MetaTypeOK`; `MetaAfterFile` from `FileInv` (whatever is
  pending or on disk was saved `ok`, and a copied file is there or its name was used
  again); `ImplementsCatalogue` from `AnswerInv` (the list holds entries of the file, and an
  answer that named an entry was given from the list as it still is); `ListInv` from
  `ListBuilt`: while the entries up to the noted end are whole, the list is what the scan
  has read so far, and a scan that is over has read to that end, unless it was `cut`.
* `Wire_proofs`: `AcceptedAsSent` and `FramesInv`. The inductive invariant `WireInv` has
  `DatagramsAreFrames`, every datagram is a whole frame of a message that was sent and what
  may follow it in the buffer, and `StreamOfWritten`, every cell of the stream belongs to
  a message that was written. A reader that lost step accepts nothing foreign, since cells
  are a header only if all of them are of one message (`OwnerFacts`, `FirstCell`).

`HashInjective` (no two inputs with one digest) is a hypothesis of the three theorems that
say so, and of nothing else; the identity satisfies it, and so do the values TLC uses.

Only model-checked is liveness, which is beyond the prover: `LoopEnds`, `ProducerEnds`,
`ConsumerEnds`, `CancelStops`, `AcceptedEnds`, `ListenerNotHeld`, `CallEnds`, and the fairness
that `ServesFairly` adds to `ImplementsService`.

## 5. What else the models show of the code

Each of these was met while modelling and can be read off the lines named; the
two with a run of their own are `response_to_port` and `load_returns_all`.

* Chains. `Chain::verify` never compares indices (`chain.rs:67-68`); `from_chain_by_index`
  computes `max_index - min_index + 1` without testing that the ranges meet, and may run
  past the end (`chain.rs:509`). `BlockChain` restricts itself to selections that meet the
  chain. `add_chain` leaves a digest block without its chain when the chain does
  not verify (`executor.rs:151-156`), and stores a chain under an id that its blocks'
  `digest_id` (`block.rs:192`) need not name. `add_block` does not put its block into
  `chain_buf` (`executor.rs:114`, doc at 26). `Keeper::is_full` tests `>` where the chain
  tests `>=` (`keeper.rs:58`, doc at 52).
* Ring buffer. A closure that fails leaves `produce_all` waiting
  (`producer_cosumer.rs:303`, doc at 249); a read shorter than the buffer is taken for the
  end of the stream (`producer_cosumer.rs:112`). `produce_all(&[])` never touches the
  buffer, so `consume_all` waits for ever; `ConsumerEnds` excludes that case by name
  (`Started`). A stream that fails, and a reader without room, leave the other side
  asleep: `ConsumerEnds` and `ProducerEnds` except a partner that ended in an error. A
  producer parked while the consumer's side reuses the buffer is not woken
  (`ringbuf.rs:145`), and sleeps on until somebody polls it for another reason.
* Nodes. `Worker::run` and `spawn_run` spin when their senders are all gone, until they
  are cancelled (`req_resp.rs:185`, `register.rs:250`). The listener ends on the first timeout or garbled datagram
  (`node.rs:267`). The answer to `make_new` goes to a port on which nobody waits
  (`node.rs:598`). All probes bind one port, and while one
  waits the next ones fail to bind it: an available address may be left out
  (`udp.rs:165`).
* Bundles. The buffer is extended at its end on every read, so it grows with every load and
  the branch that extends it is never taken; it would panic (`serializer.rs:444`). The first
  load of a file of `BUFFER_SIZE` or more misplaces what a full first read gave.
  `encode_vec_into` never ends when a chain needs more than twice `BUFFER_SIZE`, and
  panics when an entry ends within four bytes of the buffer's end (`serializer.rs:157`). A chain too
  large for the buffer is not returned to its caller (doc at `db.rs:433`). A failing read
  returns the beginning of the file as `Ok`. The description is not persisted, and a chain
  without a block is not counted in it.
* Meta data. `find_meta` fills its list once: a later save is found after a restart only
  (`db.rs:300`). `save_file` returns `Ok` before its entry is written, and a write that
  fails later is seen by nobody.
* Messages. `into_stream` transfers no message whole (`protocol.rs:613`). `udp_send_to`
  panics on a message that fits the buffer but not with a second header
  (`udp.rs:89`); otherwise the padding is harmless.

## 6. What is not modelled

* Libraries: bincode, signatures, SHA-256 and tokio are modelled by what the code relies on.
* Waiting for the keeper's lock: a caller that waits changes nothing. The read-only views
  of a chain (`ChainRef` containment, `ChainInfo`) and `ChainLimit`'s own checks, which no
  operation of the executor calls.
* Of `fpsc/`: single calls of `produce` and `consume`, the reference count of `Drop`, calls
  whose future is dropped midway, a capacity of 0 (`FpscAssumption`), and two threads. `ringbuf.rs:44-45` asserts `Send` and
  `Sync` by hand and nothing synchronises the fields, so on two threads every access is a
  data race and no property of the crate is promised there.
* Of `node.rs`: `make_friend` (a stub that returns `Ok`, for a stranger too, `node.rs:629`),
  `msg_delivery` and reputations, which no task of the node uses.
* Of `db.rs`: `save_chain` and `find_chain`, which are empty; the wrap of a bundle's u32
  `counter` after 2^32 chains.
* In `ReqResp`, a caller that drops its future in the middle of a call.
* `archive.rs` (ids of data, no state), `pipe.rs` (used nowhere), builders, and the network
  stubs: `network/handlers.rs` does not compile at this commit, the others are declarations.
