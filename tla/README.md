# conet-l0d in TLA+

A verification project for `conet-l0d`, the CoNET Layer-0 daemon. The modules
here model the parts of the daemon whose correctness depends on order,
interleaving and failure; TLC checks them on small instances and TLAPS proves
the safety properties of all of them but two for every value of their constants.
Every definition is translated from the Rust sources; `PROJECT.json` ("map") gives the
lines behind each one. Line numbers below are those of `src/l0/client.rs` unless
another file is named.

## 1. The system

`conet-l0d` carries application traffic between two hosts that never address
each other. Both talk HTTP to *mailbox* nodes: a listen (`l0_listen`, an SSE
stream) receives what is posted to a wallet, an occupied pipe (`l0_connect`)
writes to a peer's listen. Control messages are posted and gossiped, so a copy
may be lost, delayed or repeated; frames go through one pipe in order.

One *client-duplex line* is one local TCP connection carried that way:

```
 application socket                                           upstream socket
        |                                                            |
  run_dynamic_local_tcp_stream        mailboxes        spawn_proxy_handshake
        |  -- duplex_offer (firstChunk) ------------------------>    |
        |  <----------------------- duplex_accept (responseChunk) -- |
        |  <======== occupied pipe of the proxy: frames ============ |
        |  ========= occupied pipe of the client: frames, pings ===> |
        |  <---------------------- duplex_reject ------------------> |
```

### Components

| Component | State it keeps | Operations | Hard part | Module |
| --- | --- | --- | --- | --- |
| Line, client daemon (`client.rs`) | duplex map entry, `local_streams` entry and 64-slot queue, offer task, occupy tasks | accept a socket, offer, accept/frame/reject arriving, occupy, rebuild, stream, close | five tasks share the session through a map with a lock per step | `ClientLine` |
| Line, proxy daemon (`client.rs`, `proxy.rs`) | duplex map entry, `proxy_receivers` entry, upstream socket, accept task, forward task, occupy task | allocate, handshake, drain, forward, accept, occupy, retire | two maps with separate locks, keyed by the handle, shared by every incarnation of it | `ProxyLine` |
| The line end to end | messages under way | post, deliver, lose | order of accept and frames, late copies | `DuplexLine`, `LineService` |
| Process lifecycle (`lifecycle.rs`, `state.rs`, `platform/linux.rs`) | instance lock, state file, network entries | `start`, `stop`, `teardown`, signals | crashes and commands that take no lock | `Lifecycle` |
| The application's bytes on a line (`client.rs`, `pipe.rs`) | chunks pending, first blob, pipe channel, proxy queue | buffer, send, occupy again, deliver, end | the same bytes pass five owners, some of which give up | `ClientBytes`, `ByteService` |
| Occupied pipe (`pipe.rs`) | one TCP stream | open, heartbeat, EOF, cancel, fail, read back | reports to a session that may be another's by then | in the line modules, `InboundFeed` |
| Listens (`listen.rs`) | SSE stream and its buffer, owner registry | open, read, reconnect, idle out, release | any cut of the stream, ends from three sides | `SseStream`, `ReadyPool`, `SiPool`, the line modules |
| Inbound queue and loop (`listen.rs`, `linux.rs`, `client.rs`) | one queue of 512 for all listens and pipes | stamp, queue, look up, apply or refuse | all lines of a daemon share it and the session they are stamped with changes | `InboundFeed` |
| Pre-warmed identities | a queue per port, a counter | warm, take | identities whose listen died | `ReadyPool` |
| SI pool (`si_pool.rs`) | node list, cooldowns | refresh, acquire | shared cooldowns, retries, fallbacks | `SiPool` |
| P1 POST worker (`client.rs`, `post.rs`) | job queue, permits, tasks | enqueue, spawn, post, retry | losses at a full queue, permits across failing tasks | `PostWorker` |
| Static peer overlay, packet path (`client.rs`, `forward.rs`, `platform/linux.rs`) | one session per peer port, pending batch, POST queue, pipe queue | offer, adopt, accept, occupy, batch, pipe, suppress or post | two daemons with their own configuration and restarts; traffic decided by a session that changes | `PeerOverlay` |
| Overlay tables (`config.rs`, `client.rs`, `packet.rs`) | own address, peer rows, keys per address and port | choose an address, load keys, classify a packet | tables filled from the same file by different rules | `OverlayTable` |
| Network entries (`netops.rs`, `lifecycle.rs`) | TUN, address, route, chains, rules | install, uninstall, command by command | a command fails or the daemon dies between two of them; the file is edited | `NetEntries` |
| Local client listeners (`client.rs`, `config.rs`) | ports assigned, reserved, claimed | override, validate, bind, walk | the host's other processes | `LocalBinds` |
| Gateway (`gateway.rs`) | listen loop, queue of 256, one task per request | listen, take, look up, fetch, answer | many requests at once, each step of which may fail | `Gateway` |
| Other configuration checks, cryptography, wire formats, scripts | none | parse, validate, encode | pure, or outside the daemon | not modelled |

What makes each correct: a line delivers what the upstream sent, once and in
order, holds the application back until it was answered, and cleans up whatever
ended it; the proxy runs one upstream per handle and orphans nothing; the
lifecycle has one owner and never takes the runtime from a live daemon; a listen
hands on every frame whole, has someone who releases it, and comes back while
one entry works; what comes in is applied to its own line and nobody else's, and no
line holds up another; what the application sends is neither repeated nor
overtaken; whatever is on the host has a state file that names it; nobody listens
on another's port; the gateway answers what it was asked and outlives its failures;
an overlay session is the one its peer spoke of, and each packet
goes one way; the pools stay within their bounds and never lose what they had.
`PROJECT.json` lists the hazards line by line, with the property that watches
each, or the reason why none does.

## 2. Modules

### ClientLine

One accepted local socket. `tcp` is the program counter of
`run_dynamic_local_tcp_stream` (2945-3329): `idle` (reading the first bytes),
`listen` (waiting for its own l0_listen), `wait` (the loop at 3123-3266),
`stream` (3284-3315), `done`. `session` is the `DuplexSession` in the duplex
map, or `NoSession`; `stream` says whether `local_streams` still has the sender;
`queue` is the channel behind it, `app` what was written to the socket. `held` says
that the task is in a write the application does not take (3221-3222, 3310): those
writes have no time limit, and while one is held up the task sees neither its deadline
nor the session; the chunk has left the channel, which has one place more (`Places`).
`pipe[k]` is the k-th `spawn_l0_pipe` task, with the peer incarnation it occupies
and the generation it took. Task 1 is the TCP task's own, the others are started
by `rebuild_l0_pipes_after_listen_up`, which only a cold line has (`cold`).

| Action | Code |
| --- | --- |
| `AbandonSocket`, `FirstChunk` | 2966-3051: first read, identity (pre-warmed or minted), return queue, session |
| `ListenReady`, `ListenFailed` | 3045-3107 |
| `WaitTimeout`, `WaitGivesUp`, `WaitIoError` | the returns of the wait loop, which deregister both, only the sender, or nothing; the first two are taken at its top only |
| `WaitOccupy`, `WaitPipeUp` | 3155-3204 |
| `WriteToApp`, `WriteBlocks` | 3207-3232 and 3308-3311: the write that goes through, at once or at last, and the one that does not go on |
| `StreamEnds` | 3284-3329 |
| `StopOffer` | 3894-3911 |
| `DeliverAccept`, `DeliverFrame`, `DeliverReject` | `apply_duplex_accept`, `apply_duplex_frame`, `mark_duplex_rejected` |
| `ListenUp`, `ListenIdle` | `rebuild_l0_pipes_after_listen_up`, `clear_l0_pipe_after_listen_timeout` |
| `PipeStarts` ... `PipeFails` | the loop of `spawn_l0_pipe` and its inflight guard |

An accept needs the session but not the TCP task, because it is opened with the
key of the identity the session holds; frames and rejects need the listen, which
is released when the TCP task returns.

### ProxyLine

One `pipe_handle` at the proxy. The duplex map and `proxy_receivers` are keyed by
the handle, but a handle whose session was removed can be allocated again by a
later copy of the offer, so the model has *incarnations* 1..`MaxInc` that share
`line` (the session) and `receiver` (the entry) and have everything else of
their own. `receiver` is `dead` when the entry leads to a channel nobody reads.
`handshake[i]` is `spawn_proxy_handshake`'s task, `occupy[i]` the occupy task with
the three locked sections of `maybe_start_proxy_drain` as separate steps (it runs
before the pipe opens and again on HTTP 200), `drain` and `retiring` that
function's own upstream task, `forwarding`, `read` and `backlog` the
upstream-to-pipe tasks. Removing the receiver and removing the session are two
steps everywhere, as in the code; the pc `retire` stands between them.
`InboundIdle` expresses that one task handles inbound messages in turn: no other
message is handled between inserting a session and spawning its handshake.
`spawn_dynamic_accept_listen` (1559-1662) can also refuse to start for lack of an
inbound feed or of the channel's own route key; an offer only arrives through a
listen opened with both, so this path is left out.

### ClientBytes

The application's own bytes, which ClientLine and ProxyLine leave out: chunk n is
what the n-th read of the local socket returned. Chunk 1 is `first_chunk` and
travels in the offer; what is read before the pipe is up waits in `pending`
(`pending_resume`); one of them is handed to `spawn_l0_pipe` as its first blob
(`resume`). `mine` is the occupation whose sender the TCP task took, `session.pipe`
the one whose sender the session holds; they differ after an occupation was
replaced, and a send to the old one fails. `channel` is the queue behind a sender,
`wire` what was written to the occupied TCP, `queue` and `upstream` the proxy's end.
When a pipe is torn down from outside, mailboxes may lose any end of what was
written (`LoseTail`); otherwise they keep the order and lose nothing. One
incarnation of the handle, one occupy task at a time.

`ByteService` is what the two ends may count on: chunks are read, the proxy refuses
some, the upstream is given others, in order, each only when all before it were given
or refused. One exception is part of it: the chunk behind the offer's, if it was kept
and became the first blob of the occupation, may be missing alone (`Spare`). A line
that loses anything else delivers nothing any more. `BytesServed` is the
refinement (`MCLine`), with `delivered` read off `upstream` and `spared` off `resume`.
Losses have no action in it: a chunk that is lost is one that is not delivered, and
the guard of `Deliver` says what that means for those behind it.

### InboundFeed

One queue takes what all listens of a daemon and all its occupied pipes read, and
one loop applies it. A listen is `up`, `cancelled` or gone (`owner`), and `bound`
says whether the session id it stamps chunks with is its line's handle: for a
pre-warmed listen it is the one minted with the identity until `BindSession`
(1574). `held` is the chunk a pump waits to queue with `send().await`
(`PumpReads` has stamped it, `PumpSends` queues it); a pipe uses `try_send`
(`PipeReads`). `Reason` is the chain of checks of `apply_inbound_chunk`,
`apply_duplex_aes_blob_for_session` and `apply_duplex_frame`, in their order;
`ApplyChunk` what each outcome changes. `Removes` takes a line's stream, session and
listen away one by one, in the order of the client's task (3318-3328) or of the
proxy's (1908-1921). `kind`, `route`, `got` and `refused` are history variables, for
the properties. Peers are honest: they seal for a line only what they were given the
listen of.

### LineService and DuplexLine

`LineService` is the abstract promise: upstream connections produce chunks, the
application socket is held back until it received one, it receives only produced
chunks, none twice, and the chunks of one connection in order, except that the
first answer travels apart. `DuplexLine` composes `ClientLine` and `ProxyLine`
(`INSTANCE`, sharing variables) with the network: `offers` and `accepts` are the
messages of which a copy can still be delivered, `frames` the sequence inside
the proxy's pipe, `rejects` the listens a `duplex_reject` is on its way to. Loss
is non-delivery: nothing forces a delivery. Age limits (100 s) only ever remove
copies, which is the same thing. `LineServed` is the refinement, with `socket`,
`produced` and `received` read off `tcp`, `read` and `app`.

### Lifecycle

`conet-l0d start`, `stop` and `teardown` over one configuration in packet mode,
each process a sequence of steps: lock, load, tear down what is stale, install,
write, run, leave, clear. `lock` is the `flock`, which the kernel drops with the
process; `state` the daemon whose pid is in the state file; `network` the daemon
that installed the TUN, route and iptables entries last. A process may crash
between any two steps. SIGTERM kills a daemon whose handler is not installed yet.
Pids are not reused.

### SseStream

How `pump_sse_armors_owned_session` cuts frames out of a listen's stream. Text is
a sequence of tokens: `data:`, a comment, `\r`, `\n`, the two pieces of an AES blob,
a JSON frame. `WriteOf` has what a mailbox writes: blobs and JSON as `data:` lines
ended by `\r\n\r\n`, Chat JSON ended by `\n\n`, comments, and a blob a keepalive cuts in
two, which is a write with the comment (`cut`) and the write of the other half that must
follow it (`rest`). A read takes any part of what is first on the wire: of one write, or,
when the transport does not keep the writes apart (`coalesce`), of all that is unread,
as each write is then joined to the one before. `Drain` and what it calls are the string
functions of listen.rs, over tokens: a search that may find nothing is a set of at most
one position, and a loop is a recursive function over its turns (`Len \div 3` turns strip
every comment and `Len \div 2` take every frame: each takes at least that many tokens).

### SiPool

The list of SI entries (`nodes`), its freshness and the cooldowns, with the two
kinds of callers of `acquire`: POST jobs and listen workers, each with its program
counter `pc`, the shuffled candidates it still has (`order`), the entry it uses and
the one it excludes. `registry` is the chain's list, which grows. A page is the set of
positions of its records, `Added` those that add an entry, `LastPage` says that the
loop of `refresh` ends behind it, and `Collected` is what the pages up to the first
such one add. A refresh is one step: it reads the pages
one after the other, but a page that was read does not change as the registry
only grows, so the result is what the last page's moment gives, or that of a
prefix when an answer is `0x` (`Answered`). `struck` is a history variable for
`OneStrike`: what failed a caller since its last resort.

### ReadyPool

The pre-warmed identities of one client-duplex port. `warmer` is the identity
`warm_one_ready_identity` waits for; `worker[i]`, `signal[i]` and membership in
`owners` are the listen worker of an identity, its ready channel and its entry in
`ListenOwnerRegistry`; `line[i]` is the socket's task that uses it. A worker ends
from three sides: it is released by the warmer, by the line
(`ReleaseListenOnDrop`), or it stops by itself on `pool_full`.

### PeerOverlay

Two daemons that have each other in their static peer tables, and one overlay port
between them (`spawn_duplex_runtime`). Line numbers are `client.rs`. `sess[n]` is
the port's only entry of daemon n's duplex map (`exists`, `id`, `key`, `attached` =
peer_attached, `listen` = peer_listen_wallet is known, `pipe` = pipe_tx is
installed, `inflight` = pipe_connect_inflight); `offering`, `accepting` and `occupy` are the
tasks of `spawn_duplex_offer`, `spawn_duplex_accept_chat` and `spawn_l0_pipe`;
`sent` holds the messages a mailbox may still deliver, again and again, those of
an earlier start of a daemon included. `pending` is the batch of
`note_overlay_packet`, `blobs` what was sealed into the occupied pipe, `posts` the
POST worker and the mailboxes behind it, `tun` and `gone` where packets end.

| Action | Code |
| --- | --- |
| `PostOffer`, `StopOffer` | `spawn_duplex_offer` (3865-3957) |
| `AdoptOffer` | `apply_duplex_offer`, the match of a session without a key (1228-1316) and the accept and occupation that follow (1467-1493) |
| `PostAccept`, `StopAccept` | `spawn_duplex_accept_chat` (3959-4052) |
| `DeliverAccept` | `apply_duplex_accept` (1925-2029) |
| `PipeStarts`, `PipeOpens`, `PipeCloses`, `PipeFails` | `spawn_l0_pipe` and `run_occupied_pipe` |
| `ListenUp`, `ListenIdle` | the channel listen's rebuild and idle clearing (2779-2802, 3528-3596) |
| `Collect`, `CollectFull`, `SwitchPort`, `FlushIdle` | `note_overlay_packet`, `flush_pending_overlay`, the 5 ms of `packet_loop` |
| `OverlayPostPlan` | `prepare_overlay_post` and `duplex_live_session` |
| `ReceiveBlob`, `ReceivePost` | `apply_inbound_chunk`, `queue_inbound_ipv4` |
| `Restart` | a daemon killed and started again; all of this is in memory |

Who offers is decided by comparing the own channel wallet with the *configured*
wallet of the peer, which may be its channel wallet or its billing wallet. Both
that choice and the presence of billing wallets, smaller or larger than the
channel wallets, are part of the initial state (25 configurations), so that pairs
in which both sides offer, or neither, are among those checked. `Matched` says
which pairs fit.

Offers that match no session are answered with a reject, which reaches a channel
listen as an AES blob and is refused there like any other (`ReceiveBlob`); so is
the reject a failed pipe leaves behind. Neither changes a state, and both are left
out. The rekeying branch of `apply_duplex_offer` (a known id with another key)
cannot be reached between two of these daemons, as an id is drawn with its key.

### NetEntries

`install` and `uninstall` of netops.rs as sequences of commands (`InstallCommands`,
`UninstallCommands`), each of which insists on success (`Hard`) or not (`Soft`), with
the decisions of `start`, `stop` and `teardown` about when they run and under whose
names (`TornDownNames`, `OwnsNetwork`). `host` is the set of entries that exist;
`Allows` and `Effect` are what `ip` and `iptables` do with one: a chain that is
jumped to cannot be deleted, deleting a link takes its address and route along. A
daemon may crash with its entries in place, before its state file is written or
after, and the file may be edited between two commands. A behaviour is of one of
`Settings`, which says what the file may be (`Configs`) and what may go wrong
(`Faults`): while `Recorded` holds (the file stays one for packet mode, no command fails
for a reason of its own, no daemon dies before it wrote its state) no entry is without a
state file that covers it; under every fault an uninstall and a running daemon still keep
their word (`UninstallCleans`, `RunningUsable`). One command runs at a time; `Lifecycle`
has those that race. No flag of the command line turns packet mode on or off.

### LocalBinds

The client-duplex targets from the command line or the file to their listeners:
`ApplyOverrides` (config.rs), `ValidateTarget` (the bind port of each, walking by
10000 from the logical port unless `@LOCAL` pins it), `PlanTarget`, and
`spawn_local_tcp_listeners`, which binds the plans in turn (`NextCandidate`,
`BindCandidate`) and keeps off the ports reserved for those still to come and those
claimed. Other processes bind (`OtherBinds`) and release (`OtherReleases`) ports
meanwhile. Which peers and keys serve a target is chosen.

### OverlayTable

The tables of packet mode, over addresses of few bits: `LocalVips` is
`select_local_vip`, `Accepted` the checks of `validate` on rows and packet clients,
`KeysOf` the keys `from_config` keeps per address and port, `ChannelPort`,
`LookupPeer` and `Outcome` what becomes of one packet (`overlay_channel_port`,
`lookup_peer`, `prepare_overlay_post`). A file is chosen, the daemon refuses it or
starts, and packets are read one after the other. Seen while modelling, and outside
the files checked: prefix 0 overflows in `select_local_vip` (a panic in a debug
build, no host in a release build); a network with host bits set may leave the
daemon the broadcast address, or none; an explicit `local_vip` equal to a peer's
makes that peer unreachable; with two wallets at one address the locator noted for a
packet, which is only logged, may be the other wallet's.

### PostWorker

`spawn_post_worker`: jobs are packets, numbered as the TUN loop hands them over.
`EnqueuePost` drops one for a full queue; `Receive` and `Spawn` are the worker's two
waits, for a job and for a permit; `PostAnswered` is one try of `send_via_entries`
in a job's task, which goes on to the next entry unless the error was a timeout
(`GoesOn`). `control` is one control message, which
`post_control_armor_with_retry` posts until it is accepted. What each entry may
answer is chosen once.

### Gateway

`listen_loop` (`Prepare`, `OpenOk`, `OpenFails`, `Wake`, `StreamEnds`) walks the
listen entries and sleeps after the last; `Read` and `Enqueue` are its pump over the
channel of 256; `Take` spawns a task per request, whose steps are `Resolve` (the
requester's key), `Headers`, `ReadBody`, `BodyEnds`, `Post`, each with its failure.
A request may be delivered twice; its kind says what is wrong with it. `Exit` is the
end of the main loop once the listen loop returned an error, which aborts the tasks
that run.

### MCLine, MCEnds, MCPosting, MCHost, MCListens

Five modules put models together for TLC. Except for `DuplexLine`, which composes
two of them by their shared state, the models inside one do not interact: each extends
one model, takes the others by `INSTANCE`, and has a variable, chosen in `Init`, that
says which of them a behaviour is of, while the others stand still. What is checked is
what each model does alone, under its own actions and fairness.

| Module | Extends | Instances |
| --- | --- | --- |
| `MCLine` | `DuplexLine` | `ClientBytes` with every fault (`Next`) and with none (`Calm`) |
| `MCEnds` | `ReadyPool` | `Gateway` |
| `MCPosting` | `PostWorker` | `SiPool` |
| `MCHost` | `Lifecycle` | `NetEntries` over two settings (`TwoSettings`), `LocalBinds` with ports that are taken only (`Quiet`) and also released (`Next`), `OverlayTable` |
| `MCListens` | `InboundFeed` | `SseStream` |

A property of an instance has its name again there, or is a conjunct of one that names
the instances' own. Every number of a model is a constant of the module that composes it,
with the instance's assumption stated there again (`MCBytes`, `MCGateway`, `MCBinds`,
`MCTables`, ...), so that what is proved of the composition holds for every value of them.

## 3. Checks

Runs (`PROJECT.json` "runs"; bounds in the `.cfg` and in the module it is for):

| Run | Module | Bounds | Shows |
| --- | --- | --- | --- |
| `client_line` | `ClientLine` | cold and pre-warmed, 2 incarnations, 2 occupy tasks, 2 generations, queue of 2, 3 chunks | `ResumeAfterAnswer`, `ResponseExactlyOnce`, `SocketSettles` under any accepts, frames and rejects, and writes that are held up for a while or for ever |
| `proxy_line` | `ProxyLine` | 2 incarnations, 1 generation, 1 chunk | `OneUpstream`, `SessionHasOwner`, `InflightHasTask`, `HandshakeSettles` |
| `duplex_line` | `MCLine` | control: pre-warmed, 1 incarnation, 1 occupy task, 2 chunks (of the two upstreams, one at most is read to the end), queue of 1, until the socket closes; bytes: 4 chunks, 2 occupations of 2 entries and a proxy queue of 1 with all faults, 1 occupation with none | `LineServed` and `BytesServed` (refinements), `OccupiesAnswered`, `InOrder`, `ChunksArrive` |
| `ends` | `MCEnds` | 3 identities, target 2; gateway: 2 requests of 6 kinds, 2 deliveries, 2 + 2 entries, queue of 1, either listen POSTs that fail and an endless body, or every other failure | `ListenHasUser`, `OwnersRun`, `WarmerReturns`; `DeliveriesServed`, `RepliesExplained`, `OthersAnswered` |
| `peer_overlay` | `PeerOverlay` | 2 daemons, 25 configurations, 1 restart, 2 packets, batches of 2, queues of 1 | `AttachedToPeer`, `InflightIsTask`, `PacketsKept`, `SessionOwnsPort`, `HandshakeEnds` |
| `posting` | `MCPosting` | 3 packets, queue of 2, 2 permits, up to 2 entries, each of four tempers; pool: one good and one bad entry, pages of 1, up to 2 records, one job with 2 tries, one worker | `PermitsKept`, `JobsAccounted`, `StartedInOrder`, `PostsSettle`; `PoolServes`, `PoolRecovers` |
| `host` | `MCHost` | 3 starts, 2 cleaning commands; entries: 3 packet files with crashes and edits, 3 files of three modes with every fault; listeners: 3 ports, 3 targets (ports are taken) and 2 (taken and released); tables: 4380 files, addresses of 4 bits, 4 ports | `LockedOwner`, `RunningOwnsRuntime`, `CommandsEnd`; `EntriesCovered`; `BindsKept`; `TablesAgree` |
| `listens` | `MCListens` | one client line, one pre-warmed proxy line, 2 blobs each, by listen or pipe, queues of 1; streams: 4 writes, every cut into reads | `NeverMismatched`, `OthersUnaffected`, `ListenLosesNothing`, `EveryBlobSettles`; `FramesKept` |
| `response_first`, `sse_frames_lost`, `peer_pipes`, `cleanup_spares_others` | `DuplexLine`, `SseStream`, `PeerOverlay`, `Lifecycle` | small | places where the code departs from its documents; see section 5 |

Every variable's type is checked too: it is a theorem of every module (`TypeCorrect`, `LineTypes`, or a part of the inductive invariant), and of
those that a composition instantiates `TypeOK` is a conjunct of a property of the run.

Why the bounds are enough. The hazards of a handle come from an old task meeting
a new incarnation, so two incarnations; a third adds only another old task. Two
occupy tasks are the fewest that can disagree on a generation. A queue of one or
two is full as surely as one of 64. Two chunks of a connection are the
responseChunk and one frame; three in the client's run fill and overflow its
queue. Three starts let two daemons race while a third one's leavings lie
around. A frame of the SSE stream meets at most the write before and the one
behind it; four writes put a cut blob between two others. With pages of one record
two records already make refresh turn a page and stop at the end (that the pages make no
difference is proved for every size); the shortage of
entries that `acquire`'s fallbacks are for needs one that works and one that does
not. Three identities are the target and one more. One
restart puts one session's messages beside its successor's, on either side; two
packets fill a batch, or are two batches that fill a queue of one, of the same or
of two ports. Two
occupations are the fewest that lose a first blob and go on; four chunks are the
first one, one pending, one given as first blob and one sent in the stream. One
queue slot shared by a client line and a proxy line makes either wait for the other;
two blobs of a line are the fewest that can change places. Three packets over two
permits make one wait for a task to end, with the queue behind it full. Three ports let two targets walk into
each other and a third one's pin. Three files give `NetEntries` two that share each
of device, chain and network. Two rows suffice for a clash of rows, and four bits
hold networks of every length with a first free host. Two incarnations end to end
are beyond TLC; each side is therefore checked alone with two, under an
environment that may send anything at any time, and the composition with one. Its
run stops at the close of the application's socket: after it `app` and the targets
of the occupy tasks no longer change, so neither of its properties can. It also
leaves out writes that are held up (`WritesPromptly`), which `client_line` has and
the theorems about `DuplexLine` cover: for safety such a task is one that waits,
in front of a channel with one place more.

Fairness. `ClientLine` assumes that the runtime keeps polling the TCP task's two
deadlines (120 s each) and the offer task; nothing is assumed of the peer, the
application or the mailboxes. The wait loop polls its deadline only at its top (3124),
which it does not reach while a write to the application's socket is held up, so
`WaitTimeout` is disabled then and `SocketSettles` has a premise: no write is held up for
ever. Without it the property is false, as it is of the code (section 5). With it weak
fairness is enough, as the line's chunks are bounded and so are the writes. `ProxyLine` assumes the same of the handshake task,
whose every wait has a deadline. `SiPool` assumes that jobs and workers go on
(every wait of theirs has a time limit), that lists grow old and cooldowns end with
time, and strong fairness of a good entry's qualification: every `acquire` shuffles its
candidates anew, so that an entry that is a candidate again and again comes first again
and again. What an entry or the RPC does is free until the network has settled, which
it need not. Connection is promised of a worker only where the code can reach it:
`candidates` gives the excluded entry back only when it is the whole list, so that a
worker that excludes the one entry that works, next to a dead one in the list, tries the
dead one for ever (si_pool.rs:204-219). `ReadyPool` assumes that the warmer's deadline is polled.
`PeerOverlay` assumes that the tasks run, that an occupation is answered or times
out, that a channel listen's SSE ends and is opened again, and that a message of
the peer's *present* session arrives at some time, because its task sends it every
few seconds until it needs no more; copies of older ones may never arrive.
Nothing is assumed of packets, pipes that are up, or restarts.
`Lifecycle` assumes that a process that was
started runs on; when it is started, signalled or killed is free. `ClientBytes`
assumes that the tasks of the line run and that a pipe that is up hands on what was
written; a write to a socket is part of these tasks, so it also takes it that the
application reads its answer and the upstream what is written to it, which nothing in
the code enforces. `InboundFeed` assumes that the loop, the pumps and the end of a task
run, and that of the pumps that wait for the queue some one gets in (weak fairness of
`PumpSends` of any line; tokio's channel serves them in turn, which is more); an
application or upstream need never read.
`PostWorker` assumes that the worker and the permits go on and that each POST ends,
which its HTTP client's 8 s see to. `Gateway` assumes that its own loop and tasks
run, that the RPC, the origin's headers and the entries answer, and strong fairness of a
listen POST's success; nothing ends a body, and a listen that goes silent without an end
is outside it. Under these `SocketSettles`, `HandshakeSettles`, `PostsSettle`,
`PoolRecovers`, `WarmerReturns`, `HandshakeEnds`, `CommandsEnd`, `ChunksArrive`,
`EveryBlobSettles` and `OthersAnswered` hold. The fairness of `SiPool` and `ClientBytes`
is a premise of the property in their module, that of the others a conjunct of the
specification. `DuplexLine`, `SseStream`, `NetEntries`, `LocalBinds` and `OverlayTable`
are checked for safety only.

Several of these properties have the form `[]<>(everything due is done)`: what is due
only grows until it is done, so that this says of each thing that it is done, and TLC
checks one formula instead of many.

`NotAnothersBind`, a part of `BindsKept`, holds while ports are only taken. With ports
that are released during the start it would not: the code's reservation (698-700) keeps
a walk off the binds of later targets, and a port found taken for an earlier one may be
free when another's walk comes to it. The setting with releases checks what holds of
pins.

Deadlock checking is off where a line, a start or the packets end, or every process
has, and nothing is left to do (of `PeerOverlay`, a pair whose wallets do not fit).

Each property has a mutant: an operator beside the definition it replaces, with
the kind of slip a change to the code could bring in (a result not looked at, a
check dropped, a deadline forgotten). Every mutant is found by TLC.

## 4. Proofs

`ProxyLine_proofs` proves `Spec => []IInv` for any number of incarnations,
generations and chunks (assumption: `BoundsAssumption`, each bound a positive
number), and from it `TypeCorrect`, `NeverTwoUpstreams` (`OneUpstream`),
`NoOrphanSession` (`SessionHasOwner`) and `NoStuckInflight` (`InflightHasTask`).

* `TypeOK` is not inductive: a chunk that is read is added to `backlog`, whose
  bound follows from `backlog <= read`, and that needs an incarnation to have an
  empty backlog until it streams (`BacklogRead`), hence that incarnations not
  yet allocated have no handshake task (`FreshOff`).
* `OneUpstream` has the equivalence between the receiver entry and the one task
  that works for the handle as a conjunct; without it neither half is inductive.
  It needs `FreshOff`, so that an allocation overwrites no task at work.
* `SessionHasOwner` and `InflightHasTask` are inductive over `TypeOK`.

`ClientLine_proofs` proves `Spec => []IInv` for any number of incarnations,
generations, occupy tasks and chunks, any queue capacity and any set of identity
kinds (assumptions: `WarmAssumption`, `ClientBoundsAssumption`), and from it
`TypeCorrect`, `ResumeWaits` (`ResumeAfterAnswer`) and `OneResponse`
(`ResponseExactlyOnce`).

* `ResumeAfterAnswer` is not inductive: an occupy task that is opening, or a
  session with a generation, will let a pipe through. `AnsweredFirst` says that
  neither exists before the answer; with it the proof splits on whether the
  socket has been written to after the step.
* `ResponseExactlyOnce` speaks of `app \o queue`. Lemmas say what appending,
  dropping and moving chunks does to the positions of responses; `IdleEmpty`
  makes a new session start with nothing shown.

`PeerOverlay_proofs` proves `Spec => []IInv` for any numbers of packets and
restarts, any batch size and any capacities (assumption: `OverlayAssumption`), and
from it `TypeCorrect`, `AttachedToSpeaker` (`AttachedToPeer`), `InflightExact`
(`InflightIsTask`) and `PortOwned` (`SessionOwnsPort`).

* `TypeOK` and `AttachedToPeer` need `Speaks` (a session with an offer or accept
  task has a key, so messages carry one) and `SentPairs` (a message's key is the
  one its id was drawn with): an adopted pair is then always a drawn pair.
* `SessionOwnsPort` needs `RemovedByFailure` (only a failed occupation removes a
  configured session) and `OwnPackets` (a daemon collects only its own packets).
* `PacketsAccounted` (`PacketsKept`) counts the holders of a packet. `Placed` says the
  same without counting: the five places (pending, sealed for a pipe, posted, written,
  gone) share no packet, no packet is in two batches of one of them, and the numbers
  given are those of the packets that are somewhere (`Numbered`). Each step moves one set
  of packets from place to place, and a lemma each says what that keeps. That disjoint
  places mean one holder is shown once, at the end, from the library's facts about
  cardinalities.

`MCListens_proofs` proves, of `InboundFeed`, `Spec => []IInv` for any lines, any number of blobs and
any capacities (assumption: `FeedAssumption`), and from it `TypeCorrect`,
`BoundBeforeStamped` (`NeverMismatched`) and `RejectsItsOwn` (`OthersUnaffected`).

* `NeverMismatched` needs `BoundFirst` (a peer that was told of a listen was told
  after the binding) and `AllSealed`: every chunk on its way, in a stream, a pump's
  hands, a pipe or the queue, is one its peer sealed and carries the handle of its
  line. Then no check of the loop can find another handle.
* That blobs are `unknown` only to a line that ended needs `GoneWhenEnded`.
* `OthersUnaffected` follows from `AllSealed`: what makes the loop reject a session is
  a blob of that very line.
* `NoFrameLost` (`ListenLosesNothing`) follows a line's blobs through five stages, from
  what was taken back to what is still on the listen. `StagedInOrder`: numbers rise
  within a stage and from one to the one before it; `Accounted`: only what was sealed is
  taken, and every blob has its route; `Lossless`: while the line lives, every frame of
  its listen is in a stage or was refused by its own full queue. One lemma moves a blob
  from a stage to the next, so each action is that lemma for its two stages. The rest is
  the loop: for a living line `AllSealed` leaves no reason to refuse but the queue
  (`OthersUnaffected` and `NeverMismatched` in the small).

Of `SseStream` it proves `KeepsFrames` (`FramesKept`), for streams of any length
(assumption: `WritesAssumption`), from an invariant that `FramesKept` says little of: between
two reads the buffer holds half a write, and no frame of `out` tells what the rest of it
will make of that (`StreamSound`, `MCSpec => []StreamInv`; `EachAlone` says that the
composition implements both of its models).

* `Separate`, if no read joins writes: all frames of the first `r` writes were handed on,
  and buffer and wire together are the whole of write `r + 1`, with the half line before it
  if it is a `rest`. Each kind of write is drained by computing on it (`DrainWhole`), and of
  a write that misses a token nothing is taken (`PartIs`).
* `Merged`, if reads do join writes and no line is cut: buffer and wire are whole writes of
  the mailbox, with rising numbers, and the frames handed on are of writes before them.
  `Labelled` gives each token its write and its place there; nothing in it says where the
  buffer ends. A separator ends a write and a comment starts one (`LabelEnds`), so what the
  drain takes and what it strips, though it may be several writes at once, are whole writes
  (`MergedTurn`, `MergedStrip`).
* `Arrives`, if reads join writes of any kind: up to the first comment nothing is missing
  between what was handed on and what is buffered or unread. Behind it anything may be.
* The drain's functions are recursive, over their turns. Induction theorems that
  take an operator are of no use here, but the existence of a smallest turn that fails a
  membership is a fact about sets of numbers, from well-foundedness of `<` on them: `TurnsKeep`.
  Every invariant of a loop is an instance of it, with the set of the states it allows
  (`StripClosed`, `DrainClosed`).

`MCLine_proofs` is about the line from end to end (`DuplexLine`), for any bounds of
either side (assumptions: `WarmAssumption`, `ClientBoundsAssumption`,
`BoundsAssumption`). Each daemon keeps the invariant of its own proof, whatever the other
sends: `ClientLine_proofs` and `ProxyLine_proofs` are instantiated as they are, their
steps being stated for any environment (`Step`, and the chunks it may deliver).
`IInv` adds what is between them.

* `NamesAnswered`: an incarnation the client occupies, or that an accept on its way names,
  has answered. It gives `OnlyAnswered` (`OccupiesAnswered`), and needs of the proxy that an
  accept task has a response in hand (`ProxyLine_proofs`, `Answered`).
* `AllProduced`: a chunk anywhere on its way was read, and one in a frame has passed the
  forward task. `InLine`: `app`, `queue` and `frames` are each in order, and each is before
  the next.
* `ImplementsService` (`LineServed`): the initial states map to an initial state of
  `LineService`, and every step maps to a step or a stutter. A read is `Produce`; a change of
  `tcp` is `Pause`, `Open` or `Close`; a write to the socket is `Receive`, whose guards are just
  `AllProduced`, `InLine` and `ResponseExactlyOnce`.
* `BytesInOrder` (`InOrder`) and `ImplementsStream` (`BytesServed`) are about `ClientBytes`
  in either part of `MCLine` (assumption: `BytesAssumption`). `InPlace`: the six places of a
  chunk, from what arrived to what is still pending, are rising sequences, each older than
  the next. `OneSender`: the TCP task asks for one occupation and sends through one channel,
  and a channel that nobody reads is empty. `LostLast`: what is missing and neither the first blob
  nor refused by a full queue is newer than everything that went on, and while the
  sender works nothing of the kind is missing. The order alone is not inductive: that a first blob
  overtakes nothing rests on `OneSender`.
* `ImplementsStream` (`BytesServed`): every step of `ClientBytes` is one of `ByteService` or
  a stutter. `Deliver` is `BytesInv` read at the head of the proxy's queue (`HeadSettles`):
  nothing older is still coming, and nothing older was lost. `Refuse` and `Spare` need one
  invariant more, `Skips`: what was refused is older than all that is coming and in no place
  any more, and until the TCP task has asked for its occupation it keeps all chunks but the
  first. So a first blob is always the second chunk.

`MCHost_proofs` is about `Lifecycle` for any sets of daemons and cleaners (assumption:
`None` is neither), and about `LocalBinds` and `OverlayTable` in the composition.

* `LockedOwner` is inductive once `StateWritten` is added: a pid in the state file belongs to
  a daemon that got past the lock. `RunningOwnsRuntime` needs `InstalledOwns`: while no
  cleaner has removed anything, a daemon about to write the state file owns the network.
* `EveryBindKept` (`BindsKept`), for any targets, ports and stride (`BindsAssumption`).
  `Read` and `Assigned` follow the configuration: no two targets are assigned one port.
  `Walking` says of each plan what is reserved for it before its turn and claimed after it.
  That a target is given up for cause only speaks of all ports of a walk; `Left` carries
  along, for each port left, its excuse (`Excuses`): another process has it, another
  listener, or it is the bind of another target. An excuse stays true only while no port is
  released, so `Left` belongs to the part `binds` (`QuietInv`); with releases what holds of
  pins does (`PinKept`).
* `TablesAgreeAlways` (`TablesAgree`), for any width of the addresses, ports and files
  (`TableAssumption`): the invariant says that a daemon that runs has accepted its file, has
  an address of it and exactly the keys of `KeysOf`. `KeysExact` draws from `PortsOnce` that
  the keys of an address and port are those of the one row that lists it, so that "a later row
  replaces an earlier one" never happens. That 2^Width is a positive number is drawn from the
  cardinality of the subsets of 1..Width, as the library has no theorem about powers.
* `EntriesCoveredAlways` (`EntriesCovered`), for any settings (`EntriesAssumption`): any
  devices, chains and networks, any faults. `SetupList`, `InstallList` and `UninstallList` say
  which command is at which position of a list; `InstallOrder` that each comes after those it
  needs, and a flush before there is anything to flush. `NetShape` is what `ip` and `iptables`
  themselves keep: an address or a route has its device, a rule its chain. `NetProgress` says
  what a command has done by its position: an install has made what it insists on up to there
  (`Insisted`), an uninstall none of whose commands failed for a reason of its own has cleared
  its part (`Cleared`), whatever the host was like before; a command that the host refuses
  clears too, because it is only refused when there is nothing to clear (`UninstallStep`).
  `NetRecorded` says of the well-recorded daemon what exactly is on the host: the entries of
  the commands up to its position (`Before`), all of its entries while it runs, and otherwise
  only entries under the names of the state file. `RecordedStep` shows that such an install is
  never refused anything.

`MCEnds_proofs` proves, of `ReadyPool` for any set of identities and any target
(assumption: `ReadyAssumption`), `TypeCorrect`, `EveryListenHasUser` (`ListenHasUser`),
`RegistryExact` (`OwnersRun`) and `Bounded` (`PoolBounded`, which no run repeats).
`WarmingCounts`, that the counter is up exactly while the warmer waits, makes it
inductive: without it neither the counter's type nor the pool's bound survives the end
of a warming. Two lemmas say what an append and a `Tail` do to the elements of the queue,
two what starting and releasing a listen do to the registry. Of `Gateway`, for any
requests, deliveries, entries and limits (`GatewayAssumption`): `EveryDeliveryServed`
(`DeliveriesServed`) and `RepliesAreExplained` (`RepliesExplained`: a delivery may bring
several answers, where an entry took one and was then heard to fail; there is one more than
such entries at most). `Pumped`, that the pump holds an
armor only while the stream is read, makes the exit of the process lose none it
promised; `Served` collects what a delivery's task has established by each stage, and
keeps it once an answer was taken, after which the task may fail.

`MCPosting_proofs` proves of `PostWorker`, for any number of packets, any queue,
any number of permits and any answers (assumption: `WorkerAssumption`),
`TypeCorrect`, `PermitsAreKept` (`PermitsKept`), `JobsAreAccounted` (`JobsAccounted`)
and `StartsAreInOrder` (`StartedInOrder`). A packet is in the queue, with the worker
or with a task, and its state says which; permits are counted against the set of
running tasks, for which the library's theorems on cardinalities of finite sets are
cited. `TakenInOrder` makes the order inductive: what the worker holds and what the
queue holds come after everything started, and the queue is increasing. Of `SiPool`, for any
registry, page size, entries and callers (`PoolNamesAssumption`, `PoolBoundsAssumption`):
`PoolServesAll` (`PoolServes`) and `NoListLost` (`PoolKept`, the safety half of `PoolRecovers`).
`CollectedAll` is the heart of the first: of a registry of distinct usable records no page
but the one that ends it is a last page, whatever its size, so `refresh` collects every one
(`Listing`). It needs no induction over the pages, as a page is a set of positions.
`Choosing` ties a caller's candidates and entry to its program counter and what failed it
to the cooldowns, which makes `OneStrike` inductive.

Every safety invariant that a run checks is stated by a theorem. Not proved, and checked by
TLC only: the action properties that speak of fairness, and all liveness
(`SocketSettles`, `HandshakeSettles`, `ChunksArrive`, `WarmerReturns`, `OthersAnswered`,
`PostsSettle`, `PoolRecovers` but for its first conjunct, `HandshakeEnds`, `CommandsEnd`,
`EveryBlobSettles`), as TLAPS 1.4.5 has no support for `ENABLED`.

An attempted proof is also a check of the model. `FlowKeepsPort` could not be proved as long
as two alternatives of the `CASE` of `ChannelPort` overlapped: TLC takes the first, as Rust's
`match` does, but the definition allowed either. In `SseStream` a read went over several
texts of the wire, and one item was two texts; now writes are joined where the transport joins
them, on the wire, and each is one text, so that what is unread can be said in one formula.

## 5. Where the code and its documents differ

Four runs expect a violation; each quotes a document, a comment or a test.

* `response_first`: frames can reach the application before the responseChunk,
  although proxy.rs promises not to drain the upstream before it was delivered.
* `cleanup_spares_others`: `teardown`, and `stop` in a race with a start, remove a
  running daemon's network and state file.
* `sse_frames_lost`: a keepalive comment's end is looked for as `\r\n\r\n` first, so
  a comment read together with the frame behind it takes that frame with it. It
  needs a transport that joins writes; `LostToComments`, a part of `FramesKept`, bounds
  the damage.
* `peer_pipes`: of two static peers without billing wallets only the acceptor gets an
  occupied pipe, although the comment at 1473-1475 has one for each. A static
  session has no temporary identity, so the accept names the channel wallet as the
  listen and is signed with it, and `apply_duplex_accept` (1953) refuses an accept
  whose listen wallet is its signer. The initiator goes on offering and drops the
  port's packets as suppressed.

The models reach more states of this kind, which no run lists.

* `ClientBytes`: P1.md:37 has the application see "an ordered byte stream". The first
  blob is taken before it is written, and lost with an entry or an occupation that
  ends at once; a frame that finds the proxy's queue full is refused; in both cases
  later frames follow. `BytesServed` says that there are no other gaps. An EOF read
  in the wait loop after the response disables the read of the stream loop (3289) and
  ends nothing.
* `ClientLine`, `ProxyLine`: RULES.md:65 and the whitepaper have a line's session and
  socket end with it. Several returns of the TCP task leave the session in the map; a
  failed occupation leaves a reading application its open socket; a proxy handshake
  that fails after its listen came up never releases it; a rejected proxy line stays
  while its upstream is silent.
* `InboundFeed`: AES lines read from an occupied pipe are queued under the session id as
  owner, and refused for want of such an owner (`Reason`), although pipe.rs:48-49 has
  them join the listen's queue. A blob under a wrong key rejects the session but does
  not cancel the listen, as README.md:84-86 has it; what follows a reject is delivered,
  although the log line says that it is discarded.
* `NetEntries`: `teardown` asks the present file, not the state file, whether there is
  anything to uninstall, and then removes the state file: a file edited from packet mode
  to another leaves the entries (`EntriesCovered` has files of one mode where it speaks
  of orphans).
* `LocalBinds`: `@LOCAL` given on the command line is lost (config.rs:545); the state file
  has the port validated, not the one a walk ended at (state.rs:30).
* `OverlayTable`: packets to `local_vip` and a packet client's port find the peer, and
  then no keys under `local_vip`.
* `PostWorker`: an entry that times out keeps those behind it from being tried, at every
  retry anew (post.rs:112).
* `Gateway`: the method is compared in capitals and sent as it came (gateway.rs:311); a
  body is gathered whole before it is measured, and without a time limit (353); a
  listener that fails ends the process with success, which `Restart=on-failure` does not
  restart (104).
* `ClientLine`: the wait loop "did not install occupy pipe before timeout" (3134) only if it
  gets back to its top: an application that does not read, with frames coming before the
  pipe is up, holds the task in `write_all` or `flush` (3221-3222) past the deadline, and
  past a reject or the loss of its session (`held`).
* `ClientLine`: after a listen's idle timeout the rebuild is skipped as long as the
  old occupy task holds `pipe_connect_inflight`.
* `ProxyLine`: two occupy tasks on one re-allocated session can leave it with the
  sender of a task that has ended.
* `SiPool`: si_pool.rs:3 says "Pull all registered SI nodes from chain"; a record
  without a usable domain makes its page look like the last one (`LastPage`), and the
  nodes behind it are not listed.
* `ReadyPool`: an identity whose listen ended with `pool_full` stays in the pool.
* `SiPool`: si_pool.rs:273-274 has the callers mark an entry failed on `pool_full`; the
  listen worker returns without doing so (client.rs:2737-2751), and the entry stays a
  candidate for others. It is no counterexample to `PoolServes`, as that worker asks for no
  other entry.
* `PeerOverlay`: batches that do go through an occupied pipe are refused by the peer,
  whose channel listen is bound to no session (940-946, `ReceiveBlob`); an attached
  initiator sends no further offer (2894), so an acceptor that restarts waits
  without a key for ever; a restarted initiator's new id is unknown to the acceptor;
  a session removed by a failed occupation is not seeded again, and its port goes
  back to POSTs (`SessionOwnsPort` says that it does so only then). With a billed
  daemon host_eoa is not the channel wallet, so that its listen never rebuilds the
  pipe (`OwnsListen`).
* `Gateway`: nothing bounds how many tasks run; the expiry of a request is compared
  before a lookup without a time limit.

## 6. Not modelled

Cryptography and encodings (`pgp.rs`, `aes.rs`, `eip191.rs`, `address_pgp.rs`,
`envelope.rs`, `identity.rs`, `frame.rs`, the codecs of `duplex.rs`): pure functions
over bytes. A message that opens under the line's key is that message, any other is
lost or, in `InboundFeed`, `bad`. Generation wrap-around of `pipe_gen` (64 bits). Failure
to generate an identity. Pid reuse.

Of the listens: the configured entry lists used without the pool, the caps of 24
picks and 1000 pages, PGP armor in the SSE stream, and what a Chat listen queues
besides AES blobs. Of the occupied pipe: the status line and the cutting of its bytes
into lines. Of the pre-warmed identities: the lines of a proxy port as takers
(`InboundFeed` has one, and its binding). Of the overlay: rejects, the ages of offers
and accepts (an old one may or may not be taken, as its sender's clock allows),
packet validation and envelopes, the TUN write queue (a POST may be lost), several
peers and several ports with sessions, and the duplicate POST of one batch. Of the
configuration: what `validate` checks of single values, once, before anything runs,
and the reading of files and keys. Of the gateway: the contents of requests and
answers. Scripts and units deploy the daemon and have no state of it.

The 32-bit addresses, 16-bit ports and queue sizes of the code are constants of the
modules; where arithmetic is at its limits (`OverlayTable`'s hosts, `LocalBinds`'s
walk) the limit is part of the definition.

## 7. Plan

1. Done: all the modules of section 2 and the proofs of section 4.
2. A static overlay with several peers and ports, for which `Placed` is the invariant.
