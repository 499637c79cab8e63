# rsurl: a TLA+ verification project

rsurl is a pure-Rust curl: a library, a command line and two C interfaces over
about thirty protocols. This project models the parts of it where several
threads, several processes, a network that loses and reorders, or a peer that
sends what it likes can put the program in a state that no test writes down:
the multi handle, the resumable downloader, HTTP/1.1, HTTP/2 and HTTP/3, the
connection pools, redirects and cookies, WebSocket, the BitTorrent engine, the
dialogues of the other protocols, and the program and the C interfaces around
them. Every definition is translated from the Rust source; `PROJECT.json` gives,
for each one, the lines it stands for.

Line numbers below refer to files under `src/src/`.

## 1. Inventory

| Component | State it keeps | Operations | What is hard |
|---|---|---|---|
| multi handle (`multi.rs`) | pending requests, worker handles, mpsc channel, `running`, `ready` | add, remove, perform, poll, next_completed, wait_all, drop | worker threads post and exit while the caller drains; blocking calls; panics |
| resume container (`resume.rs`) | `<name>.rsurlpart`: data, metadata block, trailer | read_state, write_state, finalize | a crash inside a save; a trailer that outlives the data it describes |
| resumable downloader (`download.rs`) | part file, validators, chunk bitmap, retry budgets, progress meter | run_single, run_segmented, bootstrap, run_chunks, verify_and_finalize | crash and restart, upstream change, ignored or misplaced ranges, several workers in one file |
| HTTP/2 (`http2.rs`) | streams, both flow-control windows in both directions, GOAWAY boundary, header block in progress, flood budgets, HPACK tables, pool | process_frame, run_multiplexed, run_one_request, send, send_multiplexed | frames in any order, errors that belong to one stream or to all, flow control, two tables in step, pooled retry |
| HTTP/1.1 (`http.rs`, `proto/http1.rs`, `pool.rs`) | idle sockets per key, redirect and auth state, the parser's state | send, checkout, release, redirect loop, exchange machine, pull reader | a stale pooled socket: retry or not; credentials across redirects; where a body ends |
| HTTP/3 (`http3.rs`) | QUIC streams, QPACK table, control streams | one request per connection | streams in any relative order, fall-back to TCP |
| WebSocket (`websocket.rs`, `aio/ws.rs`) | fragment buffer, inflater, close gate, `broken` flag | connect, send, recv, ping, close, shutdown, keepalive | four threads on one connection; timeouts inside a frame; closing handshake |
| sans-IO machines and drivers (`io/*`, `proto/tls.rs`) | buffers, what the machine wants next | pump cycle, layered TLS | read/write/EOF in any order, close_notify, a future dropped at an await |
| async client (`aio/*`) | as above over a runtime | request, WebSocket | cancellation by dropping a future |
| BitTorrent engine (`bittorrent/engine.rs`, `picker.rs`, `storage.rs`, `seed.rs`) | picker, bitfield, assignments, per-worker job, storage, resume state | worker threads, endgame, strikes, recheck, seeding | events in any order, duplicate owners, chokes, crash and restart |
| BitTorrent discovery (`tracker.rs`, `dht.rs`, `metadata.rs`) | transaction ids, known nodes, metadata pieces | announce, lookup, fetch_metainfo | stray and late datagrams, peers that lie, several at once |
| TFTP (`tftp.rs`, `net/udp.rs`) | block number, peer TID, timer | read, write | duplicated and delayed datagrams, block wrap-around |
| FTP, SMTP, POP3, IMAP, MQTT, LDAP, RTSP, SSH, DICT, Gopher, Telnet, file | a dialogue each | one transfer | an upgrade to TLS in mid-dialogue, what counts as success |
| network layer (`net/*`), cancellation (`cancel.rs`) | deadline, registered sockets, cancel flag | proxy choice, connect, SOCKS, shutdown on cancel | replies of any length, cancel racing registration |
| temporary storage (`tmpfile.rs`) | memory buffer or unnamed file | write_at, spill, read, append | a limit crossed inside one of several writes |
| cookies (`cookie.rs`) | the jar, the keys of `-b` cookies | ingest, matching, load, save | order and security of the responses that set a cookie |
| command line (`cli.rs`, `transfer.rs`) | job queue, output files, exit code, stdio locks | run_parallel, process_url, every transfer path | parallel jobs sharing files and locks; partial output; `-C` |
| C interfaces (`ffi.rs`, `curl-compat`) | easy and multi handles, the caller's buffers | setopt, perform, getinfo, multi_* | pointers kept across calls; each completion reported once |
| TLS back ends (`tls/*`) | session cache, engine behind a mutex, socket beside it | connect, verify or resume, read, write and flush of a shared connection | a session resumed by a connection that asks for more than the one that made it; reader and writers draining one engine |
| URLs, IDN, decompression, digest, SigV4 | | | conversions and adapters |

How they interact: the command line, the C interfaces and the multi handle call
`Request::send`; that goes through a pool to HTTP/1.1, HTTP/2 or HTTP/3, each
over a TLS back end or a plain socket from the network layer. The downloader
calls `Request::send` in streaming mode once per attempt and owns the part
file. The multi handle runs one thread per transfer. `transfer.rs` picks the
client of every other scheme.

What makes each correct:

- multi handle: every started transfer is delivered exactly once, the counter is
  exact, no call blocks for ever, no thread outlives the handle;
- downloader: what appears at the output path is one whole version of the
  resource, after any number of crashes; the state on disk never claims a byte
  that is not there; every run ends;
- sending a request: a parked connection is used by one request at a time and
  only by one that would have dialled the same thing; a request is repeated only
  if the server cannot have acted on it or may act twice; a cancelled call ends;
- an exchange: the caller gets what the server sent, whichever reader, driver
  and TLS back end carried it, a truncated body is an error, and nothing is said
  to a peer that has not been verified;
- redirects and cookies: credentials and cookies go only where they belong,
  along any chain; plain http cannot displace a Secure cookie; chains end;
- HTTP/2: every request of a batch gets one result and a successful one is the
  whole response of its own stream; windows are exact and never overdrawn; an
  error stays with the stream or the connection it belongs to; the driver
  always returns; both ends' header tables agree;
- WebSocket: messages whole, once and in order; one close and nothing gated
  after it; every thread unwinds;
- BitTorrent: engine and workers agree about every piece, only verified pieces
  count, the engine ends; discovery believes only answers to its own questions;
- the other clients: a required TLS upgrade is not skipped, nothing said before
  it is believed after it, success is the server's word, the payload arrives;
- command line and C interfaces: the exit code, the files and stdout tell the
  same story; every completion is reported once, to a handle that is alive.

## 2. Modules

| Module | Models | Uses |
|---|---|---|
| `Multi` | `multi.rs`, whole file | |
| `H2MuxProofs`, `HttpSendProofs`, `WebSocketProofs`, `RedirectProofs`, `SwarmProofs` | theorems about the module each is named after | that module |
| `DownloadProofs` | theorems about both modes of the downloader | `DownloadSegmented` |
| `PartFile` | the part file of `resume.rs`, with torn writes | |
| `Origin` | the HTTP server as the downloader sees it (external) | |
| `Publish` | abstract specification: what the output path may do | `Origin` |
| `DownloadSingle` | run_single, attempt_single, stream_to_store, verify_and_finalize, over several processes | `PartFile`, `Origin` |
| `ChunkPlan` | chunk_plan, with the reference definition of a tiling | |
| `DownloadSegmented` | bootstrap, run_chunks, workers, fall-back to the single stream | `DownloadSingle`, `ChunkPlan`, `Publish` |
| `H2Conn` | a connection and process_frame with all its handlers | |
| `H2Mux` | run_multiplexed and run_one_request over one connection, and its return to the pool | `H2Conn` |
| `Hpack` | encoder and decoder with their tables, integer code and size signals | |
| `HttpSend` | send_once: routing, the three pools, dialling, retries and version fall-backs, `cancel.rs` | |
| `CookieJar` | the jar of `cookie.rs` | |
| `Redirect` | the three redirect loops of `http.rs` over one jar | `CookieJar` |
| `Http1` | the sans-IO response machine of `proto/http1.rs`; read_body, stream_body, build_body_reader of `http.rs` | |
| `Exchange` | one request: the machine under the TLS machine, both drivers, both front ends | `Http1` |
| `Tls` | who is accepted over a shared session cache; AsyncTlsStream under dropped futures; TlsConn and the transport over it; theorems about the first and the last | |
| `Net` | proxy choice, dialling, SOCKS and CONNECT, deadlines | |
| `H3` | one request over HTTP/3 and its second attempt over TCP | |
| `WebSocket` | the upgrade, reader, writer, keepalive, shutdown; blocking, async and one-shot use | |
| `Swarm` | the engine, its workers, storage with resume, seeding slots | |
| `Discovery` | trackers, DHT lookup, metadata exchange | |
| `TempBlob` | `tmpfile.rs` under several threads | |
| `HandleProofs` | theorems about the two handles an application shares with threads | `Multi`, `TempBlob` |
| `Dialogue` | what the command-and-reply clients share; the dot transparency of mail | |
| `FileClients` | FTP; SFTP and SCP | `Dialogue` |
| `Mail` | SMTP, POP3, IMAP | `Dialogue` |
| `Ldap` | LDAP and its BER lengths | `Dialogue` |
| `SimpleClients` | DICT, Gopher, Telnet, file; MQTT; RTSP; TFTP | `Dialogue` |
| `Transfer` | `transfer.rs`: the scheme picks the client | all of them, by INSTANCE |
| `Cli` | the program: jobs, transfer paths, output, exit code | |
| `CApi` | libcurl-compatible handles and the crate's own C interface | |
| `MCSingle`, `MCSegmented`, `MCH2Mux`, `MCHttpSend`, `MCRedirect`, `MCExchange`, `MCClients` | instances for TLC | |

`MCExchange` and `MCClients` put machines that do not share state side by side:
the initial state chooses one of them, so their state spaces add up and do not
multiply.

### Multi

One action per step of the caller's thread and of a worker. A worker posts
(`WorkerPost`, with `CatchUnwind`) and exits (`WorkerExit`) in two steps; the
caller's `drain_ready` is `TryRecv`, `JoinWorker`, `TryRecvEmpty`, so every
interleaving of a post, an exit and a drain is explored. `pc`, `after` and `op`
say where the caller is; `delivered` and `removed` are history.

### PartFile, DownloadSingle, DownloadSegmented

A file is a size and a function from positions to cells; a cell is a byte of a
version, a hole, or metadata. `write_state` puts the trailer after the data;
`TornState` is the file a crash inside it leaves. A run is a process: `Crash`
and `CrashInSave` may happen at any step, and the next run starts from whatever
the file holds. Bodies are read one position at a time. A read error, a failed
write and a low-speed abort end an attempt in the same way and are one action.
The segmented mode adds the bootstrap request, the worker threads with their
shared counter, bitmap, error slot and fall-back flag, and panics.

`Origin` gives each version of a URL a strong entity tag and answers If-Range
as RFC 9110 says; the constant `Faults` adds ignored, short, long and misplaced
ranges and bodies without a length. What the code does without strong
validators is documented in the code as a limit and is not modelled.

`Publish` is the promise: the output path holds nothing or one version, and
changes in one step. `AtomicPublish` says that the whole of both modes, crashes
included, implements it, with the version found at the path as the mapping.

### H2Conn, H2Mux

The peer is not modelled: a read returns any frame of the constant `Frames` or
fails, which covers every server. A header block is what `complete_header_block`
can tell apart: a final head with or without a content-length, an interim head,
trailers, a malformed or an undecodable block. Frames rejected for their size or
type are one ILLEGAL frame. `wire` is history of what went over the wire, by
stream, and under 0 of the connection's flow control; the properties compare the
code's windows and results with it. `lost` in it marks a stream for which a frame
could not be written while the loop went on: its HEADERS in start_queued, which
drops the stream and tells the peer nothing, or the RST_STREAM of stream_error and
of an early response, whose write errors are ignored (`ResetTried`). `fatal` is
history too: a read failed, or the
peer broke the protocol of the connection. `IsFrame` says which fields a frame of
each type has; that is all that is assumed of the peer.

`H2Mux` is the loop of run_multiplexed: start_queued one request at a time,
pump_pending_sends one DATA frame at a time on the lowest id that may send, one
read, and what the loop does with its outcome (take_stream_error,
fail_goaway_doomed, fail_all_outstanding). A connection may be new or come from
the pool: `Limits` are the concurrency limits it may already have learned.

run_one_request is the same connection with one request at a time (the scenes in
`Singles`): it sends its body as the windows allow, reads until its own stream is
done or refused, and the connection goes back to the pool (`Release`) or is
dropped; the next request of the scene takes it from there with whatever state
it is in.

The order in which pump_pending_sends visits streams, and the HashMap order in
take_stream_error and in a SETTINGS overflow, do not matter for the properties;
the overflow is nondeterministic in the model.

### HttpSend

Threads make calls; a call is one hop (`send_once`). `plan` is the list of
protocols `send_https` or `send_plain` would try, `pc` where the thread is:
`checkout`, `dial`, `check`/`insert`/`recheck` (the three steps of
CancelToken::register), `hello`, `head`, `body`, `return`. The pools are one
sequence of parked connections with their kind and key; checkout takes the
newest of its bucket, release drops what is above a cap. A connection remembers
the request it was dialled for (`made`), which is what `RightPeer` compares.

An HTTP/2 or HTTP/3 exchange is one step with the failures that
`pooled_failure_retryable` and `h3_should_fall_back` can tell apart; what the
server did is chosen nondeterministically within what each failure leaves open,
and `Resend` and `NextProtocol` record a repetition that was not justified. Over
HTTP/1.1 `seen` is how much of the answer has come; the code's `started` is its
last value, so an interim or a partial head does not keep a pooled request from
being repeated. Route "resolved" is a direct connection that a proxy resolver
chose: HTTP/2 does not pool it, HTTP/1.1 does.
`cancel` of a token is two steps, the flag and then the hooks.

The instance has no proxied and no connector request: they are never pooled and
take the branches of a direct request that may not be pooled, which the
`insecure` one covers.

### CookieJar, Redirect

A host is the sequence of its labels from the right and a path the sequence of
its segments, so both matching rules of RFC 6265 are `IsPrefix`; the public
suffix list (an external crate) is the constant `PublicSuffixes`, IP literals
are `IpHosts`. Every cookie carries `by`, the URL whose response set it, through
the jar, the file and the wire.

`Redirect` is one loop for three functions: `send_to_inner` (jar and Digest),
`stream_h1` (jar, no Digest) and `send_reader_traced` (neither; it looks at the
cancel token only once). `req` is what the loop carries from hop to hop, `wire`
the snapshot that was sent. Between calls the caller may add a `-b` cookie,
delete, clear, save or load. A save is one step: `write_private` renames a
finished file over the old one.

### Http1, Exchange

Plain text is a sequence of tokens (a status line with its framing headers, a
chunk size, text, CR, LF, data), so that a split can fall anywhere and the
parsers' buffering is real. `Exchange` gives the machine of `Http1` to the TLS
machine and both to a driver; a read returns any non-empty prefix of what has
arrived. The server is what it means to say (`srv.resp`) and how it says it, with
at most one flaw: `ResponseExact` compares what the caller got with the first,
`FailuresJustified` demands a flaw, a limit or a cut for every error. The blocking
core, the async client and the pull reader run on the same servers, so they are
also compared with each other.

### H3, Tls, Net

`H3`: each pass of the read loop finds any more of each stream; the encoder's
inserts may come after the block that needs them. `Net`: what a proxy sends is a
sequence of tokens of which each read takes exactly what the code asks for, so a reply of
the wrong length leaves bytes that would be taken for the target's.

`Tls` has three machines. In the first some connections, one after the other,
share a session cache; each has its own settings (verify or not, pins, a
callback, a name), the options are read, the configuration is built, a session is
looked up, offered and taken or not, and what the code checks after the handshake
is checked. The engines' verification of a chain is external. rustls keeps the
configuration of the cache's first connection; connections share a cache there only
when they are built from the same options, so they agree on whether they verify.

The second is AsyncTlsStream: every await is a step at which the future may be
dropped. The third is TlsConn: the engine seals units, a mutex protects it, and
whoever holds the mutex drains the engine to the socket, one unit per step. The
reader waits for the socket without the mutex and feeds the engine with it; a
writer is any thread that sends a frame through the WsTransport, which refuses
once a write has failed. A socket write may fail between any two units.

### WebSocket

Inbound frames are cut into two halves so that a timeout or a dropped future can
fall inside one; outbound frames take the close gate, the write mutex and the
`broken` flag in the code's order, in separate steps. The inflater is its context
(which messages it has seen), which is what decides whether the next message
decodes.

### Swarm, Discovery

The engine's loop takes one event per step; a worker's job is the set of blocks
it holds and has asked for, the remote's `owed` what it still has to answer. A
restart takes up `saved` and the files as the last step left them. In `Discovery`
a datagram carries who sent it and which question it answers; a peer is a script.

### Dialogue and its clients

A transfer is one record `d`. `tainted` records what came in before the handshake
and was acted on after it, `clear` what left in plaintext. Bytes already buffered
behind a go-ahead for TLS end the transfer at once, so only what is remembered can
taint. The peer may give any reply at any point, and the connection may break at
any point; that an FTP or MQTT server means what its success replies say is not
claimed. TFTP adds a network with loss, duplication and
swapping, and a server that retransmits; its block numbers wrap (`Modulus`).

### Cli, CApi

A payload is a sequence of chunks marked with their job, so mixed, repeated and
lost output is visible in a file or on stdout. The locks of stdout and stderr are
state, since some paths hold them across a transfer. In `CApi` the caller's memory
is state too: a POSTFIELDS buffer is read through the pointer when the request is
built. The caller keeps libcurl's contract and nothing more: a handle it has added
is left alone until it has removed it, and it may remove it at any time, with its
transfer queued, running, or finished and not yet reported, and free it at once.
`due` counts the messages it may still expect.

### Hpack, TempBlob

`Hpack` joins the two ends by an ordered wire that also carries the
acknowledgements of table sizes; integers keep their prefix and digit structure
with smaller digits. `TempBlob` keeps, as history, what each byte may hold.

## 3. Runs

| Run | Question | Distinct states |
|---|---|---|
| `single` | two URLs into one path, five versions, one above `max_size`, three processes, crashes and torn saves, ignored and misplaced ranges, length-less answers, an expected hash | 245 000 |
| `segmented` | two workers, one to three segments, an empty resource beside two versions of one, two processes, both modes, ranges ignored, misplaced and overlong, crashes and torn saves; termination; refinement of `Publish`; chunk_plan against the definition of a tiling (an ASSUME, for every total up to 40 and option up to 8; the plan by segments is also proved to tile, section 4) | 500 000 |
| `h2` | four scenes on one specification: `flow` (two request bodies against every order of window changes), `response` (two streams, every shape of response), `batch` (three requests, concurrency limits, GOAWAY, resets, floods, transport failures), `single` (two requests one after the other through the pool) | 918 000 |
| `http_send` | two threads, three calls of five kinds of request, caps of one and two, connections dying at every step, a token cancelled at any time | 670 000 |
| `redirect` | one call in four settings, up to two redirects over two sites, http and https, an address, two Set-Cookie lines, an untidy jar file | 190 000 |
| `swarm` | three addresses, two of them connected at a time, two pieces of two blocks, two faults among chokes, late haves, resets, bad pieces, disk errors and restarts | 760 000 |
| `websocket` | split threads, one thread, one task, one shot; the peer fragments, compresses, pings, closes, errs or drops; a write fails part-way | 830 000 |
| `clients` | the multi handle with three transfers and every order of calls and thread steps; 250 command lines over every transfer path, alone, in sequence and under `-Z`; both C interfaces; every non-HTTP client against any peer; HPACK, the temporary blob and discovery | 640 000 |
| `exchange` | every framing, flaw and split of one HTTP/1.1 response over both drivers and all readers; HTTP/3 streams in any order; every dial; chains of TLS connections over one session cache; the async TLS stream; a shared TlsConn with two writers | 340 000 |
| `http_h3_replay`, `trailer_overlap`, `broken_transport` | violations, see section 5 | |

Every property of a passing run has a mutant: a plausible bug in one mapped
definition under which TLC finds the property violated with the same bounds.
Most properties are conjunctions of named parts (`HandleSound`, `SlotsSound`,
`SwarmSound`, ...), one per way of going wrong; the parts are documented where
they are defined.

The parts at a glance:

| Property | Parts |
|---|---|
| `HandleSound` | `ExactlyOnce`, `NoneLost`, `RunningCount`, `NoThreadOutlivesHandle` |
| `StateHonest` | `StreamStateHonest`, `HaveHonest` |
| `ChunksExact` | `ChunkOwnership`, the plan is a tiling |
| `WindowsExact` | `SendLedger`, `WindowsBounded`, `PumpedBeforeRead` |
| `SlotsSound` | `OneSlotEach`, `SlotsFilled`, `DroppedIsClosed`, `PooledIsClean` |
| `GrantsRespected` | `WithinCredit`, `WithinGoaway` |
| `OutcomesRight` | `WholeOnly`, `NoOkAfterFatal`, `FatalOnlyForCause` |
| `PoolsSound` | `PoolSound`, `RightPeer` |
| `SecretsStayHome` | `CredentialsStayHome`, `CookieScope` |
| `SwarmSound` | `LedgersExact`, `OnePlaceEach`, `AlwaysAsking` |
| `ReceivesExact` | `MessagesExact`, `PingsAnswered` |
| `TrustHolds`, `ReportsTrue` | `TlsRequiredHolds`, `NothingStaleTrusted`, `HostKeyHolds`; `PayloadIntact`, `DiscoverySound` |
| `AllEnds` | `CallReturned`, `Exited`, `TransferRests`, `DiscoveryOver`, each again and again |
| `OutputSound` | `ExitHonest`, `Delivered`, `FailureSafe` |
| `ApiSound` | `DereferencesLive`, `MessagesDue`, `LoopMayStop`, `DeliveryExact`, `RequestAsAsked`, `NativeSound` |
| `AnswersExact`, `PathSound` | `ResponseExact`, `FailuresJustified`, `H3Exact`; `TrustFirst`, `RecordsContiguous`, `ReachSound` |

### Bounds

- `clients`, multi handle: `MaxTransfers = 3`: two workers that finish while a third is being started.
- Files of three or four positions: a prefix, a middle and an end can differ,
  and a layout of two or three chunks has an uneven last one; a single segment
  and an empty resource fall back to one stream. Two URLs suffice
  for "a partial of something else"; three processes for "written by one,
  damaged by the second, trusted by the third".
- HTTP/2: windows of 2 to 4 against bodies of up to 3 bytes make every window
  the limiting one somewhere and drive a stream window below zero; flood budgets
  of 1 are reached and passed. `MaxStreamId`, `WindowMax`, `MaxBody`, `MaxFrags`
  and the budgets are the code's constants made small. A scene fixes the frames
  the peer may send and the requests; the code is the same in all four. A read
  may fail in the scenes of `Breaks`; the scene `response`, whose frames are many,
  ends by what the peer sends.
- `http_send`: two threads and three calls let one connection be parked, taken
  and parked again while the other thread dials; `PerKeyCap = 1` and
  `GlobalCap = 2` are both reached. The five requests differ in one thing each
  that must keep them off another's connection: partition, dial target, TLS
  posture, scheme.
- `redirect`: two redirects are enough to leave an origin and come back; two
  Set-Cookie lines to set a cookie and shadow, replace or delete it. One call:
  a second one starts from a jar that the first call's hops already reach.
- `swarm`: three addresses for two places make a third one wait; two pieces and
  two connected peers reach the endgame with two owners; two faults reach
  `MaxStrikes = 2`, a choke and a restart in one run, or a crash after a bad
  piece. At most three events queue at the engine, one less for each fault that
  has happened: a bound on the states, not on the code.
- `websocket`: three frames make a fragmented message with a control frame
  inside it, two on a split connection with every thread at work; one call of
  the writer beside the reader's pong and close, the keepalive's ping and a
  shutdown.
- `clients`, transfers: mail bodies of three bytes over {dot, CR, LF, other} hold every
  case of the transparency layer; five TFTP blocks with numbers modulo 4 wrap;
  two network faults lose one datagram and duplicate another. HPACK: two entries
  fill the table of 10, four sizes among them 0; the blob crosses its threshold
  of 2 inside a write of either thread.
- `clients`, command line: bodies of two chunks, so that output can be cut or mixed; two workers
  and up to three jobs. `exchange`: header and body limits are reached, one
  redirect, two coding layers; the interim cap is passed.

### Fairness

- `clients`, multi handle: weak fairness of the caller's steps inside a call and of each
  worker. A worker's request ends (every socket has timeouts) and its thread is
  scheduled by the operating system. The caller need not make calls.
- `single`, `segmented`: weak fairness of a running process and of each of
  its threads; not of crashes, of starts or of upstream changes.
- `h2`: weak fairness of the loop, which is one thread; a read returns with a
  frame or an error.
- `http_send`: weak fairness of a thread's own steps, of a read on a socket that
  was shut down (it returns), and of a `cancel` that has set its flag (it goes
  on to the hooks). Not of the peer: `CancelLetsGo` must hold when it never
  answers.
- `redirect`: weak fairness of sending and of the exchange, which ends with a
  response, an error or a timeout.
- `swarm`: weak fairness of the engine's steps, of a worker taking a command, and
  of its deadline (`peer_timeout`). Not of any wire message.
- `websocket`: weak fairness of the reader's step, of writes in progress and of
  the keepalive timer. Not of the peer, of the caller or of `shutdown`.
- `clients` (transfers, discovery), `exchange`: weak fairness of the next step: every read and write
  has a timeout, so something happens.
- `clients`, command line: weak fairness of the main thread and of each worker; a lock that is free
  is granted, and a transfer ends by the timeouts of the library. The C caller
  is not fair.

No strong fairness is assumed anywhere.

### What the liveness properties say

`RunEnds` and
`SegmentedRunEnds`: a download ends, unless the server makes it discard what it
holds again and again. That exception is real: a server that sometimes ignores
Range makes a single stream advance from zero after each restart, and each
advance refreshes the retry budget. `Terminates`: a batch ends whatever the
peer sends; the flood budgets and the ceilings leave no endless sequence.
`CancelLetsGo`: a call whose token is cancelled gets away from the connection it
dialled, also when the peer is silent and `cancel` races the registration.
`RedirectsEnd`: no mix of redirects, Digest challenges and stale nonces keeps a
call going. `SwarmEnds`: the engine ends, with the torrent or an error, whatever
the peers do, if they choke finitely often. `Unwinds`: a shutdown frees a parked
reader and ends the keepalive thread. `AllEnds`: no call of the multi handle
blocks for ever, no job of the command line waits for ever for a lock another
holds, every transfer and every discovery ends; only an MQTT subscription may wait
for ever, and only while its broker answers pings.
`ExchangeEnds`: every request is answered or fails.

## 4. Proofs

All theorems are about the specifications the runs check, for every value of
their constants that satisfies the named assumptions, and all of them are safety:
an inductive invariant, or a step of it.

| Theorem | States | Hypotheses beside the modules' assumptions |
|---|---|---|
| `HandleProofs!BooksBalance`, `HonestReturns`, `TypeSafety` | `HandleSound`, `ReturnsAreHonest`, `TypeOK` | none |
| `DownloadProofs!PublishesWholeVersions` | `PublishedIntact` | `RangesWhole`, `TrailersApart` |
| `DownloadProofs!ClaimsOnlyWhatIsThere` | `StateHonest` | `RangesWhole`, `TrailersApart` |
| `DownloadProofs!ChecksumDecides` | `ChecksumProtects` | none |
| `DownloadProofs!BitmapClaimsWhatIsThere`, `FallBackClaimsWhatIsThere`, `ChunksFetchedOnce` | `RangedStateHonest`, `StateHonest`, `ChunksExact` | `Honest` |
| `DownloadProofs!ImplementsPublish` | the refinement `AtomicPublish` | `Honest` |
| `DownloadProofs!ProgressCounts` | `ProgressExact` | `Honest` |
| `HttpSendProofs!NeverTheWrongConnection` | `PoolsSound` | none |
| `HttpSendProofs!RepeatsJustified` | `ReplayJustified` | none |
| `WebSocketProofs!CloseIsLast` | `NothingAfterClose` | none |
| `H2MuxProofs!WindowsAreExact`, `SlotsAreSound`, `GrantsAreRespected` | `WindowsExact`, `SlotsSound`, `GrantsRespected` | none |
| `RedirectProofs!SecretsReachNoStranger`, `NoSecureCookieShadowed` | `SecretsStayHome`, `SecureCookiesKept` | none |
| `Tls!NoStrangerAccepted` | `PeersTrusted` | none |
| `Tls!RecordsReachTheWireWhole` | `RecordsUnmixed` | none |
| `HandleProofs!BlobKeepsItsBytes` | `BlobExact` | none |
| `SwarmProofs!EngineAndWorkersAgree`, `OnlyVerifiedBytesCount` | `SwarmSound`, `OnlyVerifiedCounts` | none |

The hypotheses of the downloader name what the code cannot survive, and each has
its counterexample in a run or in section 5: `RangesWhole` (no 206 is cut short,
`Faults` without "short"), `TrailersApart` (no resource is exactly as long as
another one's data and trailer; the run `trailer_overlap` is its negation) and, for
the segmented mode, `LengthsGiven` (a 200 tells its length, `Faults` without
"nolength"). `Honest` is the three of them. Ignored and misplaced ranges, overlong
bodies, upstream changes, crashes and torn saves stay in. The run `single` allows
"nolength", the run `segmented` does not.

The other assumptions are of the constants: sizes and caps are natural numbers, a
frame has the fields of its type and HTTP/2's initial window does not exceed the
largest one (`H2Assumption`; a frame may hold at least one byte), a pool holds at least one connection (`configure` clamps it), a name below an IP
address is none and a redirect target does not carry the caller's own userinfo
(`RedirectAssumption`), connections that share a rustls cache agree on whether they
verify (`TrustAssumption`), the reader of a TlsConn is not one of its writers
(`ThreadAssumption`), a write to a blob is not empty (`write_at` returns at once on
an empty one) and ends within the model's bound (`BlobAssumption`), and a torrent has
at least one address, piece and block, each cap of the engine at least one
(`SwarmAssumption`).

### Multi

One inductive invariant `IInv`, the conjunction of

- `TypeInv`: types, with `running` only an integer;
- `Places`: a completion is in exactly one place (the channel, the caller's
  hand, the ready queue, the delivered history), once, and the completions that
  are anywhere are those of the threads that have posted;
- `Ledger`: every id handed out is pending, removed or started, and only one of
  them;
- `Handles`: the handle holds the threads whose completion has not been
  collected, until drop joins them; a collected thread has exited;
- `Count`: `running` is the number of started ids not collected;
- `Returning`: what is known on the way to each return of poll and wait_all.

`ExactlyOnce` alone is not inductive: that a worker posts a completion which is
nowhere yet needs the last part of `Places` (only threads that have posted have
one), and that the counter never wraps needs `Count` with `Handles` (whoever is
joined was counted). `wait_all` returns only when nothing is pending, running or
ready, so `Returning` needs `Count`, `Places` and `Ledger` to conclude that all
that was added and not removed has been delivered.

### The downloader

`SingleInv` says, for each control point, which bytes of the part file belong to
the version that the validators in memory and in the trailer name: `StreamOK` for
the file at rest, `AttemptOK` between attempts, `BodyOK` while a body is read,
`DoneOK` before the rename, `FinalOK` for what was published. `StateHonest` alone is
not inductive: a resumed body needs to know that its first byte continues the
prefix that is held, and a torn save that the trailer it leaves is unreadable. The
lemmas `WriteAtFacts`, `SetLenFacts` and `WriteStateFacts` are what a write, a
truncation and a save keep. `SingleInv` says nothing at control points of the other
mode, so that the proofs of the segmented mode use it as it is.

`HashInv` (what is about to be renamed has the expected content) needs none of
this, which is why `ChecksumDecides` has no hypothesis on the server.

`SegInv` adds `RangedOK` (every chunk of the saved bitmap is in the file),
`PhaseOK`, `BootBodyOK` and `ChunkOK` (the plan is a tiling of the version named, the
bits set are of chunks that are there, and the trailer agrees with memory),
`FetchersOK` (a fetcher has written its chunk up to where it is) and `OwnOK` (every
chunk the shared counter has passed is done, or in the hands of exactly one worker,
or the run is in trouble, that is failed, falling back or with a panicked worker).
`OwnOK` is what makes JoinWorkers sound: when all workers have left and there was
no trouble, all bits are set. That chunk_plan tiles the resource is
`EqualPartsTile`, by arithmetic, for every size and number of segments. A write of
one worker keeps what the others have written since chunks do not overlap
(`FetchStepInv`).

`ImplementsPublish` follows: only Rename changes the output path, and what it puts
there is one version by `DoneOK`; versions are told apart by `WholeIsOne`.

`ProgressCounts` needs a second invariant, `MeterOK`: while the chunks are fetched the
meter is the number of elements of a set of positions, those of the chunks done and
the beginnings that fetchers hold. Each beginning held is of a chunk that is not done
and that no other fetcher holds, which stays so after a fetcher has given up, since
its bytes stay counted. A byte just written was not in the set because chunks do
not overlap (`MeterFetcher`), and finishing a chunk moves positions from one part of
the set to the other without changing it. On a resume the meter starts at
plan_done_bytes; that this sum over the plan is the size of the set (`DoneBytes`) is
shown by a least counterexample, for the reason given under Swarm below.

### H2Conn, H2Mux

`IInv` has two halves. `ConnInv` is about the connection alone, whoever drives it:

- `ConnType`: types, with the connection's window within its bounds;
- `Streams`, for a registered stream `Link` (what the client holds closed is closed
  at the peer, reset, or disowned by its GOAWAY, or the write that should have
  closed it failed; the request body is out exactly when
  END_STREAM is; what has ended was ended by the peer), for an id that was used and
  dropped `ClosedAtPeer`, for one not yet used an empty history;
- `ConnLedger`, and `StreamLedger` while the connection is alive: the window is what
  was granted less what was sent. A SETTINGS frame that overflows one stream is
  refused after others have been shifted, which is why the streams' half is claimed
  only of a connection that did not fail.

The handlers are proved against it once, one lemma each (`HeadersTakenSound`,
`ProcessDataSound`, ...): a frame leaves `ConnInv` true, registers nothing, never raises
a GOAWAY boundary and never takes back what was sent (`Sound`, `ReadSound`). The
actions of `H2Mux` use only those lemmas.

The driver's half is `OneSlotEach`, `SlotsFilled`, `PumpedBeforeRead` and
`PooledIsClean` with what makes them inductive: `DoneIsEnded` (a dispatch that
reports a response has it), `Failure` (a failed connection has left an error on
some request or is about to), `Continuation` (a header block in progress belongs to a
registered stream without a head, which is why a connection whose last response is
in has none), `Lone` (run_one_request has one stream or none), `Retry`
(the loop reads only with a stream live, and comes to its second start only when
nothing can be opened). `SlotsFilled` needs `Retry`: the return that does not fail
what is outstanding is taken with nothing outstanding. `DroppedIsClosed` alone is
not inductive: that a stream may be dropped at all rests on `Link`.

`GrantsAreRespected` is a step property: a DATA frame is at most `next_data_chunk_size`,
which is at most each of the windows (`ChunkFits`), and a stream is opened under
`can_open`.

### HttpSend

`SendInv`: a thread that is past its dial or checkout holds a connection made for
its own request, that no other thread holds and that is not parked (`HeldOK`); a
parked connection is parked once, under the key of a request that may park it, and
was made for the peer of that request (`ParkedOK`); the caps (`CapsOK`). The lemma
`SamePeer` is the heart: two requests with the same pool key dial the same peer
with the same posture. The steps are classed by what they do to a connection
(`QuietStep`, `DropStep`, `DialStep`, `TakeStep`, `ParkStep`), and every action is
one of them. `ReplayInv` says that a repetition which was not justified can only be
one of the HTTP/3 fall-back, which is the run `http_h3_replay`, or one over HTTP/1.1
after less than a final head (section 5).

### WebSocket

`GateInv` is a lock argument. A thread past the test of `send_closed` holds the
close gate until its frame is written, unless the frame is a pong; while it is about
to write no close is on the wire; a close on the wire means that `send_closed` is
set. Only the frame path matters, so the reader's actions enter by what they may
ask to be written (`TakeFrameAnswers`).

### CookieJar, Redirect

`RedirInv`: `LoopOK` (whatever the request still carries of the caller's, the current
URL has the origin of the first, or the caller trusts other hosts), `JarOK` with
`Scoped` (the domain of a cookie is one its setter may name, never a public suffix
or an address), `FiledOK` for the file, and the property itself. `CookieScope` alone
is not inductive, since a cookie sent now was set, loaded or edited long before.
`PrefixesNest` and `DomainsNest` (two domains that match one host are nested) carry
the Secure rule: a response over plain http that would shadow a Secure cookie sees
it.

### Tls

`TrustInv`: a session marked verified comes from a chain that the engine accepted
for the session's name (`CacheOK`), an offered session was one that `lookup` gives to
this connection (`OfferOK`), and a connection past its handshake holds its peer's
chain, accepted by the engine whenever the connection verifies (`ChainOK`). `Harvest`
is the step that puts a session into the cache.

`ConnInv`: only the thread that holds the mutex has units in its hand (`LockHeld`),
and what is on the wire is what was taken from the engine, short of what is in that
hand (`WireOK`), as long as nothing was lost (`Kept`).

### TempBlob

`BlobInv`: each byte that is there is one it may be, and one that is not may be zero
(`Bytes`); a thread between its steps finds what it left (`ThreadOK`); the last answer
is one the bytes allowed when it was given (`Answered`). `BlobExact` alone is not
inductive. The data part of a write and `grow_to` are two steps: in between, the
bytes have to stay although they lie behind the length, and they do since the
ranges of the writers are disjoint, since a spill copies the whole of the memory and
lets go of it only when the copy is complete, and since a write that fails in the
middle has touched only its own range (`Kept`, `SpillKeeps`, `WriteKeeps`). A reader
takes the length before the lock; it still stands, since only the owner shrinks the
blob, and the owner runs alone.

### Swarm

`SwarmInv` holds at every step of a download and has three parts.

- `WorkersOK`: for each worker, `Window` (the blocks outstanding are the ones
  requested and not filled, at most the pipeline's depth, and none before the next
  one to ask for was skipped) and `JobOK` (what the remote owes is exactly that; a
  choke has dropped it; an unchoked worker with a piece in hand is owed something;
  a finished piece is not kept).
- `Afloat`, while the engine loops: `Books` and `Counted`. `Books` relates the
  engine's tables to the workers and to the events on their way: the assigned set,
  the availability counts and the busy count are sums over the peers that are known
  (`Sums`); a charged piece is in exactly one of the peer's inbox, its worker's job
  and the event queue (`Placed`); a worker that has not joined is unknown and has
  said nothing (`Early`); a peer joins once, and with nothing in hand (`Joining`).
  `Counted`: `live` counts the workers whose Gone is still to come, each has one
  (`Leaving`), and the addresses dialled are those below `next`.
- `Verified`: what is had, saved or published is good on disk, and while the engine
  loops the saved bitfield is part of the one in memory.

`SwarmSound` alone is not inductive. Nothing in it says that a second Joined or Gone
cannot arrive, that a worker's Released crosses at most one Assign, or that
`outstanding` is the count pump takes it for. The engine's helpers are proved
once, each against `Books` for any peer (`assign`, `release`, `gone`, `strike`, ...), and
`handle` is their composition. assign_idle and evict_idle are folds over the peers;
their lemmas take the first place at which the fold would leave the invariant and
show that the step to it keeps it (`LeastNat`, the least element of a set of numbers,
in place of the induction theorems, whose operator parameter no prover
instantiates).
A restart puts the engine back to `Reset` and keeps only disk, saved and published, for
which `Verified` is enough.

### Left to TLC

- All liveness, and everything under ENABLED: out of the prover's reach.
- `OutcomesRight` of `H2Mux`: that a successful body is as long as everything the
  peer sent on the stream is a sum over its frames.
- Modules with RECURSIVE operators, in which the prover has no SMT backend:
  `Discovery`, `Exchange`, `H3`, `Hpack`, `Http1`, `Ldap`, and `Transfer`, which
  instantiates one of them.
- `Cli` and `CApi` so far; `ReceivesExact` and
  `RecordsContiguous` compare whole sequences of messages with a fold of the
  frames and stay with TLC.

## 5. Disagreements between code and documentation

Shown by a violation run:

- `trailer_overlap` (`download.rs:991`): stream_to_store relies on `set_len(total)`
  to drop an older trailer; when the new resource is exactly as long as the old
  data, metadata and trailer together, set_len changes nothing. The old resume
  state stays readable over overwritten data, and after a crash a run of the first
  URL resumes from it. The hypothesis `TrailersApart` of the downloader's theorems
  is this case and no other.
- `broken_transport` (`tls/purecrypto.rs:612`): a record is taken from the engine
  before it is written, so a failed write loses its tail, and the reader goes on
  draining the engine without looking at `broken`: what follows the gap is sent,
  which the comment at `websocket.rs:471` excludes. rustls keeps what the socket
  did not take, and the theorem about TlsConn holds for it whatever fails.
- `http_h3_replay` (`http.rs:3045`): any error that starts with "http3: peer
  closed" counts as a request the server did not act on, also when the
  connection was closed after it had; a POST is then sent again over TCP.

Reached in the models, and kept out of the passing runs by their frames or
constants, or stated by a property that no configuration lists:

- `download.rs:1515`: a 206 that starts where it should and has the right total
  but ends early is a clean end of body, and the size is not compared before the
  rename: a truncated file is published (`Faults` with "short" in
  `MCSingle.cfg`). The docs at `download.rs:36` and `download.rs:1512` say that
  the size is verified.
- `download.rs:1351`: a bootstrap answered 200 without a length writes over an
  older partial without invalidating its trailer; after a crash, a run that
  matches the old trailer trusts it (`Faults` with "nolength" in
  `MCSegmented.cfg`).
- `http2.rs:2456`: an HPACK error on HEADERS with END_STREAM finds its stream
  closed without a response and is taken for that stream's error.
- `http2.rs:2910`: HEADERS for a stream that we have just reset and dropped
  fails the whole batch, and so does a body above the ceiling; `Conforms` in
  `H2Mux` names these two exceptions to `FatalOnlyForCause`.
- `http2.rs:3143`: DATA that ends in stream_error is billed to the connection
  window and not returned until a later frame is accepted.
- `http2.rs:2960`: trailers split over CONTINUATION complete a stream without
  the comparison with content-length that unsplit ones get at `http2.rs:3080`
  (`SplitTrailers` in `H2Conn` reaches it).
- `http2.rs:2513`: a flush that fails when the last response is in fails nothing,
  and the connection goes back to the pool, against the comment at
  `http2.rs:4276` ("Re-pool only if every request completed without disturbing
  the wire"). So does the RST_STREAM of `http2.rs:2488`, whose result is thrown
  away; `PooledIsClean` therefore claims nothing of failed writes. Trailers that the peer has split
  may leave a header block open on a pooled connection; `PooledIsClean` names the
  case.
- `http2.rs:2563`, `http2.rs:2998`: a stream whose HEADERS or whose RST_STREAM could
  not be written is dropped and the connection is used on, although the peer may
  hold the stream open; `DroppedIsClosed` exempts it.
- A run of frames without progress that ends together with a GOAWAY is
  attributed to a doomed stream instead of the connection.
- `http2.rs:2442` leaves the loop without failing what is outstanding;
  `SlotsFilled` shows that it is never reached with something outstanding: what
  made the first start fail makes the second one fail too.
- `websocket.rs:591`: `broken` is tested before the write mutex is taken and set
  after it is released, and the reader's pong does not take the close gate, so
  one frame can follow a torn one, against the comment at `websocket.rs:468`
  (`NothingAfterTorn`). For the same reason a pong may follow our close.
- `cli.rs:6055`: `--no-clobber` tests and creates in two steps, so two `-Z` jobs
  may take one name (`NoClobber`).
- `http.rs:1264`: the HTTP/3 fall-back after a body has begun to stream repeats
  the bytes and the head callback (`HeadOnce`; doc at `http.rs:1141`).
- `net/resolver.rs:52`: each address gets the whole connect timeout, so `max_time`
  does not bound connecting (`WithinMaxTime`).
- A BitTorrent peer that alternates choke and unchoke faster than `peer_timeout`
  holds its piece for ever; `SwarmEnds` assumes finitely many chokes.
- `bittorrent/engine.rs:469`: the list of stale peers is taken before the first one
  is evicted, and evicting one offers pieces to the idle ones. With enough
  peers (five addresses, four connected) a peer on the list gets a piece and
  is then stopped in the same call. Nothing is lost, since `gone` gives the piece
  back; `OnePlaceEach` names the case.

Met while reading, and visible in the models as the absence of a guard or an
action:

- `download.rs:1223`: a bootstrap answered without a Content-Length is not held
  to `max_size` while it is read (doc at `download.rs:113`). Without a strong
  ETag or a Last-Modified no If-Range is sent (`download.rs:704`), a documented
  limit; `Origin` gives every version a strong tag.
- `http.rs:2318`: a socket from a pool, a connector and HTTP/3 are not
  registered with the CancelToken, and a pooled socket keeps the read timeout of
  the request that dialled it. `CancelLetsGo` is therefore about connections
  the call dialled.
- `http.rs:2472`: a socket is parked before its CancelGuard is dropped, so a
  late `cancel` can shut a connection down under another request, which sees a
  stale one.
- `http.rs:2316`: a pooled HTTP/1.1 request is repeated after an interim or a
  partial head, against the comment at `http.rs:2323` ("only retry a reused
  connection when no response arrived at all"); `ReplayJustified` exempts it by
  name ("h1 part").
- `http.rs:1579`: Digest credentials outlive a redirect to another origin; and
  after a redirect within the origin the Digest header of the old URI is sent
  and its 401 is not answered.
- `http.rs:1306`: the streaming path sends Basic credentials at once under
  `digest_auth`, which the doc at `http.rs:544` describes otherwise.
- `http.rs:1543`: with the jar confined to the first hop, a caller's own Cookie
  header is replaced on that hop and sent on the later ones.
- `cookie.rs:256`: save_netscape writes session cookies (as its own doc says) and
  does not purge expired ones, while the doc of the Cookie type says of a session
  cookie "never persisted" (`cookie.rs:49`), that of purge_expired "Called [...]
  before serialising" (`cookie.rs:181`) and a test message "session cookies must
  not be saved" (`cookie.rs:1597`, of one given with `-b`). `Save` follows the
  code; no property is about the file.
- `tls/purecrypto.rs:122`: a cached session is offered by name and verification flag
  alone, so a connection with other roots or a CRL that shares the cache would
  resume a session those never judged. `PeersTrusted` and its theorem are about
  connections of one cache with one set of roots and one CRL.
- `http.rs:2635`: on the https core path pins and the certificate callback are
  consulted after the exchange; the async client and TlsStream do it before.
- The async client sends the caller's headers unchanged on every redirect hop,
  and decodes by the first Content-Encoding line but strips all of them.
- The pull reader cuts a close-delimited body at MAX_BODY_BYTES without an
  error, reads an unknown transfer coding to the close, and takes an end of
  stream in place of the trailers; stream_body accepts Transfer-Encoding with
  Content-Length, which read_body refuses.
- `proto/http1.rs:414`: a header block that mixes line endings has no end, while
  the line reader it is said to mirror accepts it.
- HTTP/3: is_closed is tested before data that has arrived is read
  (`http3.rs:1573`); the read timeout is a total deadline.
- WebSocket: after a protocol error recv neither closes nor marks the receiving
  side closed; a message begun inside another is an error, and a later
  continuation is appended to the first.
- FTP: `REST` goes out before EPSV/PASV, while the comment says the next command
  is the transfer. IMAP: a FETCH without a literal is an empty success; a PREAUTH
  of the plaintext greeting (`imap.rs:101`) still spares the login after STARTTLS
  (`imap.rs:140`), so `NothingStaleTrusted` names it as its exception. POP3: a
  dot line ended by a bare LF ends the message. TFTP: no dallying after the last
  ACK. RTSP: an interleaved frame before the answer to TEARDOWN is an error, an
  unparsable Content-Length is 0. LDAP: the message id of a BindResponse is not
  compared. DICT: an unforeseen code is a success, also an
  informational one, while the comment at `dict.rs:328` says "keep reading if
  informational (1xx)". `--ssl-reqd` holds for mail
  and FTP only.
- Command line: `--retry` is not applied on the streaming paths; a full disk
  while streaming exits 7, not 23; `-C` appends the body of an error without
  `--fail` and does not look at where the 206 starts; under `-Z` the exit code is
  the last failure's, not the worst.
- C interfaces: a failed perform leaves the previous response for getinfo;
  curl_multi_remove_handle (`multi.rs:143` of curl-compat) leaves a message that is
  already queued, which curl_multi_info_read then returns with a handle the caller
  may have freed (`MessagesDue` allows exactly these); a handle added twice is not
  noticed; an Accept-Encoding line beside the option is sent twice.
- `tmpfile.rs:199`: set_len takes `&self` and stores the length after releasing the
  lock. The downloader calls it only while no thread uses the blob, and `TempBlob`
  is about such callers: there the two steps cannot be told apart. It may fail.

## 6. Not modelled

The TLS, QUIC and SSH engines are external libraries: what `tls/*` decides around
them is modelled, their cryptography and chain building are not. Pure conversions
over character data (URLs, IDN, decompression, Digest and SigV4 strings, bencode,
Huffman and QPACK strings, BER, wire encodings, dates, option parsing, help and
`--write-out`) are out of the reach of models that abstract data. Rate limits,
backoff times and callback throttling change no state the properties speak of. In
the downloader: one-shot schemes and `data:` URIs. In HTTP/2:
send_multiplexed, which wraps the loop. In HTTP/1.1: uploads with Expect. The reactor of `io/runtime.rs` and the browser back
end (`aio/wasm.rs`). The upload side of a BitTorrent seeder beyond its slots. Of
the source lines about a third are unit tests that live in the source files.

## 7. Plan

Done: every component that keeps state has a module; the multi handle, both modes
of the downloader, HTTP/2, the pools, the WebSocket close, redirects and cookies,
the TLS back ends, the temporary storage and the BitTorrent engine have their
theorems. Worth proving next, where the modules allow it: `CApi` and `Cli`.

Runs stay few: machines that do not interact share a run, the scenes of one
component are merged where their constants allow it.
