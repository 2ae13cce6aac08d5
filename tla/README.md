# Bossan in TLA+

Bossan is a Rack web server written as a Ruby C extension: one thread, one picoev
event loop, a vendored HTTP parser, pipelining, keep-alive and suspended writes.
This directory models it in TLA+, checks the models with TLC and proves the most
important facts with TLAPS. Paths below are relative to the repository.

## The system

| part | source | state | operations |
|---|---|---|---|
| server core | `ext/bossan/bossan_ext.c`, `client.h` | a `client_t` per connection, `loop_done`, `main_loop` | `accept_callback`, `r_callback`, `w_callback`, `read_request`, `parse_http_request`, `prepare_call_rack`, `call_rack_app`, `response_start`, `processs_write`, `process_body`, `send_error_page`, `close_client` |
| request queue | `request.c`, `request.h` | singly linked list with head, tail, size | `push_request`, `shift_request`, `free_request_queue` |
| picoev | `picoev.h`, `picoev_epoll.c` (or `picoev_kqueue.c`) | table of descriptors, timing wheel of 128 slots, the kernel's epoll set, the array of events of a poll | `picoev_add`, `picoev_del`, `picoev_set_timeout`, `picoev_loop_once`, `picoev_poll_once_internal` |
| write bucket | `bossan_ext.c:415-549` | an iovec array, counters | `set2bucket`, `writev_bucket` |
| HTTP parser (vendored) | `http_parser.c` | parser state, flags, lengths | `http_parser_execute` and its callbacks |
| environ and limits | `bossan_ext.c:937-1443` | the Rack environ of a request | header, URL and body callbacks, `set_path`, `urldecode` |
| buffer | `buffer.c` | a growing byte buffer with a limit | `write2buf` |
| time cache | `time_cache.c` | 64 slots of formatted time | `cache_time_update` |
| access log | `bossan_ext.c:201-318`, `2409-2434` | `log_fd`, `log_path` | `access_log`, `write_access_log`, `write_log` |
| lifecycle | `bossan_ext.c:1724-1733`, `2253-2511` | `listen_sock`, `main_loop`, `loop_done`, the static environ | `listen`, `run`, `stop`, the signal handlers |
| options | `bossan_ext.c:2512-2597` | one number each | setters |
| Rack handler | `lib/` | none | starts the server |

How they meet: picoev calls `accept_callback`, `r_callback` and `w_callback` with the
`client_t` it was given; the core feeds what it reads to the parser, whose callbacks
append requests to the connection's queue and fill in their environ; when
`client->complete` is set (or the read failed with requests queued) the descriptor is
unregistered and the requests are served one after the other, by `close_client`
calling `prepare_call_rack` and `call_rack_app` again while the queue is not empty.
A response that does not fit the socket's send buffer is suspended: the descriptor is
registered for writing and `w_callback` goes on with it. In the end `close_client`
closes the descriptor or allocates a fresh `client_t` for the kept connection. A suspended
response holds a pointer into the time cache, whose ring every accept and every log line
may move on. Around all this, a Ruby program calls `listen`, `access_log`, `run` and `stop` in any
order it likes; globals keep descriptor numbers for it.

There is one thread. What is hard is the order of things: the pointer picoev keeps for
a descriptor, against freed clients and reused descriptors; the registration, which is
dropped before serving and has to be restored on every path; several requests on one
`client_t` whose fields must be reset in between; reads that return any part of any
number of requests; failures after the status line went out; timers that race with
answers; events of one poll that are handled while earlier callbacks close and reuse
descriptors; numbers kept in globals when what they named was closed; a signal that comes
while the loop starts. `PROJECT.json` lists these hazards at their lines.

What makes each part correct: every connection is watched with a timer until it is
closed, and only with the client that is alive; a request is served once, in order,
and not if it was rejected; answers reach the peer whole and in order; a write retried
loses and repeats nothing; the queue is a FIFO; a timer fires when it is due and not
before; the kernel waits for what picoev has registered, and no event reaches another connection than
the one it was collected for; a date is sent whole although its text lies in a ring; the server closes
and writes to its own descriptors only; a stop ends the run; every connection ends.

## Modules

| module | models | source |
|---|---|---|
| `Bossan` | the server core: descriptors, clients, callbacks, requests, answers, peers | `bossan_ext.c` |
| `BossanProperties` | its types, inductive invariants and properties | |
| `MCBossan` | named heads and answers for the configurations | |
| `BossanEpoll`, `MCBossanEpoll` | the server core on epoll: the kernel's set, deferred deletions, the events of a poll, timers after it | `picoev_epoll.c`, `picoev.h` |
| `BossanProofs` | the theorems about `Bossan`: pointers and watching; types; order of service; causes of faults | |
| `BossanEpollProofs` | the theorems about `BossanEpoll`; those about peers that do not pipeline and about whole answers | |
| `RequestQueue` | the linked list, malloc and free of requests, who calls it when | `request.c`, `bossan_ext.c` |
| `RequestFifo` | abstract: a sequence of requests, one being served | |
| `RequestQueueProofs` | the theorems about them | |
| `Picoev` | registration, timing wheel, sweep, time | `picoev.h`, `picoev_epoll.c` |
| `Timers` | abstract: one time for each timer that is set | |
| `PicoevProofs` | the theorems about them | |
| `WriteBucket` | the iovec array and `writev_bucket` | `bossan_ext.c` |
| `TimeCache` | the ring of texts and the pointers into it | `time_cache.c` |
| `DateHeader`, `MCDateHeader` | composes the two with the turns of the loop and the write timer | `bossan_ext.c`, `picoev.h` |
| `DateHeaderProofs` | the theorems about it and about `WriteBucket` | |
| `Server` | the process: `listen`, `access_log`, `run`, `stop`, signals, and what each descriptor number names | `bossan_ext.c` |
| `ServerProofs` | the theorems about it | |
| `Environ` | parser callbacks, limits, growing buffer, environ, as operators on a request | `bossan_ext.c`, `buffer.c` |
| `HttpParser` | `http_parser_execute`, one byte a step, cut into reads anywhere | `http_parser.c` |
| `HttpReading` | what the parser makes of a stream one byte at a time, as a function; the property that the cuts do not matter, its invariant | `http_parser.c` |
| `HttpMessages`, `MCHttpMessages` | what a message is and means, independently of the parser; properties | |
| `HttpParserProofs` | the theorems about the parser | |
| `UrlPath`, `MCUrlPath` | `set_path`, `set_query`, `urldecode` on the bytes of the buffer | `bossan_ext.c` |
| `UrlPathProofs` | the theorems about it | |

### Bossan

`pc` says where the thread is in the C code: `loop` is `picoev_loop_once` between two
callbacks, the other places are functions of `bossan_ext.c`; each action is one of these
functions, or one turn of its loop. `cur` and `me` are the descriptor and the `client_t`
pointer on the stack, `mem[f]` the generation of the client allocated for descriptor `f`
(0: freed) and `reg[f].arg` the generation picoev holds: dangling pointers are generations
that are not `mem`. `cli[f]` has the fields of `client_t` under their names. `nested` counts
the `process_rack_app` frames in which `close_client` was called for an error page: the code
goes on behind that call, with the pointer it has. `fault` records the first undefined
behaviour or failed assertion; the system stops there.

Peers are actions of their own, between any two steps: they connect, send a token (the
begin of a request, its header block, its body, an empty line, junk), shut down, reset, stop
reading and read again. What a header block says is a record (`Heads`), what the
application answers is one too (`Apps`); a read takes any prefix of what was sent. The wire
is a sequence of answers with what reached the peer of each.

Bounds: `MaxReqs`, `MaxConns` (in all), `MaxBlanks`. `AcceptBatch` and `HeadLen` are the
code's constants; an answer's lengths are in units of items, because only whether a count
reaches the announced length matters.

### BossanEpoll

`Bossan` lets the loop take any ready descriptor at any time, which is more than epoll does and
serves its safety properties. `BossanEpoll` puts the backend under the same actions:
`EpollWait` collects what is ready into `events`, `HandleEvent` takes one of them, whose callback
is `Bossan`'s, and timers fire in `Sweep`, after the array is worked off. `interest` is the kernel's
set. `picoev_del` does not tell the kernel (deletions are deferred until an event turns up
for a descriptor nobody registered), `close` does; `picoev_add` modifies an entry or adds it.

### RequestQueue

Requests are addresses, allocated and freed and allocated again; reading or writing a
field of an address that is not `live`, or of `NULL`, sets `fault` (`Touch`). `phase` is what the server core
does with the queue: reading (requests arrive), shifting one off, cleaning after it,
freeing all.

### Picoev

`vec` and `vec_of_vec` are the two levels of bits, per slot; `v` and `vv` are the local
copies that the sweep works on while callbacks call `picoev_set_timeout`, `picoev_add` and
`picoev_del`. `now` is `loop->now` and uninitialised until the first turn, as in the code;
the clock may jump in both directions. `armed` is history: what a timer was asked for.

### WriteBucket

A byte is the pair of its part and its place there, so that what the socket took can be
compared with what was put in. A partial write may end anywhere.

### DateHeader

The second part of a packet is the `Date`, a pointer to a slot of `TimeCache` (`date`). The
steps of `picoev_loop_once` give the order of things: `Poll` takes the time, waits, and callbacks
run; `Sweep` takes it again and timers fire; `Interrupted` is a wait that a signal ended,
after which neither happens. Callbacks take time (`Tick`, at most `MaxBusy` seconds in a
poll and in a sweep), and any of them may move the ring on (`Refresh`). A response that the socket refuses
gets its timer and one retry, as in `w_callback`.

### Server

`fds` says what each descriptor of the process is; the kernel hands out the lowest free
one. The globals keep numbers. The Ruby program opens and closes descriptors of its own
between the calls; connections are opened and closed without what happens on them. `past`
remembers the three events after which a number is known to name something else (a standard
stream that was the log was closed; `unix_listen` raised; something got descriptor 0, which
the code takes for none) and the lines of the log that opened the file again.

### HttpParser, Environ, HttpReading, HttpMessages

A stream is what a peer sends on one connection, a sequence of bytes rendered from
messages by `HttpMessages`. `HttpParser` consumes one per step in the state the C code
would be in; `EndRead` is the end of the data of one `read()`, possible after every byte,
where the pieces of a name, a value, the URL or the body are handed to the callbacks. Methods are
followed letter by letter, as a name and an index into `method_strings` (`NextMethod`), and URLs
byte by byte through the states of `parse_url_char`: a URL begins with `/`, `*` or a letter, a
scheme must be followed by `://`, a CONNECT begins at a server, and no line may end before the
server. The version and the header names and values that the parser knows, which it follows
letter by letter too, are single symbols. `HttpReading` is a second account of the same bytes, without reads, marks and
steps that look at a byte again: `Reading[p]` is what the first `p` bytes come to when each
is handed over by itself. `HttpMessages` says with operators on the message alone what its environ,
its body, its end and its limits are, and which methods and URLs are well formed, as sets of
words; the properties compare these with the parser's. What is well formed there is what the code
takes, which is more than the standard does: a third letter that fits nothing passes as the one
expected unless the method so far is CONNECT, MKCOL or SUBSCRIBE (`GEX /` is a GET, 977-988),
and a server may have two `@`, though not one right after the other (494-498).

### UrlPath

Real byte values; the memory behind the URL has stale bytes, since the buffer is not
terminated, and the passes read and write the same memory.

## Runs

| run | module, bounds | what it shows |
|---|---|---|
| `sequential` | one connection, two requests one after the other, all heads but pipelines, all answers, access log and asserts on, loop may stop | rejected requests are not called, crashes have the listed causes only |
| `pipelined` | one connection, two requests sent at once, resets, end of file, junk, full send buffers, an answer of an `Array` with nothing in it | nothing is stranded, called or answered twice or out of order; no close before the answers; a freed client is only used after a reset behind a second request; no answer starts behind an incomplete one, but for the listed causes |
| `descriptors` | on epoll; three connections, one descriptor of three at or above `max_fd`, numbers reused | the kernel waits for what is registered, events belong to the client they are delivered to, picoev holds live clients only, every connection is watched with a timer |
| `live` | as pipelined, with fairness, peers that stall included | every connection ends; every request is served; both unless an error page holds the thread for ever |
| `server` | six descriptors, one connection at a time, a log file and a standard stream, standard input open or not | log lines reach what `access_log` named, nothing foreign is closed, nothing but the listed is leaked, a run watches its listener, a stop ends a run |
| `assert`, `bad_pipelined` | small instances | two disagreements, see Findings |
| `queue` | three addresses | no freed access, no leak, an error marks the last request, the list is a FIFO |
| `timers` | three descriptors in two words, three slots, timeouts to 2, time to 3 | asserts hold, no timer is early or passed, each fires, refinement of `Timers` |
| `bucket` | packets of 1 to 4 parts of 0 to 2 bytes; 5 slots, a timeout of 0, callbacks of a second, 5 seconds | all bytes once and in order, whole when reported as sent; the date is one second's; `writev_bucket` returns |
| `http` | 2751 connections of one or two requests (66,124 states) | environ, keep-alive, body and end of each request are exact, exactly the requests over a limit or malformed are refused, where the reads cut the bytes does not matter, the parser's asserts hold |
| `url` | 111,110 URLs of up to 5 bytes over `% 0 2 5 7 F a z ? #`, each with three kinds of memory behind it | in-place decoding never reads what it has overwritten; query and path are exact |

Why the bounds are enough to be of interest:

* Two requests on a connection are needed and enough for what goes wrong between
  requests: fields of the client left over, a queue that is not empty, an error while one is
  queued. Three descriptors, one not pollable, with reuse, exercise stale registrations.
  Answers have up to three items, so that a write can fail at the first, at one between and
  at the last.
* Three slots and three descriptors in two words of `vec` make the wheel turn, make a word
  hold two timers and another one, and leave a timer outside of the wheel (delta >= 3).
* A packet in the code has at most four parts (chunk size, CR LF, data, CR LF) besides the header.
  Two bytes suffice to stop inside of an entry. Five slots are the least that `DateAssumption`
  allows with a timeout of 0 and callbacks of a second: with four the run fails. In the code it is 64
  slots against 5 seconds, so that the callbacks of a poll or a sweep may take 28 seconds each.
* `server`: three standard streams, the listener, the loop's own descriptor and one more, so that an
  accept, a log file or a descriptor of the program can fail for want of room, and each can get the
  number that another one left.
* `descriptors`: two pollable descriptors, so that a poll has events of both and of the listener
  while a callback closes one, and three connections, so that one of the numbers comes back. The
  two are symmetric, nothing compares them.
* `http`: limits are small (3 headers, names and values of 4, URL of 7 in a buffer that
  starts at 2, content of 5, header of 32) so that both sides of each limit are sent. Every method
  comes with each letter wrong, with one missing and with one too much; URLs are all of up to three bytes
  over `v : / @ ? # * ^`, alone and in a CONNECT, and all of up to two behind each prefix of `v://`,
  which takes every state of the URL to every other. The
  content length is 6 bits wide against a limit of 5, with the same relation as 64 bits to an
  int (`ParserAssumption`); 64, 66, 70, 128 and 130 wrap around.
* `url`: five bytes hold an escape and what follows, an escape that decodes to a percent
  sign with one digit more, a query and a fragment in both orders.

### Fairness

* `Bossan`: the thread goes on inside a callback (weak fairness of `Callback`). The loop polls
  every descriptor and sweeps the wheel in each turn, so an event that is ready again and
  again, or a timer that has expired, is handled: strong fairness of each event and timer. Peers
  owe nothing. A peer that neither reads nor sends is ended by its timer. The one place where the
  thread waits for a peer is `blocking_write` (`bossan_ext.c:336`), which spins while an error page meets a full
  socket; it writes when there is room again and again (strong fairness of `SendErrorPage`), and
  the liveness properties say what holds unless the thread is held there for ever.
* `Server`: `bossan_run_loop` goes on (weak fairness of `RunAdd` and `RunEnd`): nothing there
  blocks, and every turn of the loop ends with the test of the flag. Nothing else is fair.
* `Picoev`: the loop's steps and the returns of callbacks are weakly fair;
  `epoll_wait` returns without being interrupted infinitely often if it is called infinitely
  often (strong fairness of `PollReturns`): a signal on every single poll would starve
  the timers, as `picoev_loop_once` returns before the sweep.
* `DateHeader`: the loop of `writev_bucket` runs on (weak fairness of `Write`).

## Findings

Each has a run in which TLC finds the line quoted violated.

* `assert`: `call_rack_app` calls `picoev_del` (1979) on a descriptor that `r_callback`
  has already unregistered (2179); the `assert` in `picoev_epoll.c:89` fails, and the gem is
  built without `NDEBUG`. It takes one response that does not fit the socket's buffer.
* `bad_pipelined`: a rejected request behind a good one reaches the application, since
  `check_status_code` in `close_client` is commented out (1695-1700); the change log
  promises 400.

Seen in the code and part of the models, without a run of their own; the properties are
stated for the cases these do not spoil:

* `process_rack_app` closes the client and returns 1 (1864-1866), which `call_rack_app` takes for
  success: it goes on with a freed client. `UseAfterFreeCause` says when this happens and that it
  happens in no other way.
* A second `run` uses a loop that the first one freed, since `main_loop` stays set (1727).
* `unix_listen` raises through `bossan_listen`, which leaves the number of a closed socket in
  `listen_sock` (2372). Nothing sets up the keys of the environ for a Unix listener, whose socket
  also blocks, so that `accept_callback` waits for its eighth connection. `unix_listen` leaves the umask
  changed when `bind` fails.
* `access_log` closes the log it had, a standard stream included (2414); the next file gets its
  number. Each line whose write fails leaks the file that was opened again (1642).
* Descriptor 0 is taken for a failure of `listen`, and for no log.
* `getaddrinfo` fails with other codes than the -1 that is tested (2292), also for a port above
  32767, which is a negative `short`.
* A stop between `run` and the loop's flag is forgotten (2487).
* `close_client` leaves a suspended bucket allocated (1898).
* A suspended answer: the retry counts the status line and the headers as body bytes (823), the
  result of writing the last chunk is dropped (804). An empty item under chunked encoding, and a body
  that is an `Array` joining to nothing (1855), is sent as the last chunk (576), and then the last chunk
  is sent again. `NothingAfterCutAnswer` is stated for the rest.
* `Expect: 100-continue` is answered after the body was read (1914-1922). An error page that
  would follow a status line is left out, but the connection stays open when `keep_alive` is
  set (372). An HTTP/1.0 answer without Content-Length says Keep-Alive and has no end (673).
* A status left over from an earlier answer decides whether `call_rack_app` reports 500 (1960).
* A `CRLF` alone makes `parse_http_request` dereference NULL (2112).
* `PATCH` is presented as `GET` (1430). A header line without a colon becomes part of the
  next one's name (1200). Trailers reach the environ under the key `false` or over headers
  (1194). `Connection: close` in a trailer stops the parser but not `keep_alive`. After an
  upgrade, further bytes are a 400. The header budget is not reset after trailers
  (`http_parser.c:1572`). 31 headers pass a limit of 30 (1190); a content length equal to the maximum
  passes the header check but its body does not.
* A wrong third letter of most methods is not noticed: `GEX /` is a GET, `PUX /` a PUT
  (`http_parser.c:977-982`). Of two `@` in the server of a URL only adjacent ones are refused.
* `%zz` in a path is accepted by the first pass, which does not look at the digits, and the path is decoded twice (1104-1118).
* Timers count from `loop->now` before the poll (`picoev.h:364`).

## Proofs

All theorems hold for every value of the constants under the named assumptions:
`ParamAssumption` and `AnswerAssumption` (`Bossan`: the items of a body add up to its size, and a
Content-Length that the application gives is right), `SizeAssumption` (`Picoev`), `PacketsAssumption`,
`SlotsAssumption` and `DateAssumption` (`DateHeader`), `ServerAssumption` (`Server`),
`ParserAssumption` (`HttpParser`), `StreamsAssumption` (`HttpReading`: the bytes of a stream are
any strings but the one that stands for the NULL pointer), `BytesAssumption` and `StaleAssumption`
(`UrlPath`: bytes, and a NUL somewhere in the memory behind a URL, without which `strlen` would leave it);
`RequestQueue` needs only that `NULL` is no address. `BadRequestsNotCalled` has the one hypothesis that peers do not
pipeline.

* **Server core.** `WatchInv` (the pointers: clients are allocated for open descriptors
  only; what picoev holds is the live generation; the stack holds a live client at every place that
  uses one; everything open is watched unless a callback is working on it) is inductive on its
  own: `WatchInvariant`, from which `NoDangling` and `NoLost`. The properties are not
  inductive, since they say nothing about the states in the middle of callbacks; `StackOK` and `WatchOK` say at each
  `pc` what is registered. The argument goes action by action; `Nested` frames are why
  `start` is treated apart: there the client may be gone. `IInv` adds the types of all data, and
  `RefsOK`: request numbers in `current_req` and in the queue exist, and a queue that will be
  shifted is not empty. `Invariance` proves it, `TypeCorrect` follows. `RefsOK` is needed because
  `Head` of an empty queue has no type.
* **Order of service.** `CalledOnceInOrder`, `AnsweredOnceInOrder`, `NoStrandedRequest`,
  `ClosesAfterAnswers` and `UseAfterFreeCause` come from one invariant on top of `IInv`, `ServeInv`
  (`ServeInvariance`), whose parts are about one connection each. `OrderOK`: what was called or answered has a
  smaller number than what is queued. That is not enough, because the next call is for
  `current_req` and not for the queue: `CurrentOK` puts it between the two at each `pc` that calls
  or answers, and says that behind a status line `header_done` keeps a page from being
  sent. `ReadingOK`: a client that reads has the request it parses last in its queue, and leaves
  the parser with a complete one only to serve it. `CoverOK`: a complete request is queued,
  called, has a page, or is about to. `NestOK`: `process_rack_app` closes a client under its
  callers only when the peer reset behind two requests (`Doomed`), and what runs on in the
  freed client returns to `start` and faults there. An error page for a client without a
  request has number 0 and takes no part in the order.
* **Faults.** `FaultInv` (`FaultInvariance`) gives each fault its cause, from which
  `FaultsHaveCauses`: the NULL request behind an empty line has to be followed from the peer through the
  inbox and the buffer to the parser (`BlankOK`, `BufferOK`), and the item that is written from a
  suspended response through its status line (`AnsweringOK`).
* **One request at a time.** With pipelining a rejected request reaches the application (see
  Findings). Without it none does: `SoloInv` (`SoloInvariance`, for `"pipeline" \notin Peers`) says that
  what a peer sent is what is queued and what is still to be parsed, one unanswered
  request at most (`SoloOK`), that a request reaches `finish`, `prepare` and `app` only when it
  was parsed to its end or its error is known (`WholeOK`), and that no client is closed under its
  callers (`ThreadOK`). `BadRequestsNotCalled` follows, and that no closed client is used,
  which is the last conjunct of `FaultCauses`.
* **Whole answers.** `NothingAfterCutAnswer` comes from `FramingInv` (`FramingInvariance`), on top of `IInv`,
  `ServeInv` and `FaultInv`. `StallOK` and `HeadOK` carry the excuses: a send buffer that is full, or a client
  registered for writing, means that the peer stalled once, and a client whose `http_minor` is still 0
  either got an HTTP/1.0 head or has no request it could answer. `AnswerOK` says that
  an answer which is neither whole nor excused is the last one on the wire, and that the thread is
  writing its body at this very moment, nested calls included (`At`). Then `Underway` relates the counters of the client to the wire: the items
  that are left add up (`AddUp`) to what the answer lacks, and none of them is an empty chunk; so the
  last of them completes it. `EpollNothingAfterCut` carries it over to epoll.
* **Epoll.** `EpollImplementsCore`: every step of `BossanEpoll` is a step of `Bossan` or leaves it
  alone, so the core's theorems hold on epoll: `EpollNoDangling`, `EpollNoLost`, `EpollCallsInOrder`,
  `EpollAnswersInOrder`, `EpollFaultsHaveCauses`. `EpollInv` adds to
  `WatchInv` that the kernel waits for descriptors of clients only (`InterestOpen`), and that the
  events left in the array are registered, current and not about the descriptor a callback works on
  (`EventsOK`); the properties say nothing of the states inside callbacks. The step to prove it is
  that a callback, nested calls included, changes the registration and the client of its own
  descriptor only (`Near`), or accepts a descriptor that was closed. `InterestIsKept` and
  `EventsAreCurrent` follow, the second also for a loop that is being stopped, which the run leaves out.
* **Request queue.** `IInv` states that the list from `head` along `next` is the history
  `order`, that the allocated requests are the queued ones and the current one, and that `tail` is right while requests
  arrive, dangling otherwise. `QueueSafe`, `QueueNoLeak`, `QueueBadIsLast` and `QueueIsFifo` follow.
* **Timing wheel.** `IInv`: a slot not being swept holds exactly the timers that name it,
  and its hint the words they are in; during a sweep the copies `v` and `vv` and
  what is left in the slot account for the timers; every timer is in the slot of its time (`DueSlot`). A
  callback may do anything to its own timer, which `CallKeeps` shows to keep the sweep's
  copies right. Then `AssertsHold`, `NonePassed`, `NoneEarly`, and `WheelImplementsTimers`: the wheel
  with `SlotTime` as the refinement mapping implements `Timers`.
* **Write bucket.** `BucketInv` (`BucketInvariance`), from which `PacketIsSent`, for packets of any number
  of parts: the bytes that the socket took and those that the entries still name are the packet, and `total` is never
  below what is left. The second is why it does no harm that `writev_bucket` takes too little off `total` (540): it may
  go on writing when nothing is left, but does not end before. The step is `ResumedBytes`: the entries
  before the one the socket stopped in are emptied, that one is cut, and what they all stand for then is what
  was behind the bytes taken. It is an induction over the entries; since the library's induction
  theorems take an operator, it is made over sets of numbers (`NatSetInduction`, from the
  well-foundedness of `<`), and `FlattenSeq`'s recursive function is shown to exist first (`FlattensExists`).
* **Date header.** `DateInv` (`DateInvariant`), from which `DateIsWhole`: the bytes of a `Date` show one
  second, although they may be sent before and after a suspension. The property alone is
  not inductive: a suspended bucket is in danger when the ring has come round to its slot.
  `AgeOK` bounds how far the cache has gone on (`Age`) by the seconds in which callbacks ran: it
  can go on by one slot for each second since the suspension, and by none while
  the thread waits, also when signals interrupt every wait. So what counts is not how late
  the timer is, but how long the callbacks of its last poll and sweep take; that is
  `DateAssumption`. `ImplementsBucket` shows that the composition implements `WriteBucket`, so that
  `SendsPacket` holds of it too (`ResponseIsSent`).
* **Process.** `IInv` of `Server` (`ServerInvariance`) says what each global's number names: the log
  (`LogOK`), the listener (`ListenerOK`), the loop's own descriptor and the one it watches (`LoopOK`), all
  three as long as no number was kept past the close of what it named (`Straight`, from `past`); and that every
  descriptor bossan opened is known by its number, or is one of the leaks listed (`OwnedOK`). Numbers are
  handed out again, so no property about one global is inductive without the others. From it
  `ServerLogReachesTarget`, `ServerDescriptorsOwned`, `ServerRunWatchesListener` and the action
  property `ServerClosesOwn`.
* **Parser.** `ParserInv` (`ParserInvariance`), from which `ParserAssertsHold`: the asserts of
  `http_parser_execute` hold for every stream of bytes and every cut into reads. The assert that a body
  being read has a length needs that the value that stands for no length is never taken from
  digits (`LengthOK` in the states of a chunk's size), which the test for overflow sees to; the one that the first byte of a chunk's size is
  the first one counted needs that this byte is never looked at twice (`SizeOK`).
* **Cuts.** `CutsMatterNot`: wherever the reads cut a stream, the parser and its callbacks make of its
  bytes what they make of them one at a time, for every stream and all limits; and they fail only
  where these bytes are refused one at a time, a header is too long, or something follows an upgrade.
  This last case is the one where the cuts do matter: what comes in the read that ends an upgrade is
  an error, what comes in the next one is a request. The property relates the parser's variables to
  `Reading`, with what is marked handed over; `ReadingInv` (`ReadingInvariance`) adds what a mark is
  (`PieceOK`: a name, a value or the URL is marked again by the next call; nothing is given twice)
  and that a request has the shape the callbacks expect (`RequestsOK`). Three things carry it. The
  callbacks do not see the cuts: two pieces in two calls make what they make in one (`GivenTwice`), up
  to the size of the URL's buffer, which depends on them (`Erased`), and when a piece is refused, so is
  the byte that made it too much, given alone after the others (`OneByteTooMuch`). Each action of the
  parser that goes on does what the function does for its byte, or for the byte it will look at again
  (`Follows`). Each step that fails fails where the function refuses (`Breaks`). That the function
  exists is an induction over the bytes, by sets of numbers again (`FromZeroUp`).
* **URL.** `UrlInv` (`UrlInvariance`), from which `UrlInPlace`, for a URL of any length. What
  has to be carried through the first pass is that the last NUL of the memory is not overwritten:
  the second pass goes as far as a NUL, not as far as the URL (`EndsWithNul`, `UnreadOK`). `MeansInv`
  (`MeansInvariance`), from which `UrlIsExact`: the first pass has read whole escapes and has written what
  they stand for over them (`PathOK`, where `Decoding` says what the first bytes of a URL stand
  for, one byte after the other); the second leaves a path that has no `%` as it is, so what it
  refuses lies behind the URL (`Kept`). A NUL in the path ends the second pass early and is then overwritten by
  itself; the `#` that `set_query` may find one byte behind the URL ends the query where the URL does (`QueryIs`).

Each inductive invariant was model-checked on the instances of the runs before it was proved.

Not proved, but checked by TLC:

* everything under fairness (`EveryConnectionEnds`, `EveryRequestServed`, `EventuallyFires`,
  `Returns`, `StopEndsRun`), because the prover does not handle ENABLED;
* the meaning of messages (`HeadExact`, `BodyExact`, `Framed`, `RefusesExactly`): with `CutsMatterNot` it is a
  question about a function of bytes and no longer about steps, but an induction over all that a
  message may be made of.

## Not modelled

* kqueue: the same interface as epoll; `extconf.rb` compiles one of the two, and the models follow
  epoll.
* The setters: each checks a number and stores it, before `run`; the models take the numbers as
  constants, so their theorems hold for every value a setter lets through.
* Responses in `http_parser.c` (672-886), `http_parser_parse_url`, `http_parser_pause`: the server
  calls none of them. `Init_bossan_ext`, the tables of reason phrases and of characters, and the declarations
  in headers have no behaviour of their own.
* The Ruby side of the environ: constant entries, the encoding of strings, `StringIO` or a temporary file as
  the body's store; the pointers into Ruby strings that `log_path`, `unix_sock_name` and
  `server_name` keep, which depend on Ruby's garbage collector.
* The letters of `HTTP/` and of the header names and values that the parser follows
  (`http_parser.c:1067-1138`, 1256-1345, 1451-1529): each word is one symbol, or a bad byte in its place, so
  a read cannot cut one and a wrong letter inside of one is not tried. A version has the minors 0 to 2, and a
  major of 1.
* Texts: log lines, the format of dates, status texts. A `Date` on a kept connection may lag
  behind, since only an accept and a log line update the cache.
* The Rack handler, build files, tests and examples.
* 32-bit lengths (661) and `IOV_MAX` (510): their limits are out of reach of answers that
  the models send.

## Plan

What is left to prove: what `Reading` makes of a whole message is what `HttpMessages` says of it, for every
message. TLC checks it on the messages of the `http` run.
