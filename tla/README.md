# A TLA+ model of go-tether-client

`go-tether-client` is the Go client library of the Tether daemon. It keeps almost
no state of its own: what can go wrong is in what it does with a connection. It
reads four kinds of event streams in background goroutines, sends requests over
connections that break and are reused, and turns sequences of such calls into
promises: resume without a gap, one session per key, a closed channel means the
end, a message is handled once. This directory models those parts, checks them
with TLC on small instances, and proves the safety properties of all of them with
TLAPS for every instance.

## Inventory

| Component | Source | State | Operations | What is hard |
|---|---|---|---|---|
| Channel subscription and history | `channels_client.go` | per subscription: goroutine, scanner, frame buffers, `events` (16), `errs` (1); the consumer's saved Seq | `SubscribeChannel`, `ChannelMessages` | frames cut by a disconnect, cancellation against a full channel, order of the deferred closes, resuming |
| Event stream | `events.go`, `client.go:375` | goroutine, event being assembled, unbuffered channel, one result | `StreamEvents`, `ListEvents`, `ListSessionEvents` | the cut frame is flushed; one truthful result |
| AI chat stream | `ai_stream.go` | goroutine, buffer, `eventsCh`, `errCh` | `AIChatStream` | cancellation is swallowed by `flush` and the buffer kept |
| Messaging subscription | `messaging_store.go:156` | goroutine, channel | `Subscribe` | no error channel, default line limit, synchronous connect |
| Request pipeline | `client.go:553`, `roundtrip.go`, `errors.go` | the `http.Client` and its pooled connections | every method | reuse and replay of connections, timeouts, error classes |
| Launch and resume | `client.go:106` | none; the daemon's sessions and keys | `Launch*`, `CreateSession*`, `ResumeLogicalAgent` | two calls, either of which fails; late requests; shared keys |
| Session operations | `client.go:169` | none | stop, resize, input, turn, attach, wait, reads | blocking calls and the client timeout |
| Messaging store and dispatcher | `messaging_store.go` | none; the daemon's mailboxes | `Send`, `Get`, `Inbox`, `Thread`, `Consume`, `Cancel`, `Request`, `Reply` | `Inbox` marks before it answers |
| Durable delivery | `delivery_claims.go` | the caller's lease | `ClaimMessage`, `AckMessage`, `NackMessage` | leases that expire under their holder |
| Routed replies | `reply_client.go`, `reply_delivery.go` | none | `Reply`, `ReplyDelivery` | replay by the transport |
| Credentials | `credentials.go`, `token_file_*.go` | token, origin | `New`, `readTokenFile`, `credentialTransport` | precedence, a file replaced while read, redirects |
| Bootstrap | `bootstrap.go` | the `SESSION` variable; the daemon's session rows | `ResolveSessionBootstrap`, `BootstrapSession` | several processes of a tree, offline and late registration |
| Workstreams | `workstream_client.go` | none; the daemon's workstreams | `CreateWorkstream`, `AssignSessionWorkstream`, `EnsureSessionWorkstream` | one workstream for a lineage although calls are repeated |
| Registry | `registry_client.go` | the caller's URN; the daemon's entries | `Register`, `Search`, `LookupBy`, `UpdateSelf`, `Merge`, `Deregister` | registering twice, lost updates, answers wrapped under changing keys |
| Groups | `groups_client.go` | paging cursors; the daemon's group, log and read cursors | membership, `Send`, `ListMessages`, `MarkRead` | paging boundaries, a cursor shared by devices, ambiguous mentions |
| Notify, routing, catalog, AI gateway, digests | `notify.go`, `routing_client.go`, `client.go`, `workstream_client.go` | none | one call each | |

How they interact: every method builds one HTTP request and goes through the
pipeline; streams and blocking calls use `longLivedClient`, a copy of the
`http.Client` without its 5 second timeout that shares the transport. A stream's
goroutine talks to its caller over Go channels and stops on the caller's context.
Nothing is persisted by the client; cursors, keys and leases are the caller's.

What makes each component correct, in one sentence each:

- channels: a consumer receives consecutive publications, each once, across any
  number of reconnections, and learns of every failure;
- events: no field leaks between frames, one truthful result, no event skipped;
- chat: an ordered prefix, complete if it ends without error or cancellation;
- message subscription: everything sent after `Subscribe` returned, until cancel or end;
- pipeline: a write takes effect at most once, "unreachable" means no effect,
  timeouts apply exactly where documented;
- launch: one session per key, started once, and success means started;
- delivery: a message is held by one host at a time, settled only when it was handled,
  and never lost;
- mailbox: every request is answered, cancelled or a dead letter in the end, unless
  nobody is left who can look it up;
- registry: an agent has one entry, and nobody's change is lost;
- groups: nothing is read over, posted twice without a lost answer, or stuck;
- credentials: one source wins, a failing explicit source never falls back, the
  token stays at its origin;
- bootstrap: a process tree has one identity, online or not, and a line of work
  one workstream.

The hazards behind these sentences are listed, each at its line, in `PROJECT.json`.

## Modules

| Module | Models | Extends |
|---|---|---|
| `SSEStream` | the daemon's log and frames, the connection, the scanner, the context, deferred calls | |
| `BufferedStream` | the buffered channel and the error channel of `SubscribeChannel` and `AIChatStream` | `SSEStream` |
| `ChannelStream` | `SubscribeChannel`, `ChannelMessages`, the README's consumer loop | `BufferedStream` |
| `ChannelLog` | abstract: what a durable channel promises one consumer | |
| `EventStream` | `StreamEvents`, with a consumer that resumes | `SSEStream` |
| `ChatAnswer` | what the caller of `AIChatStream` gets of one answer: `InOrder`, `NoSilentLoss` | `BufferedStream` |
| `AIChatStream` | `AIChatStream` | `ChatAnswer` |
| `MessageStream` | `httpStore.Subscribe` | `SSEStream` |
| `HTTPCall` | `doJSONAccept`, `roundTrip`, `doNoBody`, `longLivedClient`, error classes; net/http's pool and replay | |
| `KeyedLaunch` | `CreateSession*`, `LaunchSession`, `Launch*`, `ResumeLogicalAgent`, callers that retry, the daemon's keys | |
| `Credentials` | options, `resolveToken`, `readTokenFile` (unix), `configureCredentials`, `credentialTransport`; files and redirects | |
| `RoundTrip` | a call as a method's user sees it: answered, failed, failed and handled later | |
| `Mailbox` | `httpStore` and `httpDispatcher.Reply`, the claim, ack and nack cycle; an asker and the hosts of a recipient | `RoundTrip` |
| `Custody` | abstract: who may have, handle and settle a message | |
| `Registry` | `RegistryClient`; agents that start, and a curator | `RoundTrip` |
| `Groups` | `GroupsClient`, composed with the registry whose agents are its members | `Registry` |
| `SessionRows` | the daemon's sessions, their lineages and the line of work they belong to: `OneIdentity`, `OneWorkstream` | |
| `Bootstrap` | `ResolveSessionBootstrap`, `BootstrapSession` and workstream placement; a launcher, its hooks, compactions | `RoundTrip`, `SessionRows` |
| `*Proofs` | the theorems about a module: `ChannelStream` (and, instantiated as `Chat`, `AIChatStream`, which has the same variables and shares the lemmas about lines; its properties come with `ChatAnswer`), `EventStream`, `MessageStream`, `HTTPCall`, `KeyedLaunch` (and, instantiated as `Boot`, `Bootstrap`: how sessions come to be; its properties come with `SessionRows`), `Mailbox`, `Groups` (with `Registry`), `Credentials` | the module, `TLAPS` |
| `MC*` | model-checking instances | |

Operators whose comment begins with "Mutant" are wrong versions of the definition
that follows them. Nothing uses them; each is a bug that one of the properties
must detect when it replaces the right definition.

### Streams

A line of the stream is a record of its field, the publication it carries a piece
of, and which piece; text is not modelled. A publication's JSON is one `whole`
line or a `head` and a `tail`; `bad` text does not decode, `long` text exceeds the
scanner's limit, `cut` text lost its end. A Seq is modelled by the publication's
rank in the log: the client only stores Seqs and sends them back, so gaps in the
numbering are invisible to it. The daemon writes one frame when the reader has
consumed the one before, because only the order of the lines is observable. When
the body ends, cleanly or by a reset, any prefix of what was in flight reaches the
scanner, its last line possibly cut, since `bufio.ScanLines` returns an
unterminated last line as a token.

`pc` follows the goroutine: `scan` in `scanner.Scan`, `send` in the select of
`flush`, `final` and `sendFinal` for the flush after the loop, `return` while
deferred calls run one by one, `done`. `flush` is one action up to its select and
one action per case of the select; both cases are enabled when both channels are
ready. A cancelled context makes a blocked read fail at any time, also with lines
in flight. The consumer of a cancelled stream may have stopped receiving
(`reading`), or go on. In `ChannelStream`, `SubscribeChannel` and
`ChannelMessages` are also enabled for a consumer that cancelled and abandoned its
old stream; what was left in the old channel is then garbage.

### Calls

`HTTPCall` follows each call from `Do` to its return: take an idle connection or
dial, write, wait, read the header, read the body. The transport's replay rules
are part of it because the code relies on them: on a reused connection a request
of which nothing was written is always sent again, and one that was written only
if it is a GET or carries `Idempotency-Key`. `handled` counts how often the daemon
did the work, `orphans` and `sent` the copies it may still handle. The classes of
calls are reads (GET), writes, keyed replies, the dispatcher's `Request`, and
waits on `longLivedClient`. A call whose `out` is nil ignores its body; the model
lets it fail in the body too, which only adds behaviours.

### Launch and resume

A worker makes its call again after every error with nothing but its key. A call
that failed may have been lost, handled without its answer arriving, or may reach
the daemon later, also after the next attempt. The daemon is external: it binds a
key to the first request that carries it, answers 200 for the same request, 409
for another, and launches a created session once, as the comments and tests of
`client.go`, `types.go` and `idempotency_test.go` describe. The checked instance
lets the third worker conflict with the other two's key by launch or by resume,
use a key of its own, or have none.

### Credentials

`New` applies its options one per step (`ApplyOption`; `applied` counts them) and
then resolves the source in one action, because nothing else looks at it;
`readTokenFile` is one action per system call (open, stat, read), because other
processes rename, unlink, link, chmod and rewrite files in between.
`CredentialsAssumption` says what the options, origins and files given to an
instance look like. An inode is regular or a fifo, private (mode 0600 and owned by the
user) or not, and has a body: a token and the space around it, with their sizes.
Two history variables let the properties speak of the past: `bound` is what each
name has referred to, `was` the states each inode has been in. `NeverFallsBack`
says with them that a token from a file is one which the file opened there has
held, and that any other token is the one of the first source the client has.
An `http.Client` is the list of credential transports around its base transport,
so that two clients built around one caller-owned `http.Client` can be told apart.
A request makes a round trip per redirect; the servers choose where each leads.
The `readTokenFile` of other platforms always fails and is not modelled, nor are
listen addresses `transportFor` refuses.

### Sequences of calls

`Mailbox`, `Registry`, `Groups` and `Bootstrap` are about what callers achieve with
many calls, so a call is one step in `RoundTrip`: the daemon handles the request
and answers, or the method returns an error and the request is lost or stays in
`late`, from where the daemon may handle it at any later time, after the caller's
next calls too. That is what `HTTPCall` leaves a caller with. A write that a method
makes is described by a request record; the daemon's handlers (`Effect`,
`RoomEffect`) are external and follow the comments, tests and wire types of the
client.

**Mailbox.** `pc` is the call a process makes next. A host finds a request with
`Inbox` or, since `Inbox` marks what it shows, with `Thread`. `Thread` takes the
thread's ID, and `knows` has the callers that hold it in memory. All envelopes of a
behaviour are in one thread: the asker chooses its ID before it sends, `Send` leaves
`ThreadID` alone and `Reply` copies it. A host learns it from an envelope that it is
shown, by `Inbox`, `Thread` or a `Get` of what its journal names, whatever it does
with that envelope, and loses it when it dies. So a host whose only answer from
`Inbox` was lost cannot ask for the thread. `Thread`'s filter is not used. Once a
host has found a request, it claims it, writes its journal, acknowledges
`host_accepted`, answers with `Reply`, acknowledges `consumed`, or sends a nack. A
host that crashed begins with what its journal holds (`Get`). `budget` is what a
host believes is left of its lease: the duration `ClaimMessage` returned, counted
down by the same ticks as the daemon's lease. Work is assumed shorter than a lease,
and a tick during a cycle is a fault; otherwise time passes freely. The mapping to
`Custody` takes an envelope whose lease runs as held, an expired one as free, and a
request as handled when its answer is stored; `Ids` names the envelopes it looks at,
in the run all six that a behaviour can store.

**Registry and groups.** Names are not unique: the instance has two agents of one
name and of different kinds, so that a short mention becomes ambiguous when the
second registers. `unsure` and `retries` count calls whose outcome the caller never
learnt; `RegisteredOnce` and `SendsHonest` allow exactly one extra effect for each.
A device is a process that reads for a member: it gets the member's cursor from
`ListMembers`, pages with `ListMessages` and marks with `MarkRead`, while another
device of the same member does the same.

**Bootstrap.** The launcher keeps its id and repeats `ResolveSessionBootstrap`
until `Registered`; hooks resolve from `SESSION` alone and supply the native id.
Only the launcher knows the parent, and only it places the session in a workstream,
after it registered. A hook may be the first to register a session; the daemon then
learns the parent from the launcher's call. A lineage is the set of sessions connected by
parent links: those in every set that contains one of them and is closed under
links (`Linked`), which says the same as following the links to their root. A
session that is ensured joins a workstream that its lineage has; when there are
several, the client promises nothing about which, so the model allows any. A session
placed while the daemon did not know its parent's row gets a workstream of its own
(`how = "cut"`): this is what offline bootstrap costs, and `OneWorkstream` says that
nothing but this and an explicit assignment does. A cut concerns the whole lineage:
with four ids, a branch may join the workstream of a sibling that was cut, so a
statement per session, exempting only the sessions that were cut, is false.

## Runs

| Run | Shows | States |
|---|---|---|
| `ChannelStream` | `IndInv`, `NoGap`, `NoSilentFailure`, `ErrsReadyWhenEventsClose`, `CancelReleases`, and `LogSpec`, the refinement of `ChannelLog` with its delivery guarantee; start live or from zero, one over-long publication | 473 k |
| `EventStream` | `WholeExceptLast`, `OneHonestResult`, `NoSkip`, `Terminates` | 244 k |
| `AIChatStream` | `InOrder`, `NoSilentLoss`, `CancelReleases` | 226 k |
| `MessageStream` | `LiveAndContiguous`, `ClosesOnlyOnCancelOrEnd`, `SendObserved`, `CancelReleases` | 15 k |
| `MessageStreamLongLine` | finding: a long envelope closes the channel silently | |
| `HTTPCall` | `AtMostOnce`, `UnreachableMeansUnsent`, `Returns` | 646 k |
| `HTTPRequestTimeout` | finding: `Request` gives up after the client's timeout | |
| `KeyedLaunch` | `OneSessionPerKey`, `SuccessMeansStarted`, `ReplayedTellsApart`, `Converges` | 298 k |
| `Credentials` | `NeverFallsBack`, `ReadsOnlyPrivate`, `OwnToken`, `StaysHome`, `NewReturns` | 1.05 M |
| `Mailbox` | `LeaseCoversWork`, `CustodySpec` (the refinement of `Custody`), `Settles` | 407 k |
| `Groups` | `RegisteredOnce`, `UpdatesKept`, `ReadMeansFetched`, `SendsHonest`, `CatchesUp` | 197 k |
| `Bootstrap` | `OneIdentity`, `OneWorkstream`, `Rejoins` | 426 k |

### Bounds

`MaxPublished` bounds the daemon's log. Five publications let a stream deliver
one, buffer `Cap` more, go on after a full channel and meet the over-long one;
the streams with a smaller or no buffer need four. `Cap` is 1 or 2 instead of
16: a full channel is what matters, and full is reached at once. Pages of
`ListEvents` have one event, since longer ones are several. `MaxFaults`
counts noise frames, disconnections, refused connections and cancellations;
three allow a bad frame, a cut and a cancellation in one behaviour. `MaxCrashes`
counts daemon crashes and dropped connections, and two calls over one idle
connection are the smallest setting with reuse, a stale connection and a replay.
In `KeyedLaunch` two faults allow create and launch to fail in turn, or a late
request to be overtaken by its own retry. In `Credentials` two changes of the file
system swap a file and change its mode or content within one `New`, and two
redirects leave an origin and come back; a change no `New` is about to see is left
out. In the modules over `RoundTrip`, `MaxFaults` counts failed calls, crashes, delays
and whatever else interrupts, and one abandoned request at a time (`MaxLate`) can
be overtaken. Two faults in `Mailbox` let a lease run out under a host while its
acknowledgement is late, or the answers of two calls be lost, and two hosts contend for one request; leases of one tick,
defaulted or asked longer than granted. Two faults and three ids in `Bootstrap` let
a registration fail, or arrive late, in each of two compactions. `Groups` has one
fault over eleven kinds of calls, two devices and pages of one message, so that
every page boundary is met. Deadlock is not checked because every
bounded system stops when its bounds are used up.

### Fairness

- A goroutine that can take a step eventually does (`WF` of `Goroutine`, of
  `Local` in `HTTPCall`, of `Worker` in `KeyedLaunch`): Go's scheduler and
  timers guarantee it. In `Credentials`, `WF` of `Construct`: system calls on
  local files return, which for a fifo is what `O_NONBLOCK` is for.
- The consumer goes on receiving while it has not stopped (`Receive`) and
  subscribes again after every end (`SubscribeChannel`): the loop the README of
  the library prescribes. `CancelReleases` does not depend on it, because a
  consumer that stopped receiving is not subject to it.
- The daemon writes what it has (`WritePublication`, `WriteEnvelope`) and handles
  what reached it (`KeyedLaunch`): assumed only for the properties that promise
  delivery or convergence. `Terminates`, `Returns` and `CancelReleases` of the
  other modules assume nothing of the daemon, which may hang in mid-answer.

- Callers that repeat a call until it is answered do so (`AskerStep`, `HostStep`,
  `Registering`, `Launch`, `Place`, the devices' calls, `Spawn`), and calls stop
  failing because faults are bounded: `Settles`, `CatchesUp` and `Rejoins` say what
  retrying achieves once the daemon is there. Crashed processes are restarted.
- `SF` of `Tick(TRUE)` in `Mailbox`: time passes again and again between cycles,
  even if hosts keep starting new ones. `SF` of `Hook(h, TRUE)` in `Bootstrap`:
  hooks with a client are run again and again, even if others have none.

## Proofs

The theorems hold for every value of the constants that satisfies the named
assumptions of the modules, which only say that bounds and capacities are numbers,
that a lease or page is at least one long, who is among whom, and of what shape
options, origins and files are. TLC evaluates them in the runs. Each subject has an
inductive invariant (`IndInv`, `ChatIndInv`, `BootIndInv`), which TLC also checked on
the instances of the runs. A proof module proves that the initial states satisfy it
and, with a lemma per action, that
every step keeps it (`Invariance`), and derives the properties.

| Module | Theorem | Statement |
|---|---|---|
| `ChannelStreamProofs` | `GapFree` | `Spec => []NoGap` |
| | `FailuresReported` | `Spec => []NoSilentFailure` |
| | `ErrsFirst` | `Spec => []ErrsReadyWhenEventsClose` |
| | `Refinement` | `Spec => LogSafe`: subscribing, paging, cancelling and reconnecting implement `ChannelLog` |
| | `ChatInOrder` | `Chat!Spec => []InOrder` |
| | `ChatNoSilentLoss` | `Chat!Spec => []NoSilentLoss` |
| | `ChatTypeCorrect` | `Chat!Spec => []Chat!TypeOK`, with it that `errs` holds one report at most |
| `EventStreamProofs` | `EventsAreWhole` | `Spec => []WholeExceptLast` |
| | `ResultIsHonest` | `Spec => []OneHonestResult` |
| | `NeverSkips` | `Spec => NoSkip`, an action property |
| `MessageStreamProofs` | `DeliversInOrder` | `Spec => []LiveAndContiguous` |
| | `ClosesForAReason` | `Spec => []ClosesFor`: cancelled, ended, or an over-long envelope |
| | `ClosesAsPromised` | `Spec => []ClosesOnlyOnCancelOrEnd` if no envelope is over-long |
| `HTTPCallProofs` | `ReachesAtMostOnce` | `Spec => []AtMostOnce` |
| | `UnreachableIsSafe` | `Spec => []UnreachableMeansUnsent` |
| `KeyedLaunchProofs` | `KeysAreUnique` | `Spec => []OneSessionPerKey` |
| | `SuccessIsStarted` | `Spec => []SuccessMeansStarted` |
| | `ReplayedIsHonest` | `Spec => []ReplayedTellsApart` |
| | `OnlyIdentity` | `Boot!Spec => []OneIdentity` |
| | `LineSharesWorkstream` | `Boot!Spec => []OneWorkstream` |
| `MailboxProofs` | `LeasesCoverWork` | `Spec => []LeaseCoversWork` |
| | `WorkAlone` | `Spec => []Alone`: no two hosts have time left on one unsettled message |
| | `KeepsCustody` | `Spec => CustodySpec`: the mailbox implements `Custody` |
| `GroupsProofs` | `RegistersOnce` | `Spec => []RegisteredOnce` |
| | `KeepsUpdates` | `Spec => []UpdatesKept` |
| | `ReadIsFetched` | `Spec => []ReadMeansFetched` |
| | `SendIsHonest` | `Spec => []SendsHonest` |
| `CredentialsProofs` | `ExplicitSourceOnly` | `Spec => []NeverFallsBack` |
| | `PrivateFilesOnly` | `Spec => []ReadsOnlyPrivate` |
| | `OwnTokenOnly` | `Spec => []OwnToken` |
| | `HomeOnly` | `Spec => []StaysHome` |
| | `CallersClientUntouched` | the caller's `http.Client` is never wrapped, and no step changes the token, origin or transport of a client that is built |
| | `TypeCorrect` | `Spec => []TypeOK` |

### The invariants, and why they are needed

**ChannelStream.** `NoGap` speaks of what the consumer received and is not
inductive: the next message comes from the channel, what enters the channel comes
from the frame buffer, and that from the wire. `IndInv` follows a publication
along that path:

- `RunInv`: where the goroutine is determines which deferred calls are left and
  whether an error has been reported;
- `FrameInv`: pieces in flight and in the buffer belong to the last publication
  written, a blank line can only be the last line in flight, and between frames
  the buffers are empty, so that a complete frame decodes to its publication;
- `FrontierInv`: the publication on its way, or else the next one the daemon
  writes, is the successor of the last one in the channel or with the consumer;
- `BufferInv`: the channel's contents continue what the consumer has, unless it
  has abandoned the stream;
- `CursorInv`: the consumer's cursor, its history and the log agree.

The refinement maps `published` and `got` to themselves and the log's `position`
to the consumer's cursor: `Receive` and `ChannelMessages` are `Deliver` steps or
stutter, `Publish` is `Publish`, everything else stutters.

**EventStream.** The frame that a clean end cuts is handed over, so the argument
has to follow what a cut may leave. `FrameSeq` is the Seq of the frame being read,
whether its id line is still in flight or already taken. `LinesInv`: the lines in
flight are the rest of one frame, id first, event line before the data, data with
the frame's Seq, and only a last line is cut. `KindInv`: the data on its way fits the
Kind of its frame, whether the event line was read or is still in flight. `DataInv`:
what was read has that Seq and Kind too, and an event that waits to be sent from the
loop is whole. `OrderInv`: what was handed over is numbered in order, without a gap,
up to the frame being read (`UpTo`). `SeqInv`:
`FrameSeq` is below what the daemon writes next, and at most one beyond what the
consumer has seen; a cut id only makes it smaller. This is what makes resuming
from a cut id harmless, and `NoSkip` is read off the steps that change `seen`.

**AIChatStream.** The parts are those of `ChannelStream`'s invariant, with one
difference that the proof turns on: a cancelled `flush` keeps the buffer and the loop
goes on. So after a cancellation the buffer may hold pieces of several events, and
only order can be kept (`ChatOrderInv`: whatever is buffered or in flight comes after
everything sent, and below what the daemon writes next), while before it everything
up to the event in flight was sent, and a piece of that one is still on its way
(`ChatFrontierInv`). `ChatInOrder` needs the first always and the second until the
cancellation; `ChatNoSilentLoss` adds that a loop which ends without an error and
without a cancellation saw the end of the body (`ChatRunInv`).

**MessageStream.** At most one envelope is between the wire and the channel, and it
is the one the caller is to see next (`FlightInv`); an over-long line in flight
(`Stuck`) is the only other reason for the loop to end. That the scanner's limit
is such a reason is theorem `ClosesForAReason`; that it is the only one the comment
of `Subscribe` leaves out is theorem `ClosesAsPromised`.

**HTTPCall.** `Careful(c)` holds of every call the transport may not replay: until
its request is written no copy exists, then one copy exists, at the daemon, on the
wire or abandoned, and only that one brings an answer. The cases are the failures
before, during and after the write on a fresh and on a reused connection.

**KeyedLaunch.** The daemon's promise, a key is bound to the first request, is
external; what is proved is what the client's two-call `Launch` makes of it. A
request in flight asks for its worker's job, a launch names a session of that job
(`RequestsHonest`), and a route is sent once by an attempt (`SentOnce`).
`ReplayedTellsApart` needs most of it: an attempt that has not sent its launch has
started nothing (`BeforeStart`), and one whose launch is still in flight has not
either (`NotStarted`), however late earlier attempts arrive.

**Bootstrap.** `BootIndInv` has a part for the daemon, for its rows, the requests on
their way and the launcher's `line`, and one for the launcher and its hooks.
`Honest`, with `Asked` for late requests, is `OneIdentity` and what keeps it so: only
ids that a launcher ran under are ever asked for, and a row never names a parent that
is not its line's. `OneWorkstream` has to survive a link between two lineages that
were placed apart. `Waits` is what makes it: a lineage with a session whose parent link is still
missing has no workstream, unless one of its sessions was cut or moved. Hence of the
two sides of a new link the lower one has no workstream yet or is exempt. That a
lineage has one session without a parent link (`OneOrigin`) would be an induction
along the links; it is proved instead from the linked sets themselves: what descends
from such a session is a linked set, and one that contains no other such session.

**Mailbox.** `Covered` strengthens `LeaseCoversWork` by what survives a redrive: a
message under a live lease is leased or accepted, by that claim number, and for at
least as long as the host believes. It takes `LeasesDiffer` (a claim number belongs
to one host) and `LateOK`: a late acknowledgement or nack names a claim that is not
in use by a host at work. The refinement maps an envelope whose lease runs to one
that is held, an expired one to a free one, and its steps are the handlers: a claim
is `Custody`'s take, an acknowledgement `consumed` its settling, and the handler's
check of the claim number is what keeps a late one from settling another's message.

**Groups and Registry.** `RegisteredOnce` and `SendsHonest` count: entries in the
registry plus registrations still on their way are at most one more than the
answers lost (`OnceOK`), and the same for messages and posts (`PostOK`). For
`ReadMeansFetched`, a device has fetched everything below its page and up to its
mark (`DeviceOK`), and so has every mark that is still on its way (`LateOK`).

**Credentials.** `OptionsInv` describes the loop over the options by how far it has
come: the flags and the path it has set are those of an option already applied.
`SourceInv` says which sources a client may use where it is, that the file it has open
has been at its path (`bound`), and, by `Sourced`, whose token it has when it is built;
`PrivateInv` that a file whose check was passed had been private (`was`). Both follow
names and inodes through every change by what histories only gain. For requests, `TransportInv` says that the
layers around a built client are its own single one or none, which needs that the
caller's `http.Client` has none at all times: otherwise a client built around it
later would inherit another's token. `SentInv` is then `OwnToken` and `StaysHome`
for requests of the past, which hold on because a built client does not change any
more. That last fact is theorem `CallersClientUntouched`.

### Only model-checked

- Liveness (`CancelReleases`, `Terminates`, `Returns`, `SendObserved`, `Converges`,
  `NewReturns`, `Settles`, `CatchesUp`, `Rejoins`, the fair part of `LogSpec`)
  needs fairness and `ENABLED`, which the prover does not handle.

Every invariant and safety refinement that a passing run checks is proved. The two
findings are counterexamples of TLC.

## Findings

1. `Request` (`messaging_store.go:230`) runs on the client with the 5 second
   timeout although it is documented to block until its context expires
   (`HTTPRequestTimeout`).
2. `Subscribe` (`messaging_store.go:193`) keeps the scanner's 64 KiB limit and
   ignores its error: a longer envelope closes the channel without a trace
   (`MessageStreamLongLine`).

## Observations

Not errors, but what a user of the library should know, and what the models showed:

- A `Reply` with an idempotency key (`reply_client.go:62`) is replayed by `net/http`
  on a new connection when a reused one fails before the answer, although the
  method itself "never retries": the header opts in to it. The daemon's key makes
  the second a duplicate, but `ErrDaemonUnreachable` does not mean "not handled"
  for such a call; `AtMostOnce` and `UnreachableMeansUnsent` exclude it.
- An envelope that `Inbox` returned to a lost answer is shown by no later `Inbox`.
  `Get` needs its ID and `Thread` the ID of its thread, which a host that saw
  nothing of the thread does not have, and both need `WithSelfURN`. Such a request
  stays unsettled until somebody who knows one of the IDs looks, or the asker, who
  sees no answer, cancels it. `Settles` states exactly this exception (`OutOfSight`);
  without it TLC finds it violated.
- When a body ends cleanly inside a frame, `StreamEvents` hands over what it has. An
  event without payload may so carry a whole id, and the consumer resumes behind it:
  its payload is never delivered. `NoSkip` is about Seqs only, and `WholeExceptLast`
  says that no event but the last of such a call is concerned. A consumer that needs
  the payload has to check for an empty one before it moves its cursor.
- A host must count its lease from before it sent the claim, and from the duration
  the daemon granted, not from `LeaseSeconds`.
- `Register` and group `Send` have no idempotency key: each answer that is lost may
  leave one more entry or message.

## Not modelled

Query strings, URL escaping, JSON layouts and error wording; the filters of the
streams, which the daemon applies; argument checks that return before any effect;
the `Last` option of `ChannelMessages`; requests that cannot be built
(`json.Marshal` or `NewRequestWithContext` failing). Notifications, routing
capabilities, catalog, digests and AI gateway reads are single calls without client
state, as are `Lookup`, `ListForMember`, `Mentions` and `ReplyDelivery`; `HTTPCall`
covers their behaviour. `Sync` refreshes an entry in the daemon and tells which of
two shapes the answer had. `AttachSession` copies one response to a writer; its
caller learns no position in the output, so there is nothing to resume from.
Type invariants are part of the inductive invariants; the runs check the one of
`ChannelStream` with `IndInv`, the others are proved.

## Limits

What would extend the project is on the side of the model, not of the proofs: the
wire types, of which only the fields that decide something are in it, and the calls
without client state listed above.
