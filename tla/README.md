# tmux-adapter: TLA+ models, checks and proofs

The repository holds two Go services built from shared packages:

- **tmux-adapter** (`src/main.go`, `internal/adapter`, `internal/wsadapter`): gives
  WebSocket clients the list of coding agents that run in tmux sessions, their
  terminal output as bytes, and ways to type into them.
- **tmux-converter** (`src/cmd/tmux-converter`, `internal/converter`, `internal/wsconv`,
  `internal/conv`): gives clients the agents' conversations, read from the files the
  agents write, as structured events.

Both keep one control-mode connection to tmux (`internal/tmux/control.go`) and one
agent registry on top of it (`internal/agents/registry.go`). Everything that is hard
here is concurrent: goroutines that meet in mutexes and bounded channels, objects that
are replaced while another goroutine holds the old one, events sent after the lock that
ordered them was released, and external processes (tmux, the agents, the clients) that
change at any moment. The modules model that control and abstract the data.

## 1. Inventory

| Component | State | Operations | Hard parts | Module |
|---|---|---|---|---|
| tmux connection, `internal/tmux/control.go` | `execMu`, `responseCh`, `notifications`, `done`/`closing`, `readLoop`'s position | `Execute`, `readLoop`, `Close` | matching responses to commands by order only; timeouts; a full notifications channel; Close at any moment | `ControlMode` |
| Agent registry, `internal/agents/registry.go` | `agents`, `events`, the scan in progress | `Start`, `scan`, `watchLoop`, `Stop` | a scan is several commands while tmux changes; events are sent after unlocking | `Registry` (over `ControlMode`) |
| Conversation buffer, `internal/conv/buffer.go` | ring, `nextSeq`, subscribers and their channels | `Append`, `Snapshot`, `Subscribe`, `Unsubscribe`, `MinSeq`, `EventsSince` | no gap between snapshot and stream; overflow; resuming; closed channels | `ConversationBuffer` |
| Conversation watcher, `internal/conv/watcher.go` | `streams`, `activeByAgent`, directory watchers, `events` | `Start`, `watchLoop`, `startWatching`, `discoverAndTail`, `startConversationStream`, `stopWatching`, `watchDirectoryLoop`, `retryDiscovery` | discoveries of one agent overtake each other, and outlive its removal | `ConversationWatcher` |
| Converter server, `internal/wsconv/server.go` | `clients`, `subs`, `follows`, stream goroutines | `follow-agent`, `subscribe-conversation`, `unsubscribe`, `unsubscribe-agent`, disconnect, `Broadcast` | the watcher's objects change between two calls; a switch of conversation; cancelled goroutines that still run | `ConverterServer` (over `ConversationWatcher`) |
| Pipe-pane manager, `internal/tmux/pipepane.go` | `streams`, subscriber numbers and channels, the pipe file | `Subscribe`, `Unsubscribe`, `StopAll`, `tailFile` | first and last subscriber race; numbers restart with a new stream; slow readers | `OutputStreams` |
| Adapter server, `internal/wsadapter` | `clients`, `outputSubs`, `agentSub`, send channels | `subscribe-output`, `unsubscribe-output`, `subscribe-agents`, `list-agents`, broadcasts, prompts, keys, uploads, `Close`, `CloseAll` | a handler lets go of `c.mu` three times; Close by Stop in between; a list is made, and events are sent, by two goroutines; a queue that is full | `OutputStreams` (output), `AgentFeed` (agents), `AgentPane` (input) |
| Prompter and input, `internal/agentio`, `internal/tmux/commands.go` | a lock per agent and service; the pane's input box and the window's size are tmux's | `SendPrompt` (text, Escape, Enter with retries, resize to wake), file upload, keys, resize, `ForceRedraw` | several commands per request, each of which can fail or time out; input that takes no lock | `AgentPane` |
| File tailer, `internal/conv/tailer.go` | offset, the scanner, the channel of lines | `tailLoop`, `readNewData`, `Stop` | a file that is written and truncated during a read; a full channel; Stop while sending | `Tailer`, which implements `LineStream` |
| Detection, parser, frame codec, auth | none | pure functions | - | not modelled |
| Web components, `src/web` | what they show | rendering | single-threaded | not modelled |

How they interact: the registry's `watchLoop` reads `notifications` and runs `scan`,
which calls `Execute`; `readLoop` feeds both channels. The registry's `events` are read
by `forwardEvents` (adapter) or by the watcher's `watchLoop` (converter). The watcher
starts one tailer and one `pumpFileStream` per file, which appends to that stream's
buffer; its own `events` are read by the server's `Broadcast`, which subscribes and
unsubscribes clients' follows at the buffers. In the adapter the clients' handlers call
the pipe-pane manager, which calls `Execute` while it holds its mutex; their prompts and
uploads each get a goroutine, which calls `Execute` while it holds the agent's lock.

What makes each component correct is stated by the properties of section 3. The hazards,
each at its line, and the properties that would catch them are in `PROJECT.json`.

## 2. Modules and the code

One mutex hold is one step unless something another goroutine can see happens inside it;
a blocking send or receive, a scan of a directory and an `Execute` are steps of their
own. Comments at the head of each module name its processes, the granularity and what it
takes as external. A definition whose comment says "Mutant of" is not part of the model:
it is a plausible bug in the definition it names, and shows that the property it belongs
to depends on that code.

- **`ConversationBuffer`** - `events` is the ring, `subs` every subscription with its
  channel. `AppendEvent` (`Evicted`, `Offer`), `Subscribe`, `Unsubscribe`, `Receive`.
  History: `log`, and per subscription its snapshot, what it got and what was dropped.
  Payloads are left out; filters see only types.
- **`ConversationWatcher`** - `present` and `regEvents` are the registry as the watcher
  sees it, `disk` the files with their modification times, of which the newest is the one
  that is streamed (`CreateFile`, `WriteFile`), `dirWatch` the fsnotify events not yet
  read, `streams` and `active` the two maps, `pool` every stream object ever made, `loop` the
  watchLoop and `workers` the discovery goroutines with their program counters. Watching
  the directories is two steps, since between `watcher.Add` and the swap under `w.mu` the
  old and the new directory watcher both see a file (`Watch`, `Swap`). Replaced
  stream objects stay in `pool` because goroutines still hold them; `late` in them is
  history (`Overtaken`).
- **`ConverterServer`** - extends the watcher; `Broadcast` takes the place of the
  watcher's reader. `subs`, `follows` as in the code, `handler` and `bcast` program
  counters, `gos` the live-stream goroutines, `view` what the client was told. Buffers
  are cut down to what they send: a number per event, and per subscriber the channel and
  what it dropped (`Offered`), as in `ConversationBuffer`; filters and eviction are left
  out. `StreamDrop` is a full queue to the client (`Client.sendJSON`).
- **`ControlMode`** - `callers` the goroutines in `Execute`, `reader` the `readLoop`,
  `stdin`/`stdout` the pipes to tmux with what has not been read, `closer` the three
  steps of Close. What commands ask and how tmux answers are parameters. It has no run
  of its own: `Registry` runs it with the commands the code sends.
- **`Registry`** - extends it; `status`, `attached` are tmux, `scan` the scanning
  goroutine, `agents`, `pending`, `regEvents` as in the code, `view` the reader of the
  events, `was` the history of each session during a scan. A client's goroutine shares
  the connection (`ClientCalls`).
- **`OutputStreams`** - `pipe` is what tmux pipes, `streams` every stream made with its
  subscribers, `current` the manager's map, `held` the clients' `outputSubs`, `handler`
  the read pumps with a subscription in hand, `closer` who is in `Close` of a client
  (and holds its mutex), `stop` the shutdown. tmux's `pipe-pane -o` is external: on a
  pane that has a pipe it closes it. A `pipe-pane` on a session in `Unreliable` may be
  carried out and answered with an error, or the other way round (a time-out, or the
  answer of a command that had one); `astray` is history: the sessions where that was so.
- **`AgentPane`** - `jobs` the goroutine of each prompt and upload, `locks` the prompters'
  locks (the adapter and the converter have a prompter each), `viewers` the read pumps
  that type keys, resize and redraw; one `Execute` is one step, which may fail or time
  out as often as `faults` allows. The pane is external: `box` is what has been typed
  into its input box, `entered` what has been submitted, `erased` (history) whose text
  keys have deleted (BSpace, control bytes), `height` the window. `conn`
  says whether a connection's answers are in step; the module takes from `ControlMode`
  that they are until a command times out (`AnswersMatchUntilTimeout`).
- **`LineStream`** and **`Tailer`** - what a tailer promises, and the tailer: the first
  has the lines that were written, those that may be lost and those that were emitted,
  and four actions. In the second `file` is external and a sequence of fragments, `pos`,
  `buf` and `acc` are the scanner (`Fill` reads, `Scan` splits), `offset` and `sent` are
  the tailer's. `LS` in `Tailer` is the refinement mapping: the history variables
  `written` and `lost`, the channel and `stopped`.
- **`AgentFeed`** - `agents`, `pending` and `events` are the registry, `cast` the
  broadcast under `Server.mu`, `members`, `agentSub`, `pump` and `send` the clients, and
  `view` what a client makes of what it gets, as the sample page does. How a scan finds
  agents is left to `Registry`.

`MC*.tla` give the constants that a `.cfg` cannot write; the `.cfg` files are the
instances. `*_proofs.tla` hold the theorems.

## 3. Runs

| Run | What it checks | Instance, and why it is enough |
|---|---|---|
| `buffer` | `WindowIsTailOfLog`, `SnapshotMeetsStream`, `InOrder`, `FirstEventsNeverDropped`, `ResumeIsExact`, `ClosedStaysClosed` | Ring of 2, channel of 2, 4 events, 2 subscriptions: the ring evicts, channels fill, and a filter skips events; `EventsSince` is asked for every number from before the first to after the last. The theorems lift it to all sizes. |
| `watcher` | `NoOrphanTailer`, `LateFileIsStreamed` | One agent, present at start, removed and added; a main file and a subagent's, which cannot always be opened; 2 concurrent discoveries, so that a file is created while two directory watchers see it; one write to a file that is not the newest; events channel of 1, so that senders block. |
| `server` | `FollowsMatchSubs`, `FollowerTracksActive`, `NobodyElseDetaches`, `ConversationIsExact` | An agent present at start, which the watcher discovers twice, one discovery at a time (two at once are in the next two runs), 2 conversations of which either discovery may take either (equal modification times, so they are symmetric), 1 client with 2 subscriptions, 2 lines in all and channels of 1: a switch in the middle of each handler, a channel and a queue that are full, two events of one conversation of which the first, the second or both are dropped, an event in the hands of a goroutine that was cancelled, and a buffer that is replaced under a follow and under a subscription. The theorems lift all five to all sizes, and all but `FollowerTracksActive`, which ends with the first removal, to agents that go and come back. |
| `server_pending` | `PendingFollowIsWoken`, `MainStreamIsActive`, `PendingFollowIsServed` | Agent added, removed and added again; 2 conversations that are there from the start, and one write, after which the other is the newest: two discoveries at a time install them in any order. |
| `server_overtaken` | `FollowerAlwaysTracksActive`, violated | Two discoveries at a time and a third conversation: the smallest instance in which two switches meet. |
| `control` | `AnswersMatchUntilTimeout`, `EventsTellTheMap`, `ScanIsJustified`, `ExecuteReturns`, `ReadersCatchUp` | One session, the scan and a client's goroutine, 2 changes of tmux, channels of 1, so that `readLoop` and `scan` block; Close and Stop at any moment. tmux is never slower than `executeTimeout` here (`SlowTmux`), so a timeout means that `readLoop` is stuck or has ended at a line it cannot read, with tmux running; and tmux ends only as Close waits for it (`TmuxMayDie`). `control_late` has the slow tmux. |
| `output` | `DeliveredOnce`, `PipeFollowsSubscribers`, `SubscriptionsAreHeld`, `GoneHoldsNothing` | 2 clients, one session, 3 subscriptions (one replaced while the other client holds one), 2 bytes and a channel of 1 (it fills), a pane that ends and starts, disconnects, Stop, and any `pipe-pane` may fail or be answered wrongly. Clients are alike (`ClientSymmetry`), and a subscription is out of sight once its channel is closed (`WithoutClosed`). Sessions share nothing but the mutex, so one is enough. |
| `pane` | `PromptsDontMix`, `OkIsEntered`, `WindowRestored`, `RequestsAreAnswered` | 2 prompts through one service, an upload through the other, 2 viewers. `SmallLoads` is a set of initial workloads instead of one large one: all three requests; two prompts and a key; a prompt, an upload and a key; a prompt, a key and a fault; one prompt with 2 faults, so that two of the three tries of Enter may fail; viewers alone, with 3 requests and a fault, so that redraws overlap and a resize comes between. |
| `tailer` | `ImplementsLineStream`, `EachLineArrives` | 4 fragments, one truncation, a channel of 1: a line in two parts across two reads, a file truncated and grown past the offset again, a line that is too long with another behind it, a read given up by Stop, and by Stop only, when the reader has stopped receiving. The theorem lifts the refinement to all sizes; its invariant was also checked with 5 fragments and 2 truncations. |
| `feed` | `NoChangeIsMissed`, `FollowersCatchUp` | One agent (agents share nothing but the queues), 2 scans that find a change, 2 clients of which one may stop reading, queues of 1: the registry waits for the broadcast, a client's queue is full. |

`watcher_removed` and `control_late` are instances of the same modules, as small as the
violation allows.

One run of each module also checks its type invariant, which bounds the channels.
The bounds are constants in the guards: `Max...`,
`Workers` (discoveries at a time). Deadlock is not checked: with its bounds used up
every system here comes to rest, and a service that nobody calls is at rest too. What
must not get stuck is stated as a liveness property instead.

### Where the code does not do what is said of it

Three runs expect a violation; each checks one property that quotes the statement.

- `control_late` (`AnswersMatch`): after `executeTimeout`, the late response is taken for
  the next command's. `AnswersMatchUntilTimeout` is what does hold.
- `watcher_removed` (`RemovedAgentIsStopped`): `stopWatching` returns early without an
  active conversation, and a discovery in flight installs streams of a removed agent.
- `server_overtaken` (`FollowerAlwaysTracksActive`): `startConversationStream` emits its
  event after it has released `w.mu` (`watcher.go:290`), so that of two discoveries the
  later switch may be sent first. The follow goes to the newest conversation, and then,
  with the older event, is taken off it for one whose stream is gone: it stays without a
  goroutine, and nothing is left to move it. `FollowerTracksActive` is what does hold:
  the history field `late` of a stream object says that its event was sent after that of
  a later one of the same agent, and `InOrder` that there is none.

Others were met while reading and are carved out of the properties by name:

- An agent present at start is discovered twice, by `Start` and by its added event, and
  the second discovery replaces the buffer of its conversation. A follow stays on the
  first buffer, since the started event is ignored by a follow that has a conversation;
  and subscriber numbers restart in the new one, so that `unsubscribe` by number closes
  another subscription's channel (`StreamedOnce` in `AtRestOnAgent` and
  `NobodyElseDetaches`).
- An agent that ends and comes back with another conversation loses its followers: the
  removal clears the active conversation, so the new one is announced as started and not
  as switched, and a follow that still has the old one ignores it (`server.go:585`;
  tmux-converter.md:697 has a follow on "whichever conversation the agent is currently
  running"). `removes = 0` in `AtRestOnAgent`; without it, TLC finds this as soon as
  an agent may be removed and added again.
- `buffer.go:120` has `EventsSince` return nil if `afterSeq` "is no longer in buffer", and
  tmux-converter.md:747 a gap if the event of the cursor is not in it. The code says ok
  for `afterSeq = minSeq-1`, whose event was evicted, and for any number while the buffer
  is empty (`buffer.go:125`, `:130`). No event is missed by it: `ResumeIsExact` states what
  the code does, that it reports a gap exactly if an event after `afterSeq` was evicted,
  and the mutant `EventsSinceLax` is an edge set one too low.
- Live events are dropped without a word at a full channel (`buffer.go:58`) and at a full
  client queue (`server.go:227`); tmux-converter.md's `stream-gap` for a slow consumer is not
  sent. `ConversationIsExact` allows exactly these (`lost`); without them a subscriber gets
  all.
- A cancelled stream goroutine still sends an event of the old conversation after the
  switch marker, or under the new conversation's ID (`server.go:688`).
- `tailer.go:18` promises complete lines, but `partial` is never assigned: what is left of
  a line at the end of a read is sent as a line, and so is the rest, by the next read. A
  file that is truncated and grows past the old offset before the next look is read from
  the middle. A line longer than 2 MB ends the read, and its rest is sent as a line. `lost` in `Tailer` has
  exactly the lines that this happens to; after `Stop` lines may be sent again.
- A prompt of several lines is written to tmux as several commands (`commands.go:360`):
  it does not arrive, and the answers of the connection are out of step from then on.
- A prompt whose Escape or Enter failed leaves its text in the input box, where the next
  prompt submits it too (`PromptsDontMix` allows it for a prompt reported as failed); an
  Enter that timed out may have been carried out (`OkIsEntered` leaves it out).
- The locks are per service, and keys typed by a client take none: text of the other
  service's prompts and of keyboards can get into a prompt, and a client's BSpace or
  control byte can delete a part of it (`erased` in `OkIsEntered`). Two redraws at a time, or a
  resize during one, can leave another height (`disturbed` in `WindowRestored`).
- `subscribe-agents` sets its flag, makes the list and sends it: an event that is
  broadcast between the last two overtakes the list that does not have it
  (`overtaken` in `NoChangeIsMissed`). A client's full queue drops messages for good
  (`dropped`). The adapter's write pump has no timeout, so that a client that does not
  read keeps its goroutine.
- Two discoveries of an agent may install in the opposite order of their scans, so the
  older conversation stays active (`watcher.go:221`); and an agent that takes up an older
  conversation is not followed to it until something else leads to a discovery, since
  only Create events do (`watcher.go:401`; `WriteFile` in the model).
- A session whose pane ended and started again keeps its stream without a pipe; who
  subscribes then gets nothing (`streams[i].cut` in `PipeFollowsSubscribers`).
- `pipe-pane -o` turns a pipe that a crashed adapter left off instead of on (`Leftover`).
- A `pipe-pane` that times out may have been carried out. `Subscribe` then returns an
  error with the pipe on (`pipepane.go:68`), and the next first subscriber turns it off;
  `stopStream` only logs, and the pipe may stay on without a stream (`:127`). A late answer
  may also be taken for that of a `pipe-pane` that tmux refused. `PipeFollowsSubscribers`
  leaves such a session out (`astray`) until a stop of its pipe is carried out.
- A `subscribe-output` that waits for the manager's mutex during `StopAll` starts a pipe
  that nobody stops (`PipeFollowsSubscribers` allows it once Stop has closed the
  connection; comment at `pipepane.go:114`).
- With more agents than the events channel holds, `Registry.Start` never returns, since
  its reader starts after it (`registry.go:222`).
- A full cycle `Broadcast` -> a client's mutex held by `Close` -> `Execute` -> `readLoop`
  -> `notifications` -> `watchLoop` -> `events` -> `Broadcast` ends only by
  `executeTimeout`.
- Attaching to a session is no notification the registry scans on (README.md:168); a
  program that restarts between two scans is not reported (adapter-api.md:285); the
  snapshot frame of README.md:316 is a clear-screen; a lost tmux connection is not made
  again (tmux-converter.md:801).

## 4. Fairness

Safety properties assume none. `watcher` and `server_pending` assume that goroutines of
the service that can go on do so: watchLoop, directory watchers, discoveries, the
handler's second half, Broadcast. Clients, agents and files have no fairness: they need
never act. `control` assumes the same of `readLoop`, `scan`, `watchLoop` and the events'
reader, that timers fire, and that tmux answers a command it has read; strong fairness
is used once, for taking `execMu`, because Go's mutex hands itself to a waiter that has
starved for a millisecond, and the same is assumed of the agents' locks in `pane`, where
each goroutine that can go on does so. `tailer` assumes the ticker and the scanner, strong
fairness for leaving (a `select` of which `ctx.Done()` is ready time and again takes it
some time), and that the reader
receives until Stop; afterwards it may be gone, and a tailer in the middle of a send must
end all the same. `feed` assumes the registry's sender, the broadcast and the
handlers, and the write pump of each client but those in `Slow`, whose connections may
never take a message: no other goroutine may depend on them. `ExecuteReturns` needs both: tmux's answer, and the timer
for the case that `readLoop` waits for a reader of notifications who waits for it. `ReadersCatchUp` leaves out runs with a timeout, since a
failed query makes an agent look gone until the next notification.

## 5. Proofs

Each theorem holds for all values of the constants that satisfy the named `ASSUME`s
(`BufferAssumption`, `WatcherAssumption`, `ControlAssumption`, `RegistryAssumption`,
`PaneAssumption`, `TailerAssumption`, `OutputAssumption`, `ServerAssumption`,
`FeedAssumption`):
capacities are positive, sets of agents and files finite where an initial sequence is
made of them, `None` and `Failed` different from everything else. TLC evaluates the
assumptions on every run.

- **`ConversationBuffer_proofs`**: `BufferTypes`, `WindowTheorem`, `GapFreedom`,
  `DeliveryInOrder`, `DropsNeedBacklog`, `ResumeTheorem`, `NoSendAfterClose`, all from
  the inductive invariant `BufferInv`: the ring holds exactly the sequence numbers up to
  `nextSeq` (`RingOK`), and per subscription the snapshot, the channel, what was read and
  what was dropped partition the matching events (`SubOK`). The properties themselves are
  not inductive: a send needs to know that everything in the channel is older than the
  next number.
- **`ConversationWatcher_proofs`**: `WatcherTypes`, `MapsAgree` (`MainStreamIsActive`)
  and `ReplacedTailersStop` (`NoOrphanTailer`) from `WatcherInv`, which adds that a main
  stream is installed only with its agent's entry, and what the watchLoop and each
  discovery have in hand between two holds of `w.mu`.
- **`Registry_proofs`**, of the connection alone: `TypeCorrect`, `InvariantHolds` and
  `AnswersMatchHolds` from `ControlInv`: `execMu` has one owner (`LockOK`), the attach's response is first and
  not passed on (`AttachOK`), and until something times out the one response on its way -
  in tmux, in the output, in `readLoop` or in `responseCh` - is that of the goroutine that
  waits, and there is none if nobody waits (`FlightOK`). Without the last part the property
  is not inductive: a response left behind by an earlier command would go to the next.
- **`Registry_proofs`**, of the two: `RegistryUsesControlMode` shows that every step of the registry
  is a step of `ControlMode` or leaves the connection alone, so that `Registry`
  implements it; `RegistryAnswersMatch` carries the connection's theorem over.
  `RegistryTypes`, `EventsTell` (`EventsTellTheMap`) and `ScanJustified`
  (`ScanIsJustified`) follow from `RegistryInv`. That the events tell the map also needs
  that nothing is left to send between two scans and that the parts of a difference are
  disjoint (`EventsInv`). That a scan is justified needs the connection's invariant: the
  response the scan receives is the one to its own question, and `AnswerFits` says that
  wherever it is by then - tmux's output, `readLoop`, `responseCh`, the result of
  `Execute` - it is an answer that was true at some time since the scan began.
- **`AgentPane_proofs`**: `PaneTypeCorrect`, `PromptsNeverMix`, `OkIsTrue` and
  `WindowIsRestored` from `PaneInv`. That each lock has one holder is inductive
  (`PaneTypeOK`); the others need where the text of a request can be at each place of its
  goroutine - not in the pane before it is typed, gone from the box once Enter succeeded
  unless the session ended, in the box or submitted while the answers are in step
  (`JobInv`) - and what a redraw under way has read (`RedrawOK`, `RedrawInv`).
- **`Tailer_proofs`**: `TailerTypeCorrect`, `TailerInvariant`, and `TailerImplements`, that
  `Tailer` implements `LineStream`. The mapping is simple, since the lines are history;
  the argument is why a step that sends is one the abstract stream may take. `TailerInv`
  says of what was sent, what the scanner holds and what is still to be read that they
  come in order (`OrderInv`), that no line that is owed is left out of them (`OwedInv`),
  and that what the scanner puts together is one line, or parts of lost ones (`JoinInv`);
  with what the CLI writes (`FileInv`) and what the scanner knows (`ScanInv`). The last
  three of `TailerInv` end with Stop, after which nothing is promised.

- **`OutputStreams_proofs`**: `OutputTypeCorrect`, `DeliveredOnceHolds`, `PipeFollows`,
  `SubscriptionsHeld` and `GoneHasNothing` from `OutputInv`. The bytes need only what is
  in a stream: the chunks of a channel follow each other and end at `flushed` (`DataInv`).
  The others rest on one argument. Numbers restart with a new stream, so a client that
  gives a number back could close another's channel; it does not, because the stream on
  record for a session is the one that lives, and it lives as long as it has a subscriber
  (`RecordInv`), what a client has on its map or in hand is its own, and of a session that
  is in hand there is nothing on the map (`HolderInv`), and it is still open (`HeldInv`).
  `SubscriptionsAreHeld` alone is not inductive: it does not say that the number is one
  of the stream that is now on record.

- **`ConverterServer_proofs`**: `ServerUsesWatcher` shows that the server implements the
  watcher, with `Broadcast` as the reader of its events, so that `WatcherInv` and
  `ServerMapsAgree` (`MainStreamIsActive`) hold of it. `ServerTypes`, `FollowsMatch`
  (`FollowsMatchSubs`), `NobodyDetaches` (`NobodyElseDetaches`) and `ExactStream`
  (`ConversationIsExact`) follow from `ServerInv`. A channel is made for one subscription
  (`ChansApart`), and an `unsubscribe`, which takes the buffer on record now, closes a
  channel of another subscription only if the conversation was streamed twice. That
  `c.follows` and `c.subs` agree needs what each handler and a half-done switch have in
  hand (`HandlerOK`, `BroadcastOK`). That a stream is exact is not inductive: it needs that
  there is one goroutine per context (`GosOK`), that it reads its own subscription's
  channel and no other does (`ReadsOwn`), and that what was sent, what it has in hand and
  what the channel still holds follow each other up to the end of the buffer, with
  nothing between them but what was dropped (`InStep`).
  `PendingIsWoken` (`PendingFollowIsWoken`) needs more than the property says: that some
  event is coming is not inductive, since the event of a conversation that is no longer
  active wakes nobody; `Woken` asks for the event of the active one, and also on behalf of
  a handler that has read the active conversation and not registered yet.

  `FollowsTrack` (`FollowerTracksActive`) has an invariant of its own beside `ServerInv`,
  `TrackInv`. While no agent has gone (`NoRemovals`) and the switches of agent `a` are sent
  in the order of their streams, the last one that is still with a discovery, in the
  channel or in Broadcast's hands is to the active conversation (`Switches`); hence a
  follow that has a conversation either has the active one, not cancelled, or a switch is
  still to come to it (`Tracks`). Neither is inductive alone: that an event names a main
  conversation of its agent (`Named`), that a stream is `late` only if it was overtaken
  (`LateOK`) and that an agent's first event is no switch (`FirstIsNoSwitch`) go with
  them. That the follow is streamed needs besides that its channel is open while its
  buffer is not replaced (`OpenFollows`) and that it has a goroutine of its current context,
  or its handler is about to start one (`Streamed`). A follow without a conversation
  is the matter of `PendingIsWoken`, on which the theorem rests as well.

- **`AgentFeed_proofs`**: `FeedTypes` and `NothingIsMissed` (`NoChangeIsMissed`) from
  `FeedInv`. What a client will know of an agent is what the last message about it says,
  and messages are in five places: not yet sent by the registry, in its channel, in the
  broadcast's hands, in the client's queue, and in the list of a handler. The invariant
  goes stage by stage instead of over the whole line: the last event of an agent on its
  way to the broadcast tells its state in the map; a list that is not yet sent is right of
  an agent, or a newer event of it follows; and once no event of an agent is on its way,
  the client's own queue ends in its state. So no induction over a queue is needed:
  `EndsWith` names the last message about an agent, and each step adds or takes one.

Only model-checked: the liveness properties (`LateFileIsStreamed`,
`PendingFollowIsServed`, `ExecuteReturns`, `ReadersCatchUp`, `RequestsAreAnswered`,
`EachLineArrives`, `FollowersCatchUp`), which need fairness and `ENABLED` and are out of
TLAPS's reach. Every safety property of a passing run has a theorem.

## 6. Not modelled, and why

- Pure functions: the JSONL parser (`claude.go`), frame codec, key names, file names,
  token and origin checks. They keep no state; the unit tests cover their cases.
- Process and file-system queries of detection: one bit of tmux's answer here.
- Errors of the file system in `pipepane.go`, of saved uploads and of fsnotify: logged or
  answered, and the stream, upload or discovery ends as if the file were not there.
- The content of prompts, keys, pastes and lines, and the clipboard.
- Of the converter's send queue, a full one drops live events (`StreamDrop`) but no response,
  snapshot or agent event, which the code may drop as well: `view` says what was handed to
  `sendJSON`, of subscriptions to a conversation only.
- Web components and samples: one thread, and no protocol state but what `AgentFeed` has.

## 7. Plan

Done, in this order: buffer, watcher, server over watcher, connection, registry over
connection, output streams; the pane, the tailer with its abstract stream, the agent feed;
proofs of every invariant and refinement the passing runs check; then drops in the
converter's streams, commands to the pipes and panes that fail in every way `Execute` can,
modification times, and the two directory watchers of a discovery.

Left, of the model: `AgentFeed` over `Registry` instead of over an arbitrary scan; runs
for the disagreements of section 3 that have none; liveness of `OutputStreams` (a
disconnected client is cleaned up). Of the proofs: that a buffer of `ConverterServer`
implements `ConversationBuffer`; an abstract
specification of a follow, which the server implements.
