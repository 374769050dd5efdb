# Verification of goso

TLA+ models of the gateway of this repository (`gateway/internal`) and of its web
console (`control-plane/src`), TLC runs that check them on small instances, and
theorems about them that TLAPS checks for every value of the constants. The models
follow the Go and TypeScript code; `PROJECT.json` maps every definition to the lines
it stands for.

Contents

1. The system: its components, their state and operations, and what is hard
2. The modules and how they correspond to the code
3. The runs: what each checks, its bounds, what it shows
4. Fairness
5. What is proved, and how
6. Findings, and remarks that no run checks
7. What is not modelled, and why
8. The plan

## 1. The system

goso is a gateway between chat channels, HTTP clients and business systems on one
side and language models and tools on the other. The Go process in `gateway/` is
the core. `control-plane/` is the web console of its operators (React),
`mcp/` a stateless adapter and `desktop/` a launcher: all three are clients of its
HTTP API.

One process serves everything: an HTTP handler per request, and background
goroutines (the webhook poller, the idle flusher, cron, the evolution loop, the
Telegram poller). They share a store (in memory, SQLite or Postgres) through single
calls; a transaction never spans two calls, and only a few components hold a lock of
their own. So what is hard in the gateway is mostly what happens **between** two calls
of the store, or between the release of a lock and the use of what was read under it.

The console is a single thread, and just as concurrent: every handler runs to its first
`await`, its continuation runs when the answer arrives, answers arrive in any order, and
a continuation sees the variables of the render it began in. What is hard there is what
another handler did **between** the request and the answer.

| component | state it keeps | operations | what is hard | what makes it correct |
|---|---|---|---|---|
| webhook job worker (`webhook/worker.go`, `operator.go`) | rows of `webhook_jobs` | tick (claim), process, scheduleRetry, test and replay | goroutines that write whole copies back, a receiver that may or may not have got a callback, restarts, dropped writes | one owner of a row; the row says what the receiver saw; no callback after a verdict; a job settles, and a running one is worked on |
| webhook inbound (`webhook/registry.go`, `httpapi/handlers_webhooks.go`) | jobs by idempotency key | LookupIdempotency, Enqueue, FinishSync | look and create are separate accesses, with a chat between them | a repeated request gets the job of the first; an answer is of its own key and body |
| chat pipeline (`pipeline/runner.go`, `history.go`) | message rows of a session; the prompt of a turn | loadHistory, think, actObserve, Sanitize | turns of one session interleave, break off, lose writes; the cap cuts anywhere | in every prompt each result follows its request and each call with an id has its result; a result answers its own request; results are not lost |
| session memory (`pipeline/idle.go`, `memory.go`) | one note per session; `checked` | SummarizeStage, Sweep, flush | a note is made from messages read up to a minute before it is stamped; two writers; batches | a quiet session gets a note, once, and nothing that needs one is taken for checked |
| approval gate and tool layer (`approval/gate.go`, `agent/runtime.go`) | pending requests in memory | SubmitMeta, DecideReason, executor, relayer | operators at once; effects after the lock is released; expiry; failures of two effects | a call is resolved once and runs at most once, only when approved; the connector hears what stands |
| usage meter and quota (`billing`) | usage rows | Record, Today, Exceeded | check before and count after a chat; ids that restart | no usage is lost; a quota is passed by no more than the chats under way |
| bridge (`bridge`) | sessions of Omni conversations, notes | Reply, refreshSummary | replies of one conversation overlap | the note is refreshed as the turns grow |
| channels (`channel`) | poll offset, pairings, pending group messages | poll, Issue/Approve/DenyPairing, BufferIfNeeded, Compact | offset in memory; count before create; read before write | an update is handled; a cap holds; a decision stands |
| cron (`cron`) | jobs and the time of their last run | Tick, MarkCronRun | a crash between fire and mark | fired once per due minute |
| evolution (`team/evolve.go`) | instructions, guardrails | Apply, Tick, rollback | several writes per step, operators who edit meanwhile | what is applied is watched and can be rolled back |
| connectors (`connector`) | registry, stdio pipe | SetEnabled, Replace, rpcStdio | calls that hold a disabled connector; late answers on a shared pipe | an answer goes to its own call; a server that is not needed ends |
| rings and their streams (`eventstore`, `logstore`, `httpapi/handlers_logs.go`, `handlers_events.go`) | bounded buffers, subscribers | Append, Subscribe, replay | slow subscribers, a restart that begins the numbers again | a row that was appended is sent or replayed |
| what a page shows (`api/page-state.ts`) | none | classifyPageState and its kin | which of loading, refused, failed, old and empty wins | no emptiness that is not known, no rows that were refused |
| console pages (`pages/*.tsx`) | the rows last loaded, forms, dialogs, busy flags, secrets shown once | loads, polls, and writes followed by a load | overlapping requests, answers out of order, lost answers, one flag for many handlers | no control stays disabled; a page at rest shows what the gateway has; nothing is written twice at once |
| live tails (`LogsPage.tsx`, `Events.tsx`) | the cursor, the rows shown, the loop of the stream | start, stop, pause, reconnect, history | a stopped loop that returns late, a cursor moved by two sources | the status is true; the rows are in order and complete |
| chat tab (`ChatPage.tsx`, `SessionsPage.tsx`, `App.tsx`) | the open session, its transcript, a turn under way | open, create, delete, send, stop, set agent and model | answers for a session that was left, streams cut while the turn goes on | the transcript is of the open session; a message is posted once |
| application shell (`App.tsx`, `api/hash-route.ts`, `ui/CommandPalette.tsx`) | the tab, the hash of the address, the palette | applyHash, go, a page of the settings, a trace, the palette | clicks act at once and hashchange later; old and made-up addresses | what is shown is what the address says, and it is something |
| store, HTTP API, configuration, providers, builtin tools, MCP server, desktop | | | | see section 7 |

How they interact: a chat request (HTTP, channel, webhook, cron, bridge) starts a
**turn** of the pipeline; a turn calls tools through the **tool layer**, which hands
gated ones to the **approval gate**; the end of a turn may write the session's
**note**; the **idle flusher** writes the notes of the sessions no turn covers; a
**webhook job** runs a turn in the background and posts its reply. The models meet
at the rows they share: `WebhookInbound` creates the jobs that `WebhookJobs`
settles, `ChatTurns` writes the rows whose number `SessionMemory` counts, and
`ApprovalGate` takes the calls that end a turn of `ChatTurns` as pending. The console
sees the gateway through HTTP only: `ConsolePage` and `ConsoleChat` model the gateway as
the rows it keeps for them, and `LiveStream` composes the page with the ring and the
stream handlers of the gateway. `App` mounts one page at a time (`ConsolePages`) and owns
the one piece of state two pages share, the open session (`ConsoleChat`).

`PROJECT.json` lists the hazards at their lines, each with the properties that would
catch it, or why none does. Hazards of the components that have no module yet are named
in the plan (section 8).

## 2. The modules

```
WebhookDelivery            what the worker promises about a job (abstract)
   ^ implemented by
WebhookJobs                the worker: claims, chats, callbacks, retries, faults
   ^ MCWebhookJobs         instance for TLC
   ^ WebhookJobsProofs     theorems
WebhookInbound             idempotent requests     ^ MCWebhookInbound  ^ WebhookInboundProofs
ChatHistory                rows and Sanitize (pure)
   ^ ChatTurns             turns of a session      ^ MCChatTurns  ^ SessionProofs
SessionMemory              chat turns, flusher and the note of a session  ^ SessionProofs
ApprovalGate               requests, decisions and their effects
   ^ ApprovalGateProofs    theorems
McpStdio                   calls of an MCP server over one pipe  ^ MCMcpStdio  ^ McpStdioProofs
PageState                  what a page shows of a load (pure; theorems in ConsoleProofs)
   ^ ConsolePage           requests, answers, the inventory, busy flags
      ^ PagesTalk, PagesWatch, PagesKeys, PagesKnowledge, PagesTools   the pages
         ^ ConsolePages    which one is mounted; properties      ^ MCConsolePages  ^ ConsolePagesProofs
   ^ LiveStream            a tail, its stream, the ring           ^ ConsoleProofs
ConsoleChat                the chat tab  ^ MCConsoleChat          ^ ConsoleChatProofs
HashRoute                  addresses, written and read (pure)
   ^ ConsoleRoute          tab, address, palette                  ^ ConsoleProofs
```

Every module names its constants' assumptions, states one action per operation, and
keeps the mutants its runs are tested with next to the definitions they change
(`Mutant of ...`). No module declares a RECURSIVE operator.

### WebhookJobs (and WebhookDelivery)

| variable | code |
|---|---|
| `row` | a row of `webhook_jobs`: Status, whether there is a CallbackURL, Attempts, NextAttemptAt (as the time left), CreatedAt (as an order), LeaseID, Reply, Error |
| `proc` | the goroutine `process` of a claimed job: where it is, its **copy** of the row, the answer to its POST, the Retry-After |
| `receiver` | what the receiver of the callbacks saw and said (external) |

`Enqueue`, `FinishSync` and `DeliverEvent` create rows; `Claim` is `tick` with
`ClaimWebhookJob` (one critical section of the store: oldest due row, marked running
under a new lease); `ChatSettles`/`ChatThenPost` are `process` up to the callback,
`Post` is `postCallback`, `SaveAnswered`/`SaveExhausted`/`SaveRetry` are the rest of
`process` with `scheduleRetry`. `Abandon` is a panic that `process` recovers or a
write whose error it drops; `Restart` is a stop of the process, which leaves the rows
and loses the goroutines. Both add the jobs whose goroutine they end to the history
variable `struck`, so that a job the worker itself forgot is told from one that a fault
stranded. A reply is named by the lease of the run that made it, so
that two runs of the chat never have the same reply; what it says is left out, and so
are the signature and the body of a callback. A POST whose answer is lost on the way
is a `failed` answer that reached the receiver.

`WebhookDelivery` says what a client may rely on: at most `MaxPosts` callbacks, none
after the receiver has given its verdict, and one end, the one the verdict says. It
does not promise an end, because the code does not (see section 6).
`DeliverySpec` is that specification under the mapping at the end of `WebhookJobs`:
queued and running are `open`, and the receiver's answers are the verdict.

### WebhookInbound

`req` is the handler of a request (`handleWebhookLLM`) between two accesses of the
store: `lookup` (LookupIdempotency), `recheck` and `create` (Enqueue), `chat` and
`finish` (FinishSync). `jobs` is the table, newest last. A lookup that fails is taken
for an empty one (`LookFails`), a sync reply is sent although its job could not be
written (`FinishSyncFails`). `by`, `known` and `blind` are history variables: they
record who made a job, what was there when a request arrived, and whether a look of
its failed. The store's index on (webhook, key) is not unique, and nothing in the
model makes it so.

### ChatHistory and ChatTurns

A row of `ChatHistory` is what `ToLLM` decodes of a stored message: role, whether there is
text, the ids of its tool calls, whether it has a call **without** an id (`bare`), and the id
a tool row answers. `CapLast` and `Sanitize` are the code's (a scan of the rows, `scan[n]`
after the first `n` of them, with the calls still open); a call without an id is never opened, as in
`history.go:159`, so nothing strikes it. Next to them is a definition of a sound history that
does not follow the algorithm (`Sound`): a result stays when it is the first one for a call
of the request it follows, a request keeps the calls that have a result, and the row to keep
that has k-1 others before it is the k-th. The calls of a row are a set of ids: `Sanitize` asks
only which are there, and keeps their order. Rows of role event, which `ToLLM` skips before
the cap is applied, are left out.

`ChatTurns` is `Runner.Run` for several turns of one session. Each turn writes the user's row
(`Begin`), loads the last `Cap` rows sanitised (`LoadHistory`), and then repeats think (`Reply`,
`Request`) and `Act`, one tool call at a time, writing rows as it goes; nothing keeps two turns
of a session apart. A call that waits for an approval ends the loop (`Conclude`) and leaves the
calls after it without a result. A write after the first may be lost (`Write`), a turn may end
with an error (`Fail`), and the process may stop (`RestartTurns`). The text of a reply is
stored as it is and decoded by the next load, so it may turn out to be a request: `Contents` is
what a stored text may decode to (text or none, calls, calls without ids). A client may post a
row of any role (`PostMessage`, which uses up a turn's name, `posted`): an assistant row of
any such content, a tool row with any id or none. Tool call ids are the ones the
runner makes up (`call_<iteration>_<index>`), which repeat from turn to turn and which a
posted row may have; a provider's ids are distinct, which is a case of the same.

### SessionMemory

Messages are counted, and a time is the number of messages there were by then: a
note `[read, time]` was made from the first `read` messages and is stamped `time`.
A chat turn (`Ask`, `Answer`, `Summarize`, `SaveTurn`) and the flusher (`StartSweep`,
`Skip`, `Flush`, `FlushSave`, `EndSweep`) both read, ask a model and save. The
sweep's listing (`last`, `due`, `noted`) is what `SessionActivity` returned when it
began; `flush` reads the session again; `checked` is updated with the listing's last
message. A full batch ends the sweep, and `EndSweep` forgets the sessions it did not
come to, as `Sweep` does. `quiet` is the time since the last message in sweep
intervals, and a session older than the lookback is not listed.

### ApprovalGate

`item` is `Gate.items`; `proc` is an operator's `DecideReason` from the release of
the lock to the answer: run the tool (`Run`, `KeepRunError`), tell the connector
(`Tell`, `KeepTellError`), answer. `Decide` is the part under the lock. A relay that
ends in an error may have reached the connector. Nothing is persisted: `Restart`
loses every request. `kind` says whose tool is called; `namesake` is a connector's
tool that has the name of a builtin one.

### McpStdio

`call` is a call in `resilient.loop`: `Start` and `End` are its iterations, `attempt`
and `ctx` say whether the contexts of the attempt and of the caller are still in
force (`Deadline`, `Cancel`), and `Finished` what the loop makes of an attempt. One
rpc is `Lock` (or `StartServer`: the first caller starts the command), `Write`, and
then `Receive` or `GiveUp`, with `lock` held throughout; Health makes two of them in
one attempt and releases the lock in between. A reader is a goroutine of its own: that
of a call in `read`, or one of the `left` ones whose call gave up. Any of them may get
the next frame, and once two have used the one `bufio.Reader` (`torn`, a data race in
Go) a frame may also reach none of them whole; that such a race may panic is left out.
`exec.CommandContext` kills the server when the attempt that started it (`owner`) is
over, which is a step of its own (`Kill`), since it takes place in a goroutine of
`os/exec`, `watch`. Nothing calls `cmd.Wait` and the client has no Close: a server that was
killed or that exits is a `zombie` from then on, the watching goroutine is `stuck`, and the
pipes stay open. The server (`Serve`, `Notify`, `Exit`) is not part of the repository: it takes
requests in order and answers when it likes, with a result, an error or not at all, and it may
write a frame that nobody asked for, a notification or a request of its own, as the protocol
allows. The code looks at neither id nor method: the reader hands over any frame, and `Outcome`
is what becomes of it (`parseRPCResult`, and for a list `toolsFromMCP`). `astray` is history: a
context has ended under an attempt, or there was an unasked frame, and from then on an answer
may go to another call. `process = "pipes"` is the pair of pipes a test injects instead of a
command.

### PageState

`Kind` is `classifyPageState` in the order of its returns, with the two flags it returns;
`InventoryBlocksMutation`, `ListMetaCount`, `IsFilteredEmpty` and `ClampPageOffset` are
the functions of those names. Every page of the modules below shows its rows through them.

### ConsolePage, Pages..., ConsolePages

| variable | code |
|---|---|
| `page` | the page App has mounted; 33 pages, one a behaviour |
| `view` | its React state: a record of `BlankList` (loading, loaded, err, rows, busy) and of what the page adds: the row chosen, the one a dialog is about, a secret shown, a filter |
| `calls` | its requests under way: which handler sent it, about which row, what that handler had captured (`cap`, `q`, `base`), which flag its `finally` clears (`tail`), and the answer once it is there |
| `gw` | the inventory at the gateway or GosoCRM (external): a row has a version, and is on or off |
| `spent`, `calm` | the bound; whether all went in order so far |

A handler is one action to its first `await`: `Ask` (it sends a request, guarded as the
control is disabled in the code) or `Local`. Its continuation is another action, taken
when the answer is there: `Answer`, or `AnswerThen` when it goes on to another request, as
every write that is followed by `await load()`. `Flag`, `Ends` and `Flagged` are the busy
strings and booleans: a page with one string has one flag, which the latest handler
overwrites and any `finally` clears, exactly as in the code. `LoadOf` is what every page
hands to `classifyPageState`, so that what is enabled depends on how the last load went.
`Served` is the gateway doing what was asked, in any order; `Refused`, `AnswerLost` (done,
and the answer lost) and `Elsewhere` (changes by others) are the troubles.

| module | pages |
|---|---|
| `PagesTalk` | sessions, agents, channels, pairing, pending groups, contacts, teams |
| `PagesWatch` | approvals, nodes, activity, traces, overview, CRM metrics, heat map |
| `PagesKeys` | API keys, webhooks, tenants, settings |
| `PagesKnowledge` | vault, memory, knowledge graph, storage, import and export, backup |
| `PagesTools` | skills, tools, cron, connectors, packages, workstations, providers, speech, marketing |

What is typed in a field is not state (a form is open, and about a row), except where its
loss is what could go wrong (secret drafts of the channels).

### LiveStream

`view`, `loop` and `old` are the page: its state, the loop of the effect of
`[live, paused, blocked]`, and the loops that were stopped and have not come back from
their await. `Effect` runs after every handler, as React runs the effect: it stops the
loop, aborts its stream and begins another one when it may. `log` is the ring of the
gateway (its process, the last number given, the oldest row kept), `sub` the stream
handler with its subscription, `wire` what is on the way, `load` the history load.
`Appended` drops a subscriber whose buffer is full, `Subscribe`, `Replay`, `Deliver` and
`HandlerEnds` are the handler. `tail` says which page it is: the two differ in that the
logs page lets a history load move the cursor and the logs handler forgets a cursor that
is ahead of the ring. `seen` is history: the rows that were received (`got`); those nobody owes
the page, which were there before its **first** stream or are beyond what a replay may send
(`free`); those the code passes over after that (`lost`), which happens in two places only, a
history that raises the cursor without reaching back to it (`LoadArrives`, `Between`) and a later
stream that begins with no cursor, or with one of an earlier process (`Subscribe`, `Unasked`);
those a subscriber had not been sent when it was dropped (`due`); and of which process the cursor is.

### ConsoleChat

`picked` is the session App has open, `list` the list on the left, `view` the page on the
right, `calls` the requests with their continuations. A call captured the session (`s`)
and the number of the opening (`gen`); `StillCurrent` is the check of that name. `Opened`
is the effect of `[sessionId]`, `Opens` and `Dropped` are `pickSession` and `dropSession`
with the closures that call them. `Send`, `Delta`, `SendAnswered`, `WaitOver` and
`ProbeArrives` are one `send`: two local rows, the stream, then the load of the
transcript, or an error, a wait of 400 ms and a probe. `SaveAgent` and `SaveModel` look at
no generation, as in the code. When the tab is left (`LeaveChat`) nothing is aborted: a
call becomes an `orphan`, whose continuation still runs with the refs and callbacks it
had. `Opened` keeps the agent of the session before until the load of the new one is there, and
an agent may be set in that window (`SaveAgent`; the control is off only while no agent is
known). A message is of a session, of a turn, and of somebody: the user, the model, the page
(an error) or the session (`event`: `handlePatchSession` adds a row when the agent has changed,
`WithAgent`, which the load after a save has to bring to the page). `turns` are the turns the
gateway runs: one begins with the message (`Accept`), may be refused with 406 and posted again
as JSON, and ends with its reply whether or not anybody listens.

### HashRoute and ConsoleRoute

`HashRoute` is `api/hash-route.ts`: a hash is its segments, with what else `parseHash` looks
at (a slash missing or too many, the form of a trace id), and `SerializeHash` and
`ParseHash` are the code's functions, their tables and their order of cases.

| variable | code |
|---|---|
| `demo` | `DEMO` of the build |
| `tab` | `tab` of `App` |
| `address` | `window.location.hash` |
| `due` | the effect of the mount, or hashchange/popstate events the browser has not delivered: one value, for a listener reads the hash when it runs |
| `page`, `trace` | the copies `SettingsPage` and `TracesPage` keep |
| `palette` | whether it is open, `filtered`, `active` |

Actions: `ApplyHash` (`applyHash` with the listener of the page shown), `UserHash` (a typed
address, a link, back and forward), `Go`, `PickPage`, `PickTrace`, and of the palette
`Shortcut`, `Rows`, `Highlight`, `Pick`. `replaceState` tells nobody, so `PickTrace` leaves
`due` alone.

## 3. The runs

| run | instance | shows |
|---|---|---|
| `webhook_jobs` | 2 jobs, 2 goroutines, delays <<2, 3>>, jitter of a half, Retry-After cap 4, 1 fault | the safety of the worker, that it implements `WebhookDelivery`, that a running row is worked on unless a fault ended its goroutine, and that a queued job settles unless a fault strands it (58 558 distinct states) |
| `webhook_at_least_once` | the same | finding 1 |
| `webhook_inbound` | 3 requests, 1 key or none, 2 bodies (one async), TTL 1, time to 3, 1 fault | answers are of their own key and body; only overlap or a store error makes a second job |
| `chat_turns` | 2 turns, 2 iterations, cap 6, 2 calls a reply, 2 requests in all, 4 contents of a text, 1 fault; each turn may be a posted row instead | every prompt is well formed, `Sanitize` computes the sound history, results go to their own turn and are kept (401 695 distinct states) |
| `session_memory` | 2 sessions, 1 chat turn at a time, idle 1, lookback 5, batch 1, 2 messages a session, 1 fault | the flusher writes a note for every quiet session, once, and remembers nothing it should not |
| `approval_gate` | 2 calls, 2 operators, TTL 2, 1 fault | a call is resolved once, runs at most once, its connector hears what stands, a failed run shows, an approved one runs |
| `mcp_stdio` | a health check and a tool call, 1 retry, a pipe of 1 request, 1 fault, over a command or over pipes | answers go to their calls, calls over pipes succeed, every call over a command ends, and its server and the readers end with it: a zombie stays, and its goroutine (497 862 distinct states) |
| `mcp_second_call` | the same | finding 2 |
| `console_pages` | each of 33 pages, 2 rows, 3 handlers and troubles in all (2 on the pages with many controls) | no control stays disabled, a page at rest shows what the gateway has, writes do not overlap where the page means them not to (923 042 distinct states, depth 25) |
| `live_stream` | a ring of 2, a subscriber's buffer of 1, replays of 2, histories of 1, a tail of 2, 3 rows a process, 1 trouble, 3 clicks, on either page | the status and the order of the rows are true, and no row is passed over but at the two places named (2 867 815 distinct states) |
| `live_dropped` | the same but for no trouble and 2 clicks | finding 3 |
| `console_chat` | 2 sessions, 3 controls and troubles in all | the transcript is of the open session, the composer is free when all is quiet, a page at rest is true, a message is posted once (1 351 722 distinct states) |

Properties, by hazard:

- **`LeaseHeld`**: `UpdateWebhookJob` writes by id and checks neither status nor
  lease. What keeps two runs of one job from overwriting each other is that a running
  row is never claimed; the property says that, for the copy's lease too.
- **`RunningIsWorkedOn`**, **`SettlesOrStranded`**: nothing takes up a running row, so
  a way out of `process` that forgets to write the row back would strand its job for ever;
  only a fault, which the model records in `struck`, may do that.
- **`DoneMeansAcked`**, **`DeadMeansGivenUp`**, **`AttemptsMatchPosts`**,
  **`NoPostAfterVerdict`** relate the row to what the receiver saw, through retries
  that run the chat again, restarts and lost writes.
- **`AnswerIsOwn`**, **`OneJobInSequence`**, **`RetryGetsJob`**: what idempotency
  holds to although overlapping requests may get a job each: a client that waits for its answer before it
  asks again gets its own job, to the last instant of the TTL.
- **`PromptsWellFormed`**, **`SanitizeIsSound`**, **`ResultsAreOwn`**,
  **`ResultsAreKept`**: whatever was stored or posted, no result is sent without its request and no
  call with an id without its result (a provider refuses such a history, and the session would be
  stuck with it), the one pass of `Sanitize` computes what its definition says, and it drops no
  more. Calls without an id are the exception: `Sanitize` lets them stand.
- **`CheckedHasNote`**, **`OneFlushPerMessage`**, **`QuietGetsNote`**: `checked`
  is in memory and comes from a listing that is old by the time it is stored; it must
  hide nothing, and forgetting it at a restart must cost no second note.
- **`RunOnceApproved`**, **`ToldTheDecision`**, **`FailedRunShows`**,
  **`SingleResolution`**, **`ApprovedRuns`**: decisions race with each other and
  with the expiry, and their effects come after the lock is released.
- **`OwnAnswer`**, **`PipesServed`** (and `RunOnceUntroubled`, proved and in no run): answers carry ids
  that nothing compares, so it is the lock, held from the write to the answer, that
  takes an answer to its call; it does so until a call runs out of time or the server writes
  what nobody asked for.
- **`CallsEnd`**, **`OnlyAZombieStays`**: neither the lock nor the write to the pipe looks
  at a context, and the client has no Close and no Wait. What ends calls, readers and server is the kill that comes
  with the first attempt, the very thing that breaks the second call (finding 2): a
  repair that unbinds the command has to bring its own answer to both.

- **`QuietPageIsIdle`**: one busy string is set and cleared by many handlers, and each
  of them may fail at each await; when nothing is under way, no page may be left busy or
  loading.
- **`InOrderIsCurrent`**: every write of 33 pages is followed by a load or by the very
  change the gateway made. It is stated for behaviours in which answers kept their order:
  out of order it fails on every page that does not number its loads, which is most of
  them (section 6). Four pages (`OnlyInDetails`: teams, tenants, tools, settings) are left out:
  their rows also change in what only a row's details show, for which no list is loaded.
- **`NewestLoadShown`** says that the three pages that do number them get it right.
- **`OneWriteAtATime`**: on the pages that disable their controls while busy, no load,
  dialog or other answer gives a control back while a write still runs.
- **`SecretIsOfLiveKey`** relates a secret on the page, shown once by one answer, to the
  key another answer revoked.
- **`StatusIsTrue`**, **`NewestFirst`**, **`NothingSkipped`**, **`RestIsCaughtUp`**: the
  status line is written by handlers, by the effect, by the loop that runs and by loops
  that were stopped; the cursor by a stream and by the history load; rows come from
  replays, from subscriptions and from another process with the same numbers. That the history
  may take the cursor past rows nobody has sent is finding 3.
- **`OwnTranscript`**, **`FreeWhenQuiet`**, **`RestIsTrue`**, **`PostedOnce`**: what
  `stillCurrent`, the `finally` of `send`, the loads that follow a turn and a save of the agent,
  and the probe after an error are for.

Why the bounds are enough: two of each actor give every pairwise overlap, and the
actions are symmetric in jobs, requests, turns and sessions. The schedule has two
delays so that a job can be retried (once) and can be given up after a retry. Three
requests give two that overlap and one that comes after both, and time 3 with TTL 1
passes the end of the window twice. Cap 6 is less than the rows two turns write, so it
cuts between a request and its results; two calls a reply make a result that is there
and one that is not. The contents of a text are one of each kind `Sanitize` tells apart, with
an id that a turn makes up. Batch 1 with 2 sessions is the smallest batch that leaves one
out; lookback 5 with idle 1 keeps the ratio the code enforces (at least 3) and leaves
room for two sweeps that do not come to a session. `MaxFaults` 1 keeps the runs
small: a fault leaves no state behind but rows and histories that are reachable in
other ways, and the theorems hold for any number of them. In `mcp_stdio` one retry gives
a second attempt that meets what the first left behind, a pipe of one request makes a
write wait, and Health's two requests let the other call in between. In `console_pages` three handlers and troubles give a write, a load that overlaps it and a
failure, over the row the write is about and another one; every page fires every one of
its actions. In `live_stream` three rows pass a ring of two, a buffer of one drops a
subscriber, and three clicks start, pause and resume a tail. In `console_chat` three
controls open a session, send in it and open another one. The bounds on
messages, requests and time are in the guards and named in CONSTANTS.

Each property of a passing run has a mutant in `PROJECT.json`: a definition changed
the way a plausible bug would change the code, under which the property fails.

Deadlock is not checked: a gateway with no more input is at rest.

## 4. Fairness

- `WebhookJobs`: `tick` polls for as long as the process runs, so a due row is
  claimed (`WF` of `Claim`, for some goroutine and job: a poll claims the oldest);
  the chat has a timeout of 30 s and the callback client one of 15 s, so a goroutine
  goes on (`WF` of `Process(w)`, which does not include `Abandon`); time passes
  (`WF` of `Tick`). Nothing is assumed about the receiver's answers or about faults.
- `SessionMemory`: `IdleFlushLoop` sweeps at every interval and a summary has a
  timeout (`WF` of `Sweep`); time passes. Chat turns need not end, and errors are not
  assumed to stop except by their bound.
- `ApprovalGate`: a decision's handler runs to its end, since tools and relays have
  timeouts (`WF` of `Handle(o)`). Operators need not decide.
- The modules of the console assume none. What should happen in the end is stated as
  what a state of rest looks like: `QuietPageIsIdle`, `RestIsTrue` and `RestIsCaughtUp`
  say what holds when nothing is under way, which a page reaches whenever its requests
  are answered; a request that never gets an answer leaves its page busy, in the code as
  well.
- `McpStdio`: goroutines run (`WF` of `Step(c)`, and of `Read`), timers fire (`WF` of
  `Deadline(c)`), and the kill of the process takes effect (`WF` of `Kill`). The lock is
  asked for a bounded number of times, so that nobody is passed over for ever. The zombie is
  never reaped, whatever is fair. Nothing is assumed of the server, nor that callers leave.

## 5. What is proved

`WebhookJobsProofs` proves for **every** set of jobs and goroutines, every
non-empty schedule, cap, jitter and number of faults (`JobsAssumption`):

| theorem | statement |
|---|---|
| `TypeCorrect` | `Spec => []TypeOK` |
| `LeaseHeldAlways` | `Spec => []LeaseHeld` |
| `DoneMeansAckedAlways` | `Spec => []DoneMeansAcked` |
| `DeadMeansGivenUpAlways` | `Spec => []DeadMeansGivenUp` |
| `AttemptsMatchPostsAlways` | `Spec => []AttemptsMatchPosts` |
| `RunningIsWorkedOnAlways` | `Spec => []RunningIsWorkedOn` |
| `NoPostAfterVerdictAlways` | `Spec => NoPostAfterVerdict` |
| `ImplementsDelivery` | `Spec => DeliverySpec` |

None of the invariants is inductive alone: what a goroutine writes back depends on
what its copy has in common with the row and with the receiver. The inductive
invariant `Inv` is a conjunction: `TypeOK`; `RowInv` (what a row of each status says
of the receiver: a queued row counts the callbacks sent exactly and has no verdict, a
done one is acknowledged with its reply, a dead one is refused or used up); `Own` (a
busy goroutine's row is running under the lease of its copy; before the POST the
copy counts the callbacks exactly and there is no verdict, `Unanswered`; after it the
receiver has one more than the copy counts and said what the goroutine heard,
`Answered`); and `Exclusive` (no two goroutines have one job). A row left running by a
fault needs nothing but the bound on its callbacks, because nothing takes it up
again. The proof has one lemma per action; `OneJob`, `OwnKept` and `RowKept` say what
a step on one job leaves alone. `NoPostAfterVerdict` and the refinement follow from
`Inv`: every step is a step of `WebhookDelivery` (a POST is `Send` or `Block`, a save
that settles is `End`, a creation is `Accept` or `Record`) or a stutter. `RunningIsWorkedOn` is
inductive beside `Inv`: a goroutine that lets go of its job has settled the row, or queued it,
or is one a fault ended.

`ApprovalGateProofs` proves, for every set of calls and operators, every TTL and number
of faults (`GateAssumption`):

| theorem | statement |
|---|---|
| `TypeCorrect` | `Spec => []TypeOK` |
| `RunOnceApprovedAlways` | `Spec => []RunOnceApproved` |
| `ToldTheDecisionAlways` | `Spec => []ToldTheDecision` |
| `FailedRunShowsAlways` | `Spec => []FailedRunShows` |
| `SingleResolutionAlways` | `Spec => SingleResolution` |

Here `Inv` says that a request without a decision has no handler and no effects
(`CallInv`), what the one handler of a decided request has and has not done at each of
its steps (`HandlerInv`), that no two handlers have one request (`Exclusive`: only a
pending request gets a handler, and it is pending no more), and that the error of a
failed run is kept or about to be (`Kept`). `HandlerStep` and `RequestStep` carry the
frame: a step touches its own request only.

`WebhookInboundProofs` proves, for every set of requests and keys, every TTL, clock and
number of faults (`InboundAssumption`):

| theorem | statement |
|---|---|
| `TypeCorrect` | `Spec => []TypeOK` |
| `AnswerIsOwnAlways` | `Spec => []AnswerIsOwn` |
| `OneJobInSequenceAlways` | `Spec => []OneJobInSequence` |
| `RetryGetsJobAlways` | `Spec => []RetryGetsJob` |

The properties compare jobs with requests that are over, so the invariant says what a look
leaves behind. A request that goes on after one knows that no job it arrived to is fresh
(`Stale`), and time makes no job fresh again; one that was answered was answered from the
newest job of its key (`Settled`). Jobs are created in the order of time (`Sorted`), which
makes what a look says of the newest job hold of the older ones. That there is a newest
one is `Greatest`, by the well-founded order of the numbers (`WFMin` with
`NatLessThanWellFounded`): unlike the induction theorems these take no operator, so a least or
a greatest element can be had where an induction cannot.

`McpStdioProofs` proves, for every set and kind of calls, number of retries and of faults, and
any pipe (`McpAssumption`):

| theorem | statement |
|---|---|
| `TypeCorrect` | `Spec => []TypeOK` |
| `OwnAnswerAlways` | `Spec => []OwnAnswer` |
| `PipesServedAlways` | `Spec => []PipesServed` |
| `RunOnceUntroubledAlways` | `Spec => []RunOnceUntroubled` |

The code compares no answer with the request it is taken for. `PipeInv` says why the mutex is
enough until a context has ended under an attempt or the server has written a frame unasked
(`astray`): the call that holds it is the only one with
a frame in either direction, and that frame, where there is one, is its request, its answer or
what broke; no reader is left behind, and no frame is torn. `RunInv` adds, as long as the server has
not failed either, where the one request of a call is, so that a tool that ran has an answer on
its way. Both are implications: once something went astray nothing of them is claimed.

`SessionProofs` proves of the chat pipeline, for every set of turns, any number of iterations,
calls, requests and troubles, and every cap (`TurnsAssumption`):

| theorem | statement |
|---|---|
| `SanitizedIsWellFormed` | for every history, also with calls without ids, every result that `Sanitize` returns follows its request and every call with an id has its result |
| `SanitizedFollows` | for every history, `Sanitize` shows a result to no request it did not follow, and drops none that answered one |
| `SanitizedIsSound` | for every history, `Sound(Sanitize(msgs), msgs)` |
| `TurnsKeepInv` | `SpecTurns => []TurnsInv` |
| `PromptsAreWellFormed` | `SpecTurns => []PromptsWellFormed` |
| `ResultsGoToTheirOwn` | `SpecTurns => []ResultsAreOwn` |
| `ResultsStay` | `SpecTurns => []ResultsAreKept` |
| `SanitizeStaysSound` | `SpecTurns => []SanitizeIsSound` |

The first three are about a computation, row by row, and each is an induction over the rows
scanned. The induction theorems of the library take an operator and cannot be used; a least
counterexample can (`NatSetInduction`, by `WFMin` and `NatLessThanWellFounded`, is stated of a
set). What is carried from row to row, of the state `acc` of the scan:

- `Sane`: every result follows its request, and every call but the open ones has its result; the
  open calls are those of the row `at`, with nothing but results after it, that none of them
  answers. A flush of a sane state is sane, and has no open call: that is `WellFormed`.
- `Follows`: each result kept is one that answered the same request in the rows scanned, and each
  that answered one is there (`Shown`).
- `Track`: an increasing function names the row each kept row comes from; those are the rows to
  keep, with the calls that have a result, but for the row `at` while calls of it are open. A
  flush is where it is decided what becomes of that row: as the run of results has ended,
  the calls that are not open are the ones `Answered` says (`RowAnswered`). That the ranks
  of `Sound` are the places of `Track` is a counting of an initial part of the kept rows.

`TurnsInv` is what overlapping turns keep: a turn that has not begun has met none, and turns
that run have met each other (`NewMeetNone`, `RunningMet`); what a turn thinks on is
well formed and what it acts on is `Sane` with exactly the calls it has left to make
(`PromptsSound`: the local prompt has no holes although rows may be lost); after the first row
of a running turn there are only rows of turns it has met and rows that were posted (`RowsSince`),
so results of turns, in the rows and in the prompts, answer requests of their own turn or of one
it met (`AnswersOwn`), which is where the repeating call ids could go wrong, and a posted result
answers any (`OwnTurns`); and of a turn that met no other and lost no row, the
calls left to make are those its last request in the session still asks for (`CallsAsked`), so
each of its results answers that request (`ResultsAnswer`). `ResultsAreKept` then carries
the answer through the cap (`AnswersCap`) and through `Sanitize` (`SanitizedFollows`).

The same module proves of `SessionMemory`, for every set of sessions and runners, idle time,
lookback, batch and number of faults (`MemoryAssumption`):

| theorem | statement |
|---|---|
| `TypeCorrect` | `Spec => []TypeOK` |
| `CheckedHasNoteAlways` | `Spec => []CheckedHasNote` |
| `OneFlushPerMessageAlways` | `Spec => OneFlushPerMessage` |

The flusher never sees a note and the messages in one step, and turns write both while it
sweeps. The invariant says that all it remembers is old: what it listed and what it checked are
numbers the session has reached, the messages it once made a note of are no newer than the note
that is there (`Reached`), and those it is about to save are newer than the ones it saved
(`Saves`). `OneFlushPerMessage`, an action property, follows from `Saves`.

`ConsoleChatProofs` proves, for every set of sessions and every budget (`ChatAssumption`):

| theorem | statement |
|---|---|
| `OwnTranscriptAlways` | `Spec => []OwnTranscript` |
| `PostedOnceAlways` | `Spec => []PostedOnce` |
| `FreeWhenQuietAlways` | `Spec => []FreeWhenQuiet` |
| `RestIsTrueAlways` | `Spec => []RestIsTrue` |

`OwnTranscript` is not inductive: a load puts in the transcript what it was given. The
invariant `ShownInv` adds that the messages of a session at the gateway, and those an
answer brings, are of that session (`GwOK`, `CallsOK`), that every message has its
session's name, and that a page that was left shows nothing and has orphans only
(`AwayOK`). Every continuation that writes the transcript is guarded by `StillCurrent`, whose
second half (the session is the open one) is what the proof uses. For `PostedOnce`,
`TurnsOK` and `PostInv` say where the message of a turn may be: the number of a turn is used once, at
most one call carries it, and while that call is on its way to the gateway the
gateway has no row of the turn (a row about the agent is of none); while the gateway runs the turn it has the message and
no reply. The numbers of turns being fresh and the probe carrying no message are what the
proof comes down to. For `FreeWhenQuiet`, `FreeInv` names the request that holds each flag:
`loading` a load of the session that is open, `sending` and a stream that is neither idle nor
failed a turn of it, from the post through the wait and the probe to the load that follows, and
`saving` a save of **any** session with the load that follows it, because that flag is not put back
when another session is opened. A step that ends the holder, or makes it stale by opening another
session, puts the flag back or hands it on (`Released`).

`RestIsTrue` says what a state of rest shows, so its invariant `RestInv` has to say what the requests
under way will still do. As long as all went in order and a session is open (`PageInv`):

- either the page shows what the gateway has, or a request is under way that `Covers` the difference:
  a load of this opening that has got or will get what the gateway has, a turn or a save of the
  agent of this session, behind which a load is sent;
- an answer that would make the page wrong (`Spoils`: an older load, or the save of the agent of
  **another** session, which when it fails puts that one's agent on the page) is followed by a request
  that covers it and has a greater number;
- a request that is about to change the session at the gateway (`Writes`) covers its own change, or is
  the deletion that will close the session, or a load has been sent after it;
- a session that is gone has a request that will close it (`Closes`).

`Base` holds without order too: requests have different numbers, a new one the greatest
(`FreshNumber`, by the well-founded order of the numbers), and a session is not created twice; and in
order, what was answered was sent before what waits (`InTurn`), and who is told that a session is gone
is told the truth. The proof needs three steps of any depth: the load of an opening makes all four true
whatever was under way (`LoadCovers`); a request that is served, sent or answered beside the open
session changes nothing (`QuietStep`, `ServedQuiet`); and a write at the gateway makes every load
that was answered before stale at once, and has a greater number than each of them (`WrittenPage`).
Order is an assumption of the property (`spent.calm`): of two loads of one opening, the page shows the
one that arrives last.

`ConsoleProofs` proves, for any ring, buffer, replay and history and any number of clicks and
troubles (`StreamAssumption`):

| theorem | statement |
|---|---|
| `TypeCorrect` | `Spec => []TypeOK` |
| `StatusIsTrueAlways` | `Spec => []StatusIsTrue` |
| `NewestFirstAlways` | `Spec => []NewestFirst` |
| `NothingSkippedAlways` | `Spec => []NothingSkipped` |
| `RestIsCaughtUpAlways` | `Spec => []RestIsCaughtUp` |

`StatusInv` adds to `StatusIsTrue` the fields of the page and that a tail whose start is blocked is
off; `EffectStatus` is the lemma about the effect of React that starts and stops loops, and a loop
that was stopped (`OldLoopReturns`) changes nothing. The others need what is between the ring
and the page. `StreamInv` says of every prefix of the wire that the rows before its last one are received, passed
over (`Passed`: not owed, or lost at one of the two places, which `Pass` records), or earlier on
the wire (`Accounted`); of the buffer of the subscriber the same; and of a
subscriber that was not dropped, that this is so of all rows of the process. Whatever is cut
off is then above the cursor, and the next stream asks for it. `Past` is the order: what was sent is
newer than what is shown and older than what waits. `RestIsCaughtUp` is the case of an empty wire and
an empty buffer, with `StatusInv` for the connection.

The same module proves what the comments of `api/page-state.ts` promise, for every load, of the
operators of `PageState` that `LiveStream` and the pages are built from:
`EmptyIsTrue` (empty means a successful load of nothing), `StaleIsKept` (rows beside an
error were loaded, and never beside a refusal), `ZeroIsKnown` (no count of zero is shown
of a list that is not known) and `ClampedPage` (an offset the list has shrunk below leads
to its last page).

The same module proves of the addresses and of the tab, for every hash and every set
of texts in them: `CanonicalIsFixed` (the address that replaces an old one is of the same
place and is itself left alone), `UnknownGoesHome` ("Unknown live hashes rewrite to
Overview") and `RouteIsKept` (`SpecRoute => [](AddressAgrees /\ SomethingShown /\ PaletteOnRow)`).
`RouteInv` adds to the three that the address is a hash and that the rows of the palette
are rows of the side bar (`PaletteOk`). The core is that a hash written by `serializeHash`
is read back as what was written, tab by tab (`SideRoutes` for what a click can ask for);
then each action has its case. These three theorems are proved and are not in a run: the
hashes are all sequences of segments, and the side bar all tabs of the program.

`ConsolePagesProofs` proves of the 33 pages, for every inventory and any number of clicks and
troubles (`PagesAssumption`):

| theorem | statement |
|---|---|
| `PagesAreSound` | `Spec => []PageInv` |
| `QuietPagesAreIdle` | `Spec => []QuietPageIsIdle` |
| `WritesComeOneAtATime` | `Spec => []OneWriteAtATime` |
| `NewestLoadsAreShown` | `Spec => []NewestLoadShown` |
| `SecretsAreOfLiveKeys` | `Spec => []SecretIsOfLiveKey` |

`QuietPageIsIdle` says nothing of a page with requests under way, so it is far from inductive.
`PageInv` says who the page is waiting for. Whatever is raised has a request under way
whose handler lowers it: a busy flag one that ends with that flag (`Holds`), a load one of a
handler that ends a load (`LoadOps`), and on the pages that number their loads the one with the
newest number (`Carries`). On the pages that write one thing at a time, a request that writes is
marked by its flag, there is one marked request at most, and only its own handler lowers the flag
(`OneMarked`). Handlers are one of four shapes (no request, one that is sent, an answer, an
answer that sends the next request), and a lemma about each (`LocalKept`, `AskKept`, `AnswerKept`,
`AnswerThenKept`) carries the invariant through; what is left for every action of every page is
to show that it has its shape: with which flag its requests end (`TailOK`) and which it leaves
alone. `OneWriteAtATime` follows because every write of such a page is marked, and
`NewestLoadShown` is the part about loads: while the number shown is not the newest one asked
for, the load of the newest number is under way. `SecretInv` is about one page: the key in the
dialog lives, or the answer of its revocation is on the way, and the handler of that revocation
captured this very key; as two keys are never written at once, nothing can have put another
secret in its place meanwhile.

TLC checked `IInv` of `WebhookInbound`, `McpStdio` and `SessionMemory`, `StreamInv`, `FreeInv`,
`RestInv` (its numbers below 60), `PageInv`, `SecretInv` and `TurnsInv` on the instances of their
runs (from 50 000 to 2 900 000 states) as well: a formula that is not invariant there is not worth
a proof. `LiveStream` is written with sets and functions rather than with folds and filters, which
the provers cannot see into; so are the pages, and `Sanitize` is a recursive function for the same
reason.

Only model-checked:

- liveness (`SettlesOrStranded`, `QuietGetsNote`, `ApprovedRuns`, `CallsEnd`, `OnlyAZombieStays`), which
  needs fairness and ENABLED;
- `InOrderIsCurrent`: it relates the rows a page shows, those of the gateway and the order of the
  requests that will reconcile them, and each of the 33 pages reconciles in its own way (a load, a
  patch of its rows, a detail), so that the invariant is one of each page.

Nothing is assumed but the named assumptions on the constants.

## 6. Findings and remarks

Runs that fail, each against a sentence of the repository:

1. `webhook_at_least_once`: nothing puts a `running` job back in the queue, so a
   restart, a panic or a failed write strands it and its callback may never be sent.
2. `mcp_second_call`: the server of a stdio connector is killed when the attempt that
   started it returns and is not started again, so every later call fails until the
   connector is replaced. The test of two calls uses pipes that nothing closes
   (`PipesServed` holds of those).
3. `live_dropped`: a slow subscriber is dropped so that it reconnects and replays, but a history
   that arrives meanwhile and does not reach back to the cursor takes it past the rows the
   subscriber had not been sent, and the next stream begins after them. With the sizes of the
   code (a buffer of 32, histories of 100 rows, a ring of 1024 in serve) that takes more than 100 rows between
   the cursor and the history.

Remarks from the reading, which no run checks:

- `Sanitize` opens only calls with an id (`history.go:159`), so a stored text that decodes to
  a call without one (posted, or a reply of the model that is such JSON) is sent to the model
  with a call no result answers, where its comment says that unmatched entries are dropped
  (`history.go:92`).
- `.planning/specs/067-durable-webhooks.md:89` lists five delays; they make five attempts
  and four waits, and the last delay (6h) is never waited for (`worker.go:145`).
- Overlapping requests with one Idempotency-Key each run the chat and get a job each
  (`registry.go:538`).
- A note is stamped when it is saved, not when its messages were read (`idle.go:259`):
  messages in between count as covered and are not summarised until a later one comes.
- An approved connector tool that has the name of a builtin tool is run by the gateway as
  well (`runtime.go:147`, where `gate.go:82` speaks of tools of the connector).

- A retry of a webhook job runs the chat again, in a new session each time;
  `runWebhookChat` answers an error of the model with an `echo:` reply and no error.
- Made-up call ids repeat between turns, so that overlapping turns may show each other's
  results (`ResultsAreOwn` is stated of turns that did not overlap); a duplicate id in
  one reply leaves one result.
- `flush` takes a session it cannot read for one to pass over, and remembers it as
  checked (`passed` in the model). A session that is quiet for longer than the
  lookback while the process is down gets no note.
- `RelayDecision` counts a 4xx of the connector as delivered. A decision cannot be
  retried. The client's disconnection cancels the tool and the relay.
- `bridge/memory.go` refreshes a note when the turns are 12 plus a multiple of 6, which
  overlapping replies may step over.
- `team/evolve.go` keeps an empty snapshot when the instructions were empty, which it
  later takes for nothing to roll back.
- After a call over stdio has run out of time, a later call may return its answer
  (`OwnAnswer` is stated of the calls before that), and a request whose call has
  already returned may still be run by the server. An error the server answers with
  is retried over stdio, where the HTTP mode returns it.
- The stdio reader takes the next frame for the answer whatever its id or method
  (`mcp.go:236`): a notification or a request of the server would be the result of the call
  (`astray` in the model, and `OwnAnswer` is stated of the calls before such a frame).
- Nothing waits for a stdio server (`mcp.go:276`): a killed one stays a zombie, with the
  goroutine that watches its context and the pipes, while goso runs (`OnlyAZombieStays`).
- The subscribers of the event ring that are too slow have their channel closed,
  where the comment speaks of dropped events.

Remarks on the console:

- `SEG_TAB[head]` finds the properties every object inherits (`hash-route.ts:289`): for
  `#/constructor` and `#/__proto__` the address becomes `#/overview`, and `App` shows no
  page until the next click (`NamesInherited`; the theorems of `ConsoleProofs` say
  where they except it).
- Loads that overlap: a page that does not number its loads may settle on the rows of an
  older one, or, where a filter or a path was changed meanwhile, on the rows of another
  filter (API keys, activity, tenants, knowledge graph, storage); a reload after a write
  uses the filter of the render the write began in.
- A dialog that was opened for another row while a write ran is closed by its answer
  (pairing, pending, approvals, nodes, API keys, packages, workstations, storage).
- Flags: a preview of a file clears the busy flag of an upload; the test of a workstation
  takes that of a save; choosing another import file clears that of an import that runs
  and keeps the tick of the confirmation. `OneWriteAtATime` leaves these pages out.
- Webhooks: a rotation answered around a revocation shows a secret that opens nothing.
- Memory: a note opened while another is being saved ends with the first note chosen under the
  text of the second; the next save writes it there.
- Settings: `load` swallows its errors, so that `run` says saved whether or not the list
  could be loaded; the error of one CRM section shows in the next.
- Drafts: a load of the channels, of the speech settings or of the backup page drops what
  was being typed (secrets, edits, S3 keys); saving an allow list drops the draft
  also when the save fails.
- Teams, agents, connectors, providers: an answer that was about one row changes the
  selection or clears the token of another one chosen meanwhile. Tools: with two loads
  under way, the tools of one agent may show under another.
- Sessions: an old list brings a deleted row back. Chat: `persistAgent` and `persistModel`
  look at no generation, so a failed save puts back an agent on another session's page,
  and a choice of a model is overwritten by a load under way. What `stillCurrent` knows
  ends with the page: a session that is gone, found out after the tab was left, clears the
  selection made meanwhile.
- A deletion compares with the session that was open when it began (`App.tsx:176`), so a
  session that is picked while its deletion is under way may stay open after it, where
  `docs/qa/092-chat-sessions.md:22` says that the delete of the open session clears it; in the
  mirror case a session picked meanwhile is closed in place of the deleted one. `RestIsTrue`
  sees the first only where answers come in order, and then the load of the session closes it.
- `docs/qa/092-chat-sessions.md:21` says that a dropped stream reloads the history; the
  page asks for the messages and looks only whether the session is gone
  (`ChatPage.tsx:385`). `docs/qa/111-logs.md:37` speaks of a stop that resets the tail;
  the cursor is kept (`LogsPage.tsx:235`).
- Logs: a tail paused or cut while its cursor is still 0 is resumed with a stream that replays
  nothing (`handlers_logs.go:55`), so the rows of the pause show only after a refresh
  (`NothingSkipped` names the case).
- Events: the stream handler hides the rows of a restarted gateway whose numbers are below
  the old cursor (`handlers_events.go:56`), where that of the logs forgets the cursor.

## 7. What is not modelled

`PROJECT.json` gives the reason for each component. In short: pure I/O (builtin
tools, backup, storage, speech), text in and text out (prompts, recall, search,
reply checks), wire formats (channel adapters, providers), tables behind one lock
(rate limiter, tenants, nodes, API keys), and the tables of texts, icons and sample pages
of the console. `mcp/` is one HTTP request a tool, and `desktop/` starts a process. Within the modelled
components: the bodies and signatures of callbacks; hooks, spans and the system
message of a turn; what summaries say; errors of `LatestSummary`; authentication.
The order of timestamps as text in SQLite, which differs from the order of times
within a second, is left out as well: every property of `WebhookJobs` but the order
of claims holds for any order. Of the console: what is typed in a field, the values of
a row beyond its version, the formatting of texts and numbers, redaction, and the
composer of the chat; reads of several lists that a page sends at once are one request
where nothing tells them apart.

## 8. The plan

Order, the most important first; done: 1 to 14.

1. `WebhookJobs` with `WebhookDelivery`: state, runs, refinement.
2. `WebhookJobsProofs`: type invariant, safety, refinement.
3. `WebhookInbound`.
4. `ChatHistory`, `ChatTurns`.
5. `SessionMemory`.
6. `ApprovalGate`, `ApprovalGateProofs`.
7. `McpStdio`.
8. `PageState`.
9. `ConsolePage` and the pages, `ConsolePages`.
10. `LiveStream`.
11. `ConsoleChat`.
12. `ConsoleChatProofs`, `HashRoute`, `ConsoleRoute`, `ConsoleProofs`.
13. `WebhookInboundProofs`, `McpStdioProofs`, `SessionMemory` in `SessionProofs`; the order and
    the completeness of a tail in `ConsoleProofs`, `FreeWhenQuiet` and `RestIsTrue` in
    `ConsoleChatProofs`.
14. `ConsolePagesProofs`; `ChatHistory` and `ChatTurns` in `SessionProofs`.
15. `Evolution`: suggestions applied, watched and rolled back, against an operator who
    edits (`team/evolve.go:264`: the snapshot is a second write, which may fail).
16. `UsageMeter`: ids that begin again after a restart (`billing/store.go:65`), a quota that
    is read before a chat and counted after it (`billing/quota.go:75`).
17. `CronRunner`, `TelegramPoll`: a fire and its mark (`cron/runner.go:67`), an offset in
    memory (`channel/telegram_live.go:182`), across a crash.
18. `ChannelPairing` (`channel/pairing.go:47`, `:100`), `PendingBuffer`
    (`channel/pending.go:307`), `BridgeMemory` (`bridge/memory.go:180`), the subscriptions of
    the webhook registry (`webhook/registry.go:261`), the connector registry
    (`connector/registry.go:71`).
19. The text of the forms of `MemoryPage` and `AgentsPage`, so that a property can say
    which row a text is written to.

Abstract specifications worth stating next: an idempotent request as one atomic step per
key, which `WebhookInbound` implements for requests in sequence; a tail as a queue of the
rows that are owed. Theorems worth proving next: `InOrderIsCurrent`, one page at a time, from the
lemmas of `ConsolePagesProofs`.
