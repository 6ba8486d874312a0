# SyftHub: specifications, model checks and proofs

TLA+ modules of the parts of SyftHub whose correctness depends on the order in
which goroutines, coroutines, threads, processes, transactions and messages act; the
TLC configurations that check them on small instances; and proofs, checked by the
TLA+ proof system (TLAPS), that hold for every value of the constants.

    tlc -workers 2 -config MCAgentSession.cfg MCAgentSession     # one run
    tlapm AgentSessionProofs.tla                                 # one module of proofs

`PROJECT.json` lists the components of the system, the hazards of its code, the
runs, the mutants and, for every definition, the lines of source it stands for.

## 1. The system

SyftHub connects users with *endpoints* (models, data sources, agents) that run
on their owners' machines, in a *Space*. Four processes take part:

    client (SDK, browser, CLI, MCP) --HTTP--> hub (backend)   accounts, endpoints, collectives, tokens
    client --HTTP, SSE, WebSocket--> aggregator               retrieval, generation, agent sessions
    aggregator --NATS tunnel, end-to-end encrypted--> Space   request/reply, agent sessions
    Space --subprocess or container--> endpoint code
    Space --HTTP heartbeat--> hub;  hub health monitor reads the heartbeats

Two kinds of concurrency run through it. In the Space and the aggregator, goroutines and
coroutines share channels, tables and connections. In the hub, requests run in threads
of several worker processes, and almost every repository call is a database
transaction of its own: what a request has read may be stale when it writes, and a
write that fails is often logged and passed over.

### Components

| component (source) | state | operations | hard behaviour | correct when | modules |
|---|---|---|---|---|---|
| Agent session (`sdk/golang/syfthubapi/agent.go`) | sendCh, recvCh, done, context, sequence, onDone | Send, Receive, DeliverMessage, Cancel, RunHandler | bounded channels, several goroutines that send, panic, cancellation at any point | the events of each goroutine keep their order, the end is reported truthfully and last, everything winds down | `AgentSession` |
| Event relay (`transport/nats.go`) | session keys, subscription | encrypt, publish, drain, dispatch | loss on every step | what the peer sees is an event stream | `AgentSession`, `TunnelRequest` |
| One-shot invocation (`processor.go`) | collected events | collect, cancel on an input request | a handler that waits for an answer nobody can give | returns in every case | `AgentSession` |
| Session manager (`session_manager.go`, `transport/nats_kv.go`) | table, registrar, KV bucket | Start, Route, Cancel, OnDone, reaper, CancelAll | four parties on one table, part of the work outside the mutex, KV failures and expiry | table bounded, nothing runs out of reach, table and registry agree | `AgentSessionManager` |
| File-mode agent process (`filemode/agent_executor.go`) | process, pipes, reader, writer | start, bridge, kill | blocked pipes, inherited pipes, process exit against the reader | is a handler as the session assumes it; ends when cancelled | `AgentSubprocess` |
| Aggregator agent relay (`api/endpoints/agent.py`, `services/session_manager.py`, `services/session_transport.py`) | session state, counter, queue, subscription | start, two relays, close | two coroutines on one state, disconnects, timeouts, lost messages | the client sees an event stream; everything is cleaned up | `AgentRelay` |
| NATS tunnel (`clients/nats_transport.py`, `transport/nats.go`) | key cache, subscriptions | request, reply, retry after DECRYPTION_FAILED | timeout against a late reply, key rotation | runs at most once, one restart is hidden, every call ends | `TunnelRequest` |
| Orchestrator and its clients (`services/orchestrator.py`, `retrieval.py`, `clients/`) | per request: calls, payments, events | fan-out, pay, retry, generate, stream | sources in any order, refusals, a reader who leaves, payments repeated | stream well-formed, payments bounded, no work for a reader who left, every chat ends | `ChatOrchestrator` |
| Health monitor (`jobs/health_monitor.py`) | endpoint health, advisory lock, pool | snapshot, judge the reports, update | several workers, client reports in between | one cycle at a time, no endpoint off without a reason | `HealthMonitor` |
| Accounts and one-time passwords (`auth/router.py`, `services/otp_service.py`, `services/auth_service.py`) | accounts, codes, attempts | register, resend, verify, reset, change, delete | count then act, failures passed over, addresses that change hands | bounded guesses and codes, verified means proved | `Accounts` |
| API tokens (`services/api_token_service.py`, `repositories/api_token.py`) | token rows | create, list, rename, revoke, sign in | stale rows written back | revoked stays revoked, limit kept | `ApiTokens` |
| Login tokens (`auth/security.py`, `auth_service.py`), MCP server (`mcp/server.py`), SDK client (`_http.py`, `auth.py`) | blacklist per worker; sessions, codes; tokens of a client | login, refresh, logout, code exchange, tool call | threads refresh at once, nothing is written back, restarts | a signed-in user works, a logged-out token does not | `HubSessions` |
| Identity keys (`auth/keys.py`, `auth/satellite_tokens.py`) | key files, lock, key of each worker | load, generate, save, mint, verify | workers start at once, crash, fail to save | one pair for all workers | `IdentityKeys` |
| Endpoints of the hub (`services/endpoint_service.py`, `services/rag_service.py`) | endpoint rows, search documents | create, update, delete, sync, search follow-up | two stores without a transaction | the index mirrors what is public | `EndpointCatalogue` |
| Listings and stars (`repositories/endpoint.py`, SDK `hub.py`, `_pagination.py`) | rows, star rows, counters, a reader's pages | list, group, star, walk | pages over a list that changes, read-modify-write counters | walks complete, views agree, stars counted | `EndpointDirectory` |
| User aggregators (`services/user_aggregator_service.py`) | rows with a default flag | create, update, choose, delete | several commits per request | one default | `UserAggregators` |
| Collectives (`services/collective_service.py`, `repositories/collective.py`) | memberships, shared endpoints | invite, request, decide, remove, share, resolve; views, billing | two owners on one membership, views of several queries | consent of both sides, only members shared, resolved and shown | `Collectives`, `CollectiveCatalogue` |
| Space lifecycle (`api.go`) | shutdownCh, hooks, heartbeat | Run, Shutdown, hooks | shutdown against starts in flight | no handler outlives a shutdown | part of `AgentSessionManager` |
| Container agent and runtime (`containermode/`) | event queue, last event id, containers | SSE with reconnect, restart | reconnect, lost end of stream | as for a process | - |
| Endpoint registry, hot reload (`endpoint.go`, `filemode/`) | registry, executors, debounce timer | scan, selective reload, replace | reload against requests, partial failure | registry and executors agree | - |
| Space authentication and policies, setup flow, CLI, frontend, the Go and TypeScript SDKs, configuration, observability, deployment | little | - | - | - | - |

## 2. The modules

| module | models | uses |
|---|---|---|
| `EventStream` | abstract promise: no number arrives twice, those of one source arrive growing, nothing follows the event that terminates the stream | |
| `RemoteCall` | abstract promise: a call runs at most once, an answered one has run | |
| `UnitOfWork` | what a commit writes back: the columns that differ from those read | used by `ApiTokens`, `UserAggregators` |
| `AgentSession` | one session in the Space, its handler, `RunHandler`, its consumer | refines `EventStream` |
| `AgentSessionManager` | the session table, OnDone, reaper, registry, shutdown | |
| `AgentSubprocess` | the bridge between a session and a Python process | EXTENDS `AgentSession`, refines its `Spec` |
| `AgentRelay` | the aggregator's side of a session | environment and refinement: `EventStream` |
| `TunnelRequest` | requests through NATS with the key cache and the Space's restarts | refines `RemoteCall` |
| `ChatOrchestrator` | one chat: SDK, aggregator, sources, model, wallet | |
| `HealthMonitor` | cycles of several workers, advisory lock and connection pool | |
| `Accounts` | accounts and one-time codes | |
| `ApiTokens`, `UserAggregators` | rows that requests read and write back | EXTEND `UnitOfWork` |
| `HubSessions` | who stays signed in: hub tokens, MCP server, SDK client | |
| `IdentityKeys` | key pair of several workers and the tokens it signs | |
| `EndpointCatalogue` | endpoints of an owner and their search documents | |
| `EndpointDirectory` | listings, stars, a paging reader | |
| `Collectives` | memberships, shared endpoints, their resolution | |
| `CollectiveCatalogue` | slugs and public views of collectives | takes what `Collectives` does as changes of a status |
| `CollectiveViews` | memberships and views side by side | EXTENDS `Collectives`, instances `CollectiveCatalogue` |
| `CollectiveBilling` | how a member bills, from the tree of its policies | operators only, used by no other module |
| `HubRows` | rows that several transactions write back: `HealthMonitor`, `ApiTokens`, `UserAggregators` side by side | EXTENDS `HealthMonitor`, instances `ApiTokens`, `UserAggregators` |
| `HubSignIn` | who is signed in and who verifies whose tokens | EXTENDS `HubSessions`, instances `IdentityKeys` |
| `HubEndpoints` | three sides of the hub's endpoints: `Collectives`, `EndpointCatalogue`, `EndpointDirectory` side by side | EXTENDS `Collectives`, instances the others |
| `ChatTunnel` | the aggregator's side of a chat and of the tunnel | EXTENDS `TunnelRequest`, instances `ChatOrchestrator` |
| `MC...` | instances; a stuttering step in final states where the deadlock check stays on | |
| `...Proofs` | theorems and their proofs | |

How they fit together: `AgentSubprocess` shows that the bridge behaves as a handler
in the sense of `AgentSession`; `AgentSession` shows that what leaves the Space is
an `EventStream`; `AgentRelay` assumes an `EventStream` from the Space (its action
`SpacePublishes` conjoins the steps of `EventStream`), and shows that the client sees one again, in
the Space's numbering and in the aggregator's own. `EventStream` and `RemoteCall` have no source
lines: they are promises, not code. The hub's modules share no state with each other but the
accounts and endpoints, whose changes each takes as steps of its own.

Definitions named after the same function of the code keep its name. Definitions
whose comment begins with *Faulty* are no part of any specification: each is a
plausible bug in the definition below it (a lost guard, a wrong order), kept
beside the code it breaks, with which every property has been seen to fail. Variables
that are *history* record what happened and change nothing; properties use them to name, one
by one, the events that excuse the code.

### AgentSession

* `CallSend`, `SendEnqueues`, `SendAborts` split `Send` (agent.go:138-156) where it
  blocks: the number is taken first, from an atomic counter outside the select, so of two
  goroutines (`Sender`) that send at once the second number may be enqueued first. What holds of the
  numbers is what `EventStream` says: none is used twice, and those of one goroutine arrive in their order.
  The typed helpers (`SendMessage`, `SendStatus`, ...) are `CallSend` with an ordinary kind; the kinds are
  those the consumers tell apart. `Send` checks no type, so a handler may send `session.completed`
  itself, and more after it: nothing but the report of `RunHandler` (by `Runner`) terminates the stream.
  `CallReceive`/`ReceiveReturns` split `Receive`. A select with several ready cases takes any of them, as in Go.
* `HandlerReturns`, `ReportTerminal`, `CleanUp` are the goroutine of `RunHandler`
  (agent.go:299-361): its report is a select with a default, its deferred function
  runs OnDone, closes sendCh, then done. A panic is the result `"panic"` and takes
  the report of the deferred function.
* `RelayStart` chooses `publishing` or, without an encryptor, `draining`
  (nats.go:160-170), or `collecting` for the one-shot loop (processor.go:367-392).
* A handler is user code. It may do anything the API allows, from any number of goroutines;
  it is assumed to have no Send in flight when it returns. For a file-mode agent
  this is not an assumption: `SendsWithinHandler` checks it.

### AgentSessionManager

* `BeginStart`, `Refuse`, `RefuseFull`, `Insert`, `Register`, `RunHandler` split
  `StartSession` (session_manager.go:120-204) where it gives up the mutex;
  `OnDoneUntrack`, `OnDoneDeregister`, `CloseDone` split OnDone in the same way;
  `Reap` and `CancelAllSessions` are single critical sections, as in the code.
* The dispatcher handles one NATS message at a time, so starts and cancels do not
  overlap each other. Session ids are fresh UUIDs.
* The registry is the KV bucket: a put or a delete may fail (`KVMayFail`), a key
  may expire (`Expire`), the registrar appears only when NATS is connected
  (`SetRegistrar`). `kvMissed`, `kvFaulty`, `kvExpired` are history.
* `m.registrar` is read outside the mutex. The model reads it atomically; a torn
  read of the two-word interface value is not modelled.

### AgentSubprocess

* The handler (agent_executor.go:153-282): `StartProcess`, `StartFails`,
  `WaitReturns` (`cmd.Wait`), `JoinReader` (`wg.Wait`), `CancelOwnSession`, `Return`.
* The reader: `ScanFills` (a read takes any number of lines from the pipe into the
  scanner's buffer), `ScanSkips`, `ScanStops`, `ReaderCallsSend`,
  `ReaderSendReturns`. The writer: `WriterCallsReceive`, `WriterReceiveReturns`,
  `WriterEncodes`.
* The process: writes lines, reads messages, starts processes that inherit its
  pipes, exits or is killed. A line is an event of any type, junk, or too long for the scanner.
* `cmd.Wait` is modelled by what `os/exec` does with a `StdoutPipe` and a buffer for
  stderr: it returns when the process is gone *and* stderr is at its end, and then
  closes the pipes.
* The bridge forwards the type of a line as it is, so runner.py may write `session.completed`
  itself (`Written` says which lines an instance has). As its reader is the only goroutine that sends,
  the numbers of a file-mode agent grow along the whole stream (`NumbersGrow`).

### AgentRelay

* An action is what runs between two awaits of the event loop. `DownTakes` ends at
  the await of `send_json`, and `DownSends` looks at a state the other coroutine may have
  changed meanwhile; the same split is made at every await of the upward relay.
* `Subscribe`, `PublishStart`, `SendCreated`, `CancelOnDisconnect`, `GatherReturns`,
  `Close` are `agent_session_ws` and `start_session`, with every exit they have.
* `OnMessage` is the subscription's callback. What cannot be decrypted is lost.
* The relay ends at any event of a terminal type, the handler's own as well as the report of `RunHandler`: what
  the client sees ends there (`ended`), though the Space may go on.
* The client may send any of five sorts of messages and leave at any time; the
  send to a client that left may go unnoticed or raise.

### TunnelRequest

* A call of the aggregator is cut at its awaits: `GetSpacePublicKey`, `FetchKey`, `StoreKey`,
  `SendRequest`, `ReceiveReply`, `Timeout`. Calls share one peer channel and one key cache; a reply that
  concerns nobody is dropped by the correlation id (`Concerns`).
* The Space starts (`Start`, `RegisterKey`, `Subscribe`, in the order of api.go:397-406), takes requests, may stop or crash and come back with a
  new key. Requests and replies may be lost.
* Decryption is a comparison of key numbers.

### ChatOrchestrator

* `StartChat` is the SDK's preparation; `Complete`, `Retrieve`, `Stream` what it does with the answer.
  Each endpoint has a call in one of the states idle, waiting for a reply, challenged, waiting to retry, over; `Settle`, `Challenged`,
  `WalletSigns`, `WalletFails`, `NoChallenge`, `AskAgain`, `Backoff` are the steps of `DataSourceClient.query` and `ModelClient.chat`,
  `TunnelAnswered` those through NATS.
* A reply is one of what the clients tell apart: ok, empty, of a wrong shape, 402, denied, rate limited, 5xx, other failures, timeout, unreachable.
* `events` is the SSE stream. The phases of `process_chat` and `process_chat_stream` are `Retrieve` to `FinishChat`/`FinishStream`;
  `TearDown` is what starlette does when the reader has left.
* A payment request is at the hub from the moment it is sent. A call that is cancelled or times out while it waits for the wallet leaves its
  request there (`unsettled`), and the hub may still sign it (`WalletSignsLate`).

### HealthMonitor

* The pool is SQLAlchemy's QueuePool: first in, first out, overflow closed on return. The advisory lock belongs to the connection, and nothing unlocks it.
* `AcquireCycleLock`, `GetEndpoints`, `UpdateHealthStatus`, `CloseSession` cut a cycle at its commits; each commit returns the connection.
* Reports arrive and expire at any time; `AdminUpdateEndpoint` switches an endpoint off or on; workers crash and restart.

### Accounts

* A handler is cut at its repository calls. `RegisterUser`, `CreateUser`, then `CountRecent`, `InvalidateExisting`, `CreateOtp`, `SendOtpEmail`;
  `VerifyOtp`, `IncrementAttempts`, `MarkUsed`, `ReadUser`, `SetEmailVerified`. Repository calls that fail return False or None, and the handler goes on as written.
* Addresses change (`UpdateUser`), accounts go (`DeleteUser`) and come back, Google's accounts need no code.

### ApiTokens, UserAggregators, UnitOfWork

* `Flush` is what makes a stale write harmless: SQLAlchemy writes only the columns that differ from those read, so a late "last used" does not
  undo a revocation. `RevokedStaysRevoked` fails when the whole row is written.
* In `UserAggregators` a session's reads are kept until its next commit (`seen`), as several rows are read at once and looked at one by one.
* A query that fails ends its request, since PostgreSQL has aborted the transaction; the count that returns 0 on failure
  (`count_user_tokens`) is therefore never followed by an insert.

### HubSessions

* `VerifyToken`, `Blacklist`, `Blacklisted`, `Live` are auth/security.py; `BeginLogin`, `GetUserInfo`, `FinishLogin`, `ExchangeCode` the MCP server's OAuth;
  `StartCall`, `SendRequest`, `AnswerRequest`, `Refused`, `MayRefresh`, `Adopt` a tool call with its threads.
* Tokens carry user and expiry only, so two of one user issued within a second are one string; a token is named by its time.
* Time runs in steps of the resolution of `exp`; the assumption `Lifetimes` states how the lifetimes compare in the defaults.

### IdentityKeys

* `Look`, `ReadPrivate`, `ReadPublic` are the unlocked first look; `AcquireLock`, `GenerateKeypair`, `SaveKeys` (two files, each truncated first),
  `ReleaseLock` the generation. A worker may end between any two of them, which frees its `flock`.
* Only the mode that generates its keys is modelled; keys from the environment are read and never written.

### EndpointCatalogue and EndpointDirectory

* `EndpointCatalogue` follows requests of one owner step by step: the write, then the follow-up in the search index, then the column that names the document.
  `DeleteUser` is the cascade from the account, at any moment: it takes the rows and calls no search service. `disturbed` is history, too: the endpoints that an
  overlap or a failed call has left in doubt, until a request on its own publishes them again.
* `EndpointDirectory` takes those changes as single steps and has the readers: the views as operators, the SDK's page iterator (`FetchPage`), the
  star's row and counter (`WriteStarRow`, `ReadCount`, `WriteCount`). No code writes `updated_at` after the insert, so the order is that of creation.

### Collectives, CollectiveCatalogue, CollectiveBilling

* `Collectives` cuts a request into load, read of the row, write; rows are written by id whatever they have become. A request has an actor: the owner of the endpoint or
  of the collective, an admin, who may act for either side, or anybody else, whom the handler turns away (`Speaks`, `Sides`, `MayRemove`). `consent`, `everApproved` and `window` are history.
* `CollectiveCatalogue` has the views as sequences of queries (`Queries`), between which memberships, endpoints and collectives change (`SetStanding`, `SetShared`,
  `DropCollective`, `DropEndpoint`, `Toggle`, `Hide`); pending, invited and rejected are one status.
* `CollectiveBilling` has `Classify`, the billing classification over policy trees, apart from the views, which never read policies. It is compared
  with a reference (`Billed`: the leaves in force decide) on all lists of at most two policies wrapped at most twice, in the
  assumption `BillingFollowsPolicies`, which TLC evaluates whenever `collectives` runs.

## 3. Runs and bounds

| run | instance | shows |
|---|---|---|
| `session` | 2 sending goroutines, channels of 2 and 1, 3 sends of any type, 2 messages | a truthful report of the end, last; refinement of `EventStream`; cancelled and one-shot sessions wind down |
| `manager` | 2 sessions, 1 slot, KV failures and expiry | nothing out of reach, agreement with the registry in both directions; slots and keys are given back |
| `subprocess` | channel 1, pipe 1, stdin 1, 3 lines: an input request, a terminal type, junk, over-long | the bridge implements the handler `AgentSession` assumes; output flows, the writer ends, a cancelled bridge returns |
| `relay` | 1 goroutine and `RunHandler`, 3 events, a terminal type of the handler's own among them, 1 user message, failing NATS | the client sees an `EventStream` in both numberings; the subscription precedes every event; a terminal event reaches the client and ends the handler |
| `tunnel` | 2 calls, 3 keys | refinement of `RemoteCall`; one restart of the Space is hidden by the retry; every call ends |
| `chat` | 2 sources and a model, any mode and tunnelling of the requests in `MCRequests`, 6 replies, 1 retry, 1 heartbeat or chunk | payments per attempt, order and end of the stream, a refused source stops it, the model is asked no more for a reader who left and paid at most for a request already at the hub, every chat ends |
| `collectives` | 2 endpoints (1 joinable), 2 requests of any actor, 2 rows, 2 shared endpoints; or 2 collectives, 2 endpoints, 2 changes or failures, 1 reader | consent, sharing, resolution; every view is of members and agrees with the other views; members bill by the policies in force |
| `rows` | 2 workers, pool 1 + 1, 1 endpoint, threshold 2; or 2 threads, 3 tokens, limit 1; or 2 threads, 3 aggregators, 1 lost call | one cycle at a time, no endpoint off without a reason; token limit and revocation; one default |
| `accounts` | 2 threads, 2 addresses, 2 accounts, 3 codes, 1 attempt, 1 code per window, 1 failing call, 4 requests | guesses and codes are bounded; verified means proved |
| `catalogue` | 2 threads, 3 ids, 3 requests, 1 failing call; or 2 owners, 3 entries (the first two of different slugs), page size 1, 2 changes, 1 failing query | index mirrors what is public, or was when the account went; a sync replaces; listings agree and walks are complete; stars are counted |
| `identity` | 2 workers, 2 keys, 1 token, 2 users | all workers sign with one pair; the lock comes free |
| `hub` | 1 worker, 2 threads, 1 device, time 3 | a signed-in user stays so; a logged-out token is refused; every call ends |

Three runs are of two or three modules at once (`collectives`, `rows`, `catalogue`): a behaviour is one of one of the modules,
with the variables of the others at rest, so nothing is learnt from their combination and nothing lost. `hub` and `identity` check the two
parts of `HubSignIn` one by one (`SessionsSpec`, `KeysSpec`), `chat` and `tunnel` those of `ChatTunnel` (`ChatSpec`, `TunnelSpec`), as each has fairness of its own. All runs end within
four minutes.

Why the bounds are enough. Each channel is shorter than what is written into it, so full,
empty and partly filled occur. There are more sessions than slots: a start is refused, and
a slot is used again. The subprocess has a line in the pipe, one in the channel and one in flight
at the same time, so that every stage is blocked by the next. Three events are the least with which an
order can be broken in the middle, and let two goroutines overtake each other before the report of the end. Three keys allow a second restart between a refusal and the retry. Every race in
the hub is between two threads on one row or on a count, and every limit is one, so that a second thread is
one too many; a third token, code or row lets one be made after another is gone. A page size of one puts every entry on
a page of its own. One failing call at a time is what the error paths of the code are written for.
Time runs past the life of an access token and a code (`hub`), so that every refresh and expiry happens. The safety
properties of the modules with proofs hold for every value of the constants (section 5).
`accounts`, `catalogue`, `rows` and `collectives` use symmetry in threads, slugs and users, and check no liveness.

## 4. Fairness

* Go and the event loop run whatever is not blocked: weak fairness on each goroutine's
  or coroutine's own steps. A select that can take two cases may always take the same.
* The handler is user code. In `session` it is assumed to return once its context is cancelled
  (`HonourContext`), and nothing else; for a file-mode agent not even that is
  assumed, the kill and the pipes give it. `manager` assumes nothing of handlers:
  the reaper has to cope with one that ignores its context.
* The deadline of a one-shot request passes (`Deadline`); a deadline exists since
  the context of the request has a timeout (nats.go:563-569).
* The kernel moves a line into a pipe with room and delivers a kill; nothing is
  assumed of runner.py or the processes it starts.
* NATS delivers or loses each message. Nothing is assumed of the client, nor of
  the Space. The inactivity timer of `receive_json` fires if nothing arrives; so do the timeouts of the
  tunnel (`Timeout` is part of the fair step of a call).
* A chat's calls end because every HTTP request has a timeout, which is one of its answers; nobody is assumed to stay.
* A worker's startup goes on (`Startup`) unless the worker ends; a waiter of the file lock gives up after its timeout.
* A tool call's threads and the call itself run on; time need not pass.

Deadlock is checked in every run but `accounts`, `catalogue` and `collectives`, which bound the number of requests; after the last one nothing need happen.

## 5. What is proved

The proofs use the named assumptions of the modules only: capacities and bounds are
naturals (page sizes positive), `Sessions`, `Thread`, `Worker`, (for the views of collectives) `Endpoint` and (for the catalogue and the stars) `Request` are finite sets, every endpoint has
an owner, every slug a type, flags are Booleans, `Idle` is no session and `Jwt` no API token.
Two say more, as the code's constants do: `AccountsAssumption` takes a limit of at least one code
per window, since the account of the initial state has got one, and `Lifetimes` lets a refresh token (seven days) outlive a login, a code,
a JWT and a call together.

Each proof has the same
three parts: an inductive invariant that is stronger than the property, since the property
alone says nothing about the states in between; lemmas that the initial states satisfy it and that each action (or group of
actions of one process) preserves it; and the step from it to the property. Type correctness is a theorem of each of these modules, so no run
repeats it. Every inductive invariant was model-checked as an invariant of its run before it was proved.

* `AgentSessionProofs` begins with lemmas about the channel. For the session, `IInv` is the type invariant, `Control` (only a running
  handler has a Send in flight, only the report comes from `Runner`, a stopped relay has emptied a closed channel),
  `InOrder` and `TerminalIsLast`. `InOrder` says of any number of goroutines that no number is used twice, and that what one goroutine sent is seen by the
  peer before what it has in sendCh, and this before what it has in flight. `OrderPreserved` and `TerminalEventIsLast` follow at once.
  `ImplementsEventStream` shows that every step is a step or a stutter of
  `EventStream`: a relay's step delivers the head of sendCh, which `InOrder` lets follow all that arrived before,
  and only the report terminates. For the subprocess, `SubIInv` is the type, `BridgeControl` (the session's handler runs exactly as long as
  the bridge; the reader is in a Send exactly when the session has a call of Send; a joined reader
  has stopped) and `LinesCounted` (numbers taken and lines in the buffer, in the pipe and in the process's hand
  are never more than the lines written). `BridgeIsHandler` is the refinement of
  `AgentSession`'s `Spec`, `SendsWithinHandler`, whatever event types the process writes. With the session's invariant and its single sender it gives `FileModeStream`:
  `NumbersGrow`, an `EventStream` of one source.
* `AgentSessionManagerProofs`. `IInv` adds to the properties: `OneStart` (the dispatcher is in at most one
  start), `TablePhases` (which phases of a session belong to the table), `StartUndisturbed` (nothing happens to a session
  between the parts of its start but what the code lets happen) and `RegistrarFirst` (no key without a registrar).
  `NothingOutOfReach` and `TrackedStaysVisible` rest on `StartUndisturbed`: a session is
  registered and run after the mutex has been given up, and it is `OneStart` that keeps its cancel
  message behind its start. The theorems are about every finite set of sessions.
* `AgentRelayProofs`. `IInv` is the type, `Control` (states of the handler, the two
  relays and the subscription that go together), `Numbers` (the relay's own counter), and `Path`: whatever the client has seen, the relay holds, the queue and the wire hold
  are events the Space has published, and of any two of one source the earlier is further on its way (`AllBefore` between the stations, `Ordered` within a queue).
  Nothing is published behind the report, so nothing stands behind it in a queue. `SubscriptionFirst` and `ClientStream` follow.
* `ChatTunnelProofs`. Tunnel: `IInv` says where the one request of a call is: `Unsent`, `OneThing` (in the inbox, at the handler or among the
  replies), `RunsTold` (and what that tells of the endpoint's runs); and how keys are ordered: `KeyOrder`, `SecondAttempt`. `ImplementsRemoteCall`
  maps every step to a step or a stutter of `RemoteCall`; `OneRestartIsHidden` follows from `SecondAttempt`.
  Chat: `Paid` says what an attempt has paid at each place of its call, which bounds the payments (`PaymentsAreBounded`). `Phased` ties the events to the orchestrator's
  place: they are in order (`Good`) and none is ranked above the phase it has reached, so that whatever it emits next may follow (`AppendOne`). `Retrieved` and `PastRetrieval` say that
  whoever ranks, generates or has asked the model has an answer of every source and no refusal among them: `StreamsWellFormed`. `ModelQuiet`, that the model's call is closed once the response task of
  an abandoned stream is gone, gives `ModelStaysAlone`: the call stays as it is, and what the model has been paid or may be (`Due`) does not grow.
* `HubEndpointsProofs`. Collectives: a request writes what it decided from rows it read before, so `IInv` says what its decision
  still means: `InsertConsented` and `UpdateConsented` (what is about to be written has the consent it needs, together with
  whatever the row gathered meanwhile, or the row is gone), `NotYetUsed` (row ids grow, so a row that is gone stays gone),
  `ApprovedRecorded` and `CheckedOnceApproved` (ids that passed the check were approved once). `BothSidesAgreed`,
  `OnlyMembersShared`, `OnlyMembersResolved` hold for any number of endpoints, requests and rows.
  Catalogue: row, search index and the column that names the document are written one after the other, so `Followed` says of every endpoint that is
  not in doubt that at most one request is about it, and how far the index may lag at that request's place (`Stage`); with no request, they agree (`Mirror`). A step of a request has
  only to do its duty by each endpoint (`Obliged`); `FollowedKept` shows once that the rest follows: `IndexIsMirrored`. A deleted account leaves rows and documents where their requests had them, and the requests on them end in doubt. `SyncsApart`
  holds a sync to the rows it has seen when it deletes, and gives `LastSyncReplaces`. Stars: `Balances` is the property; it needs `Counters`,
  that the one update about to be written has read what the counter still is: `StarsAreCounted`.
  Listings: a page is named by its number only, so `WalkIInv` counts, for an entry, those ahead of it in the list as it is now. `YetToCome`: while nothing leaves the list,
  what stays in it and has not been read has at least as many ahead of it as have been read. `Passed`: while nothing joins it, what has been read has fewer. A change moves
  the count the right way, and a page takes what has between *n* and *n* + page size ahead of it (`PlaceInOrder`): `ListingsAreFaithful`, for every page size. `PathsUnique` gives the
  agreement of the views in one state (`ViewsAgree`).
  Views: `ViewsIInv` says which queries a request may have before it (`Follows`); what it has read has been approved while it read, or was asked for by the
  owner (`Observed`); and if nothing has changed since it began, it is what the rows say (`Current`, query by query). An answer that still stands, that is, since which nothing has changed,
  says what the rows say (`Says`), whichever view gave it; so two of them agree (`SaysAgrees`): `ViewsAreFaithful`. It needs `SlugsUnique`, that a slug leads to one collective, as the views by slug read
  whatever they find.
* `AccountsProofs`. A limit is checked by reading and then used by writing, so what is bounded is not the counter but the counter together with the threads
  on their way to it: `AttemptsCounted` adds the threads that have read a code and not compared yet, `WindowCounted` those that have passed the rate limit and not
  inserted yet. The other threads are the whole overshoot, which is what `ComparisonsAreCapped` and `WindowsAreCapped` state. `Given` says that ids are used once;
  `Presented` follows an address from the code to the account that is verified, across changes of address, for `VerifiedIsProved`.
* `HubRowsProofs`. Monitor: `CycleHasLock`, that while no pool has closed the lock's connection, the lock belongs to the worker whose cycle runs,
  whichever connection the cycle uses by now; from it `CyclesExclusive` and `DeactivationJustified`, for all pool sizes and any number of workers.
  Tokens: `SlotsCounted` counts the active tokens and the requests past the limit; `RevokedInactive` says that a request about to write a token back has not read it
  inactive while it is active, so that the columns it writes cannot undo a revocation: `TokensAreCapped`, `RevocationIsFinal`.
  Aggregators: a request that nothing disturbs (no other request, no failed call) is alone, and `Stage` says of every place in it what it has read and which rows
  may be the default; at rest one is: `DefaultIsUnique`.
* `SignInProofs`. Sessions: `LoginsTimely`, `CodesCovered`, `JwtsCovered` add up the lives of login, code and JWT, so that a session's refresh token outlives every call that
  begins with the JWT (`CallTimely`, `Lasts`); `Refreshed` follows the tokens of threads that refresh at once, whichever stores its own last; `BarredListed` keeps a
  token in the blacklist as long as it would be accepted, through expiry, cleanup and restarts. `SignedInStaysSignedIn` and `LogoutsHold` follow.
  Keys: unless a save was cut short or a lock not obtained, `Together` says that the two files appear together except while somebody writes them, and `Stage` what a
  worker holds of them at each place of its startup, `SignedByPair` that every token is signed by their pair: `TokensAreVerified`, for any number of workers and restarts.

Every safety invariant that a run checks is a theorem. Only model-checked: every liveness property and the absence of deadlock (fairness and
ENABLED are out of TLAPS's reach), and the billing classification, a recursion over policy trees of any depth, whose proof
would take induction over data. `CollectiveBilling` is the one
module with RECURSIVE operators, and no module with a theorem reaches it. Lists are sorted by a choice of the one order that descends (`Newest`), not by recursion, so that
the listings can be proved about.

## 6. What the code does not do

What follows was found while modelling. The models contain all of it where they have the state for it, and the properties name it as an exception.

The Space and the agents' path:

* The report of the end is dropped when sendCh is full (agent.go:338-359), although it is said to be sent before the channel is closed.
* Events of two goroutines may be enqueued, and published, in the other order than that of their numbers (agent.go:139-148). A handler, and runner.py through the bridge
  (agent_executor.go:231-236), may send `session.completed` or `session.failed` itself; the aggregator ends its relay there, whatever follows.
* The reaper frees the slot of a cancelled session while its handler may still run, so more handlers run than the maximum (session_manager.go:322).
* A shutdown between insertion and registration leaves a key behind; OnDone skips it since the session is no longer in the table (session_manager.go:194).
* Sessions are cancelled before the transport stops taking starts; a start in between is never cancelled (api.go:438).
* `cmd.Wait` closes the stdout pipe before the reader has emptied it: output is lost; and it waits for stderr, which a process started by runner.py
  may hold open after the kill (agent_executor.go:266, 183).
* A disconnect while the relays run ends a loop quietly, so the handler of `WebSocketDisconnect` that would send the cancel is not reached
  (services/session_manager.py:126). A refused session, or one that ends without a terminal event, leaves the relay running (session_transport.py:238). When
  `flush` fails after the start was published, the Space runs a session nobody cancels (session_transport.py:219).
* The key of a session that runs for more than two hours expires while it is active; an event received after a cancellation or a
  timeout sets the relay's state back to running.

Chats:

* A paid request that is answered with a server error is retried without its credential, challenged and paid again; what earlier attempts charged is not in the bill.
  A timeout after the payment is reported as `payment_failed` although the wallet has signed.
* A refused source ends a stream without billing, while a failed generation is billed; `process_chat`, unlike the stream, does not abort on a refusal.
* Queries of sources go on when the reader leaves; only the generation is cancelled, and a payment request it had sent to the hub may still be signed (mpp_payment.py:56-64). Only `GenerationError` is caught, any other exception breaks the stream off.
* A streamed answer asks the model twice, once to probe (clients/model.py:399), and may pay twice. Token streaming has no billing and posts to tunnelled models over HTTP.
* 403 for a source is `access_denied` unless the envelope says better, so some causes of a rejection are lost (data_source.py:203).

Accounts, tokens and keys:

* Guesses and codes exceed their limits by at most the number of other threads; the outcome of `mark_used` is ignored, so two verifications of one code may succeed.
* Tokens of the hub carry no `jti`: tokens issued to a user within one second are one string, and logging one out bars the other.
* The blacklist is one of each worker process: a token logged out at one is accepted at the others. Refresh tokens are not rotated. Refreshed tokens are not written back to the session of
  the MCP server, satellite tokens that cannot be fetched are skipped without a word, `oauth_access_tokens` is never pruned, and codes of clients that are not registered stay. The login page shows `errorData.detail`, which
  the server does not send.
* The rate limiter may leave a counter without an expiry (core/rate_limit.py:96-101).
* main.py goes on after a `KeyLoadError`, and `is_configured` looks at the private key only: a worker whose save failed signs with a key nobody else has; one that has half a pair after a lock timeout mints tokens
  with an empty `kid`. A reader without the lock may combine two pairs when a save was cut short and repeated.
* The limit of API tokens may be exceeded by the number of other threads. Scopes are stored and looked at by no route. `delete_token` has no route.

Endpoints, listings, aggregators:

* Failed calls and overlapping requests leave search documents of endpoints that are private or gone, or none of public ones; only the next publication of the endpoint repairs that.
  The deletion of an account removes its endpoints' rows and none of their documents (users.py:248-264, models/user.py:82-84). A search looks its hits up in the database
  (endpoint_service.py:771), so such documents take up places among the hits and are not shown. Overlapping syncs leave the rows of both.
* `updated_at` is never written after the insert, so "most recent first" is the order of creation. Endpoints that leave a view shift the others to pages already read. The trending view has
  no tie-breaker. A query that fails is served as an empty page, which a reader takes for the end.
* Two updates of a star counter may lose one; an unstar that meets a zero, and the deletion of an account, leave the counter wrong. The counts of an owner leave out `model_data_source`, which the type filters include.
  `hub.star` of the SDK resolves the caller's own endpoint of that slug, whatever the owner in the path.
* Overlapping or failed requests leave a user two default aggregators or none; with two, `get_default` answers none while the list names the newest. One undisturbed choice heals it. The SDK's `aggregators.list()` expects a
  list where the server answers an object, and returns an empty list.
* The monitor's lock lives as long as its pooled connection: cycles that draw another connection are skipped, and a connection closed as overflow lets a second cycle in (health_monitor.py:500).

Collectives:

* A membership may be decided twice by overlapping requests; consent is kept, the order of the docstring's state machine is not, and a stale approval may overwrite a refusal.
* An admin may act for either side, so both consents may be an admin's (collective_service.py:920-934). A member that left while a shared endpoint was written stays listed there (1208);
  resolving it leaves it out.
* `get_billing_summary` and its schema say that metered members do not contribute to the estimated price; `_build_billing_summary` adds them.
* A slug derived from a name is not checked against the reserved slugs, a given one is. The filter of `list_members`, after which a non-manager "must not learn that a
  private endpoint exists", is not applied by the paths, shared-endpoint and billing routes. `member_count` counts approved members whose endpoint is inactive.

## 7. Not modelled

Payloads, encryption and encoding are abstracted to "arrives or is lost", prices and texts to what is branched on. Not in the state of any module: torn reads, process-table entries and the context's watcher of a
process that could not be started (agent_executor.go:205), a repeated `Shutdown` (api.go:477, closes `shutdownCh` twice), the scores of a search
(endpoint_service.py:788), uptime samples, the rate limiter, explicit identity keys, peer tokens, and the text of e-mails.

Hazards of the code that no module covers yet: in `containermode/agent_handler.go`, `writerCancel` does not reach `session.Receive` (line 87) and a stream that ends without a
terminal event is taken for a clean end (134); in `filemode/provider.go`, an endpoint that fails to be recreated keeps its old entry although its executor was removed (569).
Modelled without a property, as nothing promises otherwise: messages that meet a full recvCh are dropped (session_manager.go:218), a line over 1 MB ends the reader (agent_executor.go:216),
keys of the registry expire (nats_kv.go:37). A report of the health monitor that overwrites a newer one, or an admin's decision, is modelled, and no property forbids it (health_monitor.py:274).
Where a property names an overlap or a failure as its exception (`IndexMirrors`, `OneSyncRemains`, `StarsCounted`, `OneDefault`), it bounds nothing of what these leave behind; it shows that there is no other cause.

The components marked `not_modelled` in `PROJECT.json` are planned below or have no behaviour of their own (user interface, sequential commands, deployment).

## 8. Plan

Done: the agents' path from the process to the client, the tunnel, a chat, the health monitor, and of the hub accounts, tokens, keys, endpoints, listings, aggregators
and collectives; proofs of the safety of all of these. Next, in this order:

1. `AgentTunnel`: `AgentSession`'s consumer, a NATS subject that loses messages, and `AgentRelay`, composed, to replace
   the assumption that connects them; theorem: the client sees an `EventStream` of the handler's events.
2. `ContainerAgent`: the event stream of a container over a connection that breaks, the last event id, cancel
   against reconnect; refines `EventStream`.
3. `HotReload`: debounce, selective reload against requests that hold an executor, failure
   of one endpoint of several; registry and executors agree afterwards.
4. `SpaceLifecycle`: Run, hooks, repeated Shutdown, heartbeat, around `AgentSessionManager`.
5. Restart of containers, and the refresh of tokens in the Go and TypeScript SDKs, as instances of `HubSessions`.
