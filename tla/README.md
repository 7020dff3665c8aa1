# ЧатМост (B24-TG): models, checks and proofs

ЧатМост connects personal messenger accounts (Telegram, MAX, WhatsApp) with the
CRM Bitrix24. Clients write to an account of the company; managers answer in a
widget or panel, operators in an open line of the portal; contacts, deals,
timeline comments and notices in Bitrix24 are kept in step. This directory
holds TLA+ models of its core, TLC configurations that check them on small
instances, and proofs that TLAPS checks for every value of the constants.

* [The system](#the-system) – components, their state, what is hard
* [Plan](#plan) – what is modelled and what comes next
* [Modules](#modules) – how state and actions correspond to the code
* [Runs](#runs) – what each check asks and shows; bounds; fairness
* [Disagreements](#where-the-code-and-its-words-disagree) – a finding, and what was seen while modelling
* [Proofs](#proofs) – theorems and their arguments
* [Not modelled](#what-is-not-modelled)

## The system

Two processes share a PostgreSQL database and nothing else: **web** (FastAPI:
panel, widgets, callbacks of Bitrix24) and **bridge** (one asyncio loop with the
provider pool and all workers). They never call each other; tables are the
queues. Within the bridge, workers are tasks that interleave at each `await`, so
between any two awaits the database, the provider pool and in-memory state may
have changed. Every repository call of a worker opens a session and commits, so
a transaction is atomic and a handler that makes several is not. Nothing but the
database survives a restart of the bridge. The third party is the page in the
manager's browser, which polls the web process and keeps its own copy.

| Component (under `src/src/app`) | State | Operations | What is hard | What makes it correct |
|---|---|---|---|---|
| Outbox (`bridge/outbox_worker.py`, `outbox_repo_*.py`) | `outbox` rows, `messages.status`; fetched batch | enqueue (web); poll, decide, send, record; hook to the CRM queue | crash or failed commit between request and record; timeouts that delivered; stale batch; two tables per outcome | row and message agree; duplicates, burnt attempts and lost hooks are paid for by faults; nothing sent or given up is sent again; every message settles |
| Throttler (`bridge/throttler.py`) | two deques of timestamps per account, in memory | acquire (reply, initiation) | boundaries of sliding windows; pruning order; restarts | limits hold in every window; no refusal below the limit |
| Providers and the MAX session (`messaging/*`) | connection, echo ids, upload waiters, receipt and incoming queues | send, read and incoming streams, reconnect, upload | answers without timeout; broken connections that look alive; pushes that come early; echo of own messages; three kinds of receipts | the session returns; a file ends; an echo never becomes a second row |
| Session pool and account sync (`bridge/session_manager.py`, `account_sync.py`) | account → provider, pump tasks, streaks | register, unregister; a tick compares row and pool | rows, credentials and connections that change between ticks; pumps of the boot and of revivals | one pump per provider; the pool ends with what the row says |
| Login and onboarding (`bridge/login_worker.py`, `onboarding/*`) | `login_commands`; logins of MAX and WhatsApp in the web process | start, password, cancel, log out, sweep, save | cancel against activation; restarts; two transactions at the end; a database error that ends the loop | a command that is over stays over, is true and holds no password; each ends |
| Read receipts (`bridge/read_marker.py`, pump in `bootstrap.py`) | receipt queue, rows selected | SELECT readable rows, UPDATE them | receipt before `mark_sent`; lost receipts; UPDATE without a status guard | "read" is true; a cursor reads a prefix; a status never moves back |
| OAuth token (`b24/token_manager.py`) | `b24_tokens`, a lock per instance | get_token (reload, refresh, save), save_install_data | rotating refresh token; several managers; installation against refresh | one active refresh; a rotated token is saved; nobody waits for ever |
| Incoming messages and autoreply (`bridge/incoming_handler.py`, `autoreply.py`) | contacts, dialogs, messages, last automatic reply | persist, dedupe, enqueue CRM task, reply | echo against answer; unique keys held by another transaction; enqueue in a second transaction | a message is stored once and in order; it reaches the CRM; replies are a window apart |
| First contact (`bridge/initiation_worker.py`) | `initiations` | poll, wait for provider, apply in one transaction, bind client or dialog to the card the manager wrote from | offline waits, unique violations, the limit on attempts; links changed under the CRM worker | the manager gets an answer |
| CRM queue and notices (`bridge/crm_sync_worker.py`, `crm_sync_repo.py`) | `crm_sync` rows, `dialog_notifications`, notices in Bitrix24 | inbound, outbound, notify tasks; sweep; "no answer needed" (web) | REST calls between transactions; answers that race with rendering; retries of half-done work | one notice per recipient; answered dialogs are cleared; waiting clients are shown; the queue drains |
| CRM card (`b24/sync.py`, `b24/crm.py`) | links of dialog and client to contact, deal, lead | process_inbound, process_outbound | several REST calls before one commit; people who edit the portal; a mode that changes; a second writer of the links | one card; one comment; a dialog keeps its card |
| Open lines (`web/routes/placement.py`, `openline.py`, `b24/openlines.py`) | binding of an account to a line, im ids of messages | slider, operator events, line events, tasks of the line | overlapping and repeated events; a line switched off or deleted under a task | an operator is heard once; a message is shown once; waiting costs nothing; a deleted line releases the queue |
| Panel page (`static/inbox.js`) and its routes (`web/routes/dialogs.py`) | feed, list, lastId, optimistic bubble, poll timer | open, older, poll, send, attach | answers in any order, bodies read after the check; lost answers; the manager goes on clicking | no message in the wrong dialog; no bubble left behind; the poll catches up |
| Business processes, Bitrix24 client, media, administration | – | request/response, REST, files | – | – |

## Plan

Done, the behaviour that matters most first: the outgoing path (`Outbox`,
`Delivery`, `Throttler`, `ReadMarker`), the token, the notices, the accounts
(`AccountSync`, `Lines`), the incoming path with the first contact
(`Conversation`), the page (`Panel`), the CRM card, open lines, the MAX session.

Proved: every invariant and every action property of the passing runs, and the
refinement of `Delivery` by the queue and by the read receipts (see
[Proofs](#proofs)). Left are the hazards of `PROJECT.json` that no property covers:
the Telegram text without a timeout, chat-level receipts, the login that outlives its
line, overlapping requests of the slider. The code does not keep what its comments
say there (see [below](#where-the-code-and-its-words-disagree)). Liveness stays with
TLC.

## Modules

Every module comments each action with the code it stands for; `PROJECT.json`
("map") gives file and lines. An action is what runs between two awaits.
Definitions commented "Mutant" are wrong variants of the definition after them:
replacing one by the other must make the property named in `PROJECT.json` fail.

**`Delivery`** – the promise about one message: it is pending before anything
reaches the client, sent only if a copy was accepted, read only after that; its
status never moves back; copies beyond the first are paid for by a *strike*, a
fault between request and record.

**`Outbox`** – `item`, `attempts`, `lastError`, `ready`, `aged` are the columns
of `outbox` (`ready`: rows due, in the order of `next_attempt_at`); `msg`, `ext`
those of `messages`; `crm` the queued CRM tasks. `batch`, `cur`, `op`,
`outcome`, `got` are the locals of `_process_once`/`_handle`; `copies`,
`lastExt`, `stray` the messenger; `failures`, `strikes`, `faults` history.
`Decide` is the first half of `_handle` (no provider, throttled, bad
attachment, send), `Answer` what the awaited request returns (ok, flood wait,
error, lost), `Record` the transaction of the outcome, `HookDone/HookFails`
`_after_sent`. `DbError` and `Crash` may strike at every await. A delay is an
arbitrary time: `Wake` may come at any moment, which covers every backoff. The
answer of the throttler is nondeterministic here; `Throttler` says when it may
refuse.

**`Throttler`** – the two deques, pruned as the `popleft` loops do, on a clock of
whole units, with logs of all grants as history; `Restart` empties the deques.

**`ReadMarker`** – extends `Outbox` with the client (`seen`, `owner`), the
provider's receipts (`receipts`, the WhatsApp id memory `known`) and the rows
between SELECT and UPDATE (`marking`). `kind` is chosen once: a Telegram
cursor, a MAX chat-level receipt, or a WhatsApp receipt for one message.
Actions of `Outbox` appear unchanged, conjoined with their effect on the
receiving side (`SendAnswered`, `PumpGone`, `OtherStep`).

**`TokenRefresh`** – `pc[t]` is the await a `get_token` stands at: waiting for
the lock, under it, in the HTTP request, before the save. `valid` is what the
OAuth server accepts. `ManagerOf` says which tasks share an instance and
so a lock. `Install` is `save_install_data`, which takes no lock; `TokenSpec` is the
life of one installation, `InstallSpec` has installations at any time.

**`NotifyFeed`** – one dialog. `log` holds the messages (order = id), `tasks` and
`ready` the rows of `crm_sync`, `rows`, `slot`, `dismissed` the rows of
`dialog_notifications`, `feed` the notices in the chats. The handlers of the
three kinds of tasks share the loops over notice rows: `mode` says which loop
runs (purge, render, undo, clear, sweep), `row` is its current row, and each REST
call and each commit is a step (`Delete`, `Post`, `Save`). `_fail_or_retry` is
`FailOrRetry`; every call has a failing twin. An answer counts from its
creation, as `notify_dialog_stats` has it, while its task is queued only when
the outbox has sent it (`EnqueueTask`).

**`AccountSync`** – one line in the bridge: `line` is its row, `prov` its provider
in the pool, `fwd` and `boot` the task that reads the provider's streams
(started by the worker or at the boot; "stale" is one of a former provider). A
tick of `_sync_once` reads the row (`snap`) and registers, inspects or stops;
each await is a step. Drops, revocations and restarts come at any point.

**`Lines`** – extends `AccountSync` with what changes the row: the panel (connect,
cancel, unlink, delete), Telegram logins as commands of `login_commands` that
the bridge runs (`pc` is where `_run_command` stands, `busy` the account's
place in `_account_busy`), and logins of MAX and WhatsApp in the memory of the
web process (`web`). `SyncStep` appears unchanged beside them. `loop` is
`LoginCommandWorker.run` itself: it starts with `SelfHeal`, polls and sweeps while
it is running, and `LoopEnds` for good, until the process is started again, when
the database fails in the self-heal or in a sweep (`login_worker.py:111`, `:121`,
which stand outside the `try` of the loop). The tasks it has started go on.

**`Conversation`** – one client on one line. Messages of the messenger are numbered
by `written`; a push becomes a row by way of the provider's queue and worker
(`pushes`, `worker`, `known` the echo set), `incoming` and the pump. `writer` holds
the open transactions of the pump and of the worker of initiations; `contact` and
`dialog` say who holds the unique keys, so that an insert waits or fails as
PostgreSQL has it. The grace of an echo whose id is not known is a fixed pause
(0.5 s, `max/provider.py:597`, `whatsapp/provider.py:463`), so `GraceOver` may come
before the answer to the request; `late` are the messages for which it has.
`sender` is the outbox worker reduced to request, answer,
commit (`Outbox` has the rest). Automatic replies are rows of their own.

**`Panel`** – the page and the routes it calls. A request is three steps: asked,
served (a snapshot of the tables), answered; answers come in any order. To load a
dialog takes a fourth: `LoadChecked` looks at the headers and at the dialog that is
open (`inbox.js:332`), `LoadRead` puts the body into the feed when it is there
(`:334`), without another look; a body whose dialog is left meanwhile is "left". The
widget of a card (`app.js`) has one dialog and checks no answer; it is not modelled. `feed`,
`lastId`, `active`, `polling`, `retry`, `file` are the page's variables, `post` the
message being sent with its bubble. `moves` bounds what the manager does and
what goes wrong. A list of messages in the order of their ids is the set of them,
put in order by `Ascending`.

**`CrmCard`** – the tasks of one dialog. `worker` is the task in hand with the locals
of `process_inbound`; every REST call is a step with a failing twin and one
whose answer is lost. `cards` and `comments` are the portal, which people edit
between steps (make, delete, close, convert). The links of the dialog have a second
writer, `Initiate`: a manager who writes first from a card binds the dialog (deal,
lead) or the client (contact) to it, over a live link too
(`initiation_worker.py:181-192`, `:219-233`; `test_initiation_worker.py:159-190`). The
task in work then goes on with the links it has read (`stale`) and writes them
back at its end. `crmMode` may change at any time; `timelineMode`, and whether the
telephone of the client is known, are chosen once.

**`OpenLine`** – `savers` are requests of the slider (activate at the portal, commit,
or compensate), `handlers` deliveries of the webhook, one message at a time
with the unique key on the operator's message id; `worker` is the CRM task with
the binding `collect` has read. `portal` holds the lines; `news` are line events
still under way, which may come late.

**`MaxSession`** – `ws` is the current connection (`open` as the client believes,
`live` as it is, `session` after LOGIN), `sup` where the supervisor stands,
`stop` how far `disconnect` is. A file is in one of the steps slot, POST, wait
for push 136, message; `future` is its entry in `UploadWaiter`, `on` the
connection its request or push belongs to.

The inductive invariant behind the safety properties is a conjunction of named
parts. It stands at the end of the module it is about (`IInv` of `Outbox` and `Throttler`, `TokenInv`,
`ReaderInv`, `LinesInv`, `OpenLineInv`, `CrmCardInv`), or, for `Conversation`, `NotifyFeed`,
`Panel` and `MaxSession`, with the proofs. The proofs are in modules `…Proofs`:
`ReadMarkerProofs` is about the queue and the read receipts that extend it,
`GuardProofs` about the throttler and the token, `EndpointProofs` about the page and
the MAX session; the two of a pair of the latter share no state and are only
proved side by side.

`MC*` modules only name model values and small functions for the constants; the
other modules are instantiated by their `.cfg` alone.

## Runs

| Run | Question | Bounds |
|---|---|---|
| `OutboxFaults` | Do row, message, copies, attempts and CRM tasks tell one story under faults? Does `Outbox` implement `Delivery`? Does every message settle? | a text and a media message of one account, batch 1 (so that a deferred row can be in the way), 2 attempts, 1 fault |
| `Throttler` | Rates and spacing, and no unjust refusals | limits 2 in windows of 3 and 4, interval 2, time 6, 1 restart |
| `ReadCursor` | Are marks true and in order, and does a second writer keep to `Delivery`? | 2 messages of a dialog, cursor and single receipts, 1 receipt waiting, 1 fault |
| `TokenShared` | One refresh at a time, saved; nobody waits for ever | 3 tasks of a manager, 2 portals installed at any time, 3 tokens, 1 fault |
| `NotifyFeed` | One notice per recipient, cleared and shown when due; the queue drains | 2 messages, 2 managers in turn, 2 attempts, 1 fault |
| `NotifyWiped` ✗ | Does NULL in a slot mean there is nothing to show? | 3 messages, 1 manager, no fault |
| `Lines` | One pump; commands that end, stay ended and tell the truth; the pool follows the row | one line of any messenger, 2 commands, 2 sessions, 2 grace ticks, 1 fault |
| `Conversation` | Stored once and in order, in the CRM, replies apart, an answer to the initiation | 2 messages of the messenger, 1 fault, 2 instants (one of them in working hours), a window of 1, 2 attempts |
| `Panel` | Feeds apart, no bubble left, the poll catches up | 2 dialogs, pages and polls of 1 message, 3 rows, 3 moves or troubles, 1 poll at a time |
| `CrmCard` | Cards and comments accounted for; the dialog keeps its card | 2 messages, 2 edits by people, 1 fault, 2 attempts |
| `OpenLine` | An operator heard once, a message shown once, free waiting, release by deletion | 1 line, 2 accounts, 1 slider request, 2 overlapping deliveries of an event with 2 messages, 1 other message, 2 disturbances of each kind together, 2 attempts |
| `MaxSession` | An early push is heard, the session returns, a file ends | 2 files, 2 faults |

The run with ✗ checks a property the code's own words state, which the code does
not keep.

*Why the bounds are enough.* Two messages are the least that can overtake, hold
up or be confused with each other; two attempts the least with a
"not yet the last"; one fault reaches every window, and the counting
invariants ("copies at most strikes + 1") are linear, so a second fault
repeats the argument (the proofs of `Outbox` and `Throttler` need no bound on
them). In `NotifyFeed` two messages give every order of inbound, answer and
automatic reply, and two managers in turn the purge. In `Lines` two sessions are
the old and the new credential, two commands the one that blocks and the one
that is blocked. In `Conversation` two messages are the client's and the echo of
ours, or two of the client; the echo set holds more than are in flight, as the
512 of the code do. In `Panel` a page and a poll of one message make every page
boundary and every poll that does not bring all. In `OpenLine` an event of two
messages has one that is stored and one still to be stored when the other
delivery comes; its safety was also checked with three disturbances. In
`MaxSession` the second fault hits the recovery from the first.
Every bound is a CONSTANT named in the module (`Max…`); `MaxQueue`, `KnownMax`,
`EchoMax` are capacities.

*No deadlock check.* Messages, receipts, requests and installations come from
outside and are bounded; once they are used up the models may rest.

*Fairness.* Only what the code itself drives is fair. Loops poll for ever
(`WF` on `Poll`, `Decide`, `Record`, `Handle`, `Tick`, `PollCommand`, `Supervisor`,
the pumps and timers of the page); a row becomes due (`Wake`); requests are
answered or time out (httpx timeouts of WhatsApp, Bitrix24 and OAuth, the
request timeout of MAX, `wait_for` for Telegram media; a hanging Telegram text
is the exception told below). The lock of `asyncio` is served first come first
served: `SF` on `Lock`. The CRM worker of `OpenLine` comes to a task again and
again although another one is in hand meanwhile: `SF` on `Take`. `MaxSession`
asks nothing of the reader of a connection that broke in silence: the ping of
the supervisor must find it. In `Lines` the poll and the sweep of the login worker are owed only
while its loop is running (that is in their guards, and after `LoopEnds` nothing is
owed but the steps of tasks already begun), the sweep only to a row whose task has
died; panel, owner and messenger owe nothing. In `Panel` timers fire and requests
end, but a page of older messages is not promised, and the manager owes nothing. Nothing is fair about users,
accounts, throttling or faults; faults are finite.

*What the liveness properties assume.* `EveryMessageSettles` speaks of a message
that is not deferred for ever. `QueueDrains` includes tasks given up on
(`failed`). `CommandsSettle` excepts a command without a task once the loop of the
login worker has ended: it is alive until the bridge is started again (see below).
`ClientIsHeard` excepts the message a fault has struck itself,
`PoolFollowsRow` a row that changes again, `CatchesUp` a dialog that is closed,
a message that the manager sends meanwhile, and a `lastId` that a late body has put
behind the feed (`InStep`; see below why), `SessionReturns` a
revoked token and a stop. `DeletedLineReleases` speaks of lines that are
deleted while no request of the slider is under way.

*Timing assumptions*, each named where it is made: a cancelled pump ends within
the 20 seconds between two ticks (`Releasing` in `Lines`); the pump handles a message
within a unit of time (`Tick` in `Conversation`). Nothing is assumed about the
grace of an echo and the answer to the request it waits for.

## Where the code and its words disagree

Checked by a run, with the quotation in `PROJECT.json`:

* **`NotifyWiped`** – an answer that leaves the outbox after the client wrote
  again clears the notice of that newer message; the slot is NULL although the
  client waits.

Found with the same models (by TLC unless marked °, with a property that stated
what the quoted comment says, or by reading), and not kept as runs:

* *Outbox.* A Telegram text is awaited without a timeout
  (`telegram/provider.py:334`); one that hangs stops the queue of all accounts,
  which the timeout of media requests was introduced to prevent.
* *Receipts.* "A receipt before `mark_sent` is made good by the next cursor"
  (`read_marker.py:7`) is not so for WhatsApp, whose receipts are for one message
  each. A MAX receipt is for the whole chat; it marks also a message sent after the
  client looked (`HonestRead` fails with `Kinds = {"chat"}`; the receipt carries a
  time that is not used). A read mark of Telegram and MAX comes in the end:
  checked with one message, under the fairness that the client opens the chat
  again and again.
* *Token.* "The lock guarantees a single active refresh"
  (`token_manager.py:26-28`) holds per instance; bridge and web have their own. A
  refresh in flight during a move to another portal inserts the deleted row
  again; one on the same portal may be saved over the newer token.
* *Lines.* One database error in `_startup_selfheal` or `_sweep_once`
  (`login_worker.py:111`, `:121`) ends the task of the login worker, and nobody starts
  it again (`main.py:261`): from then on no login or log-out is executed and no stuck
  command is swept, although `login_worker.py:19-20` promises "error('stale')" to
  those, until the bridge is restarted (`CommandsSettle` without its exception
  fails). A MAX or WhatsApp login outlives the removal of its line and makes the
  removed line active again (`max_channel.py:104`; `admin_api.py:609` says live
  logins are ended). ° The self-heal of a restart expires pending `log_out`
  commands, so an unlink is lost. ° The hook of a failed registration writes
  "offline" over a line scanned meanwhile. ° `cancel` and `start` of WhatsApp after
  a success log out the session in use. ° A line deleted between issuing a link
  and `start` keeps a login. ° In the window between registration and revival two
  Telethon clients may open one `.session` file.
* *Conversation.* An answer that takes longer than the grace of 0.5 s leaves two rows
  of one message without any fault: its echo is taken for a message from the
  telephone and inserted (`max/provider.py:597`), then `mark_sent` gives the row of
  the outbox the same id, which is not unique ("during this time the continuation
  of the send will register the id", says `max/provider.py:87-89`).
  ° WhatsApp first contacts use `phone@c.us` while the answer may
  come from `@lid`: two dialogs for one client.
* *Panel.* The answer to a sent message raises `lastId` to its id
  (`inbox.js:504`), so a message of the client with a smaller id that the poll has
  not brought yet is not shown until the dialog is opened again ("new ids … the
  poll brings them", `inbox.js:433`). A poll served between the INSERT and the
  answer of the POST doubles the row in spite of the deduplication
  (`app.js:172-174`). A file whose sending failed is put back into the composer of
  whatever dialog is open then (against `inbox.js:292-293`). A late page of
  `loadOlder` goes into the dialog that is open now. So does the body of a load that
  was checked before the manager switched: the messages of the former client appear
  under the name of the new one (against `inbox.js:331`), and `lastId` becomes theirs.
  When it is too high, messages are not shown; when it is too low and a page of older
  messages arrives after it, each poll brings the first fifty above `lastId`, which
  are all known, and never gets further until the dialog is opened again. ° A lost answer makes the
  manager send again, without a key that would deduplicate.
* *CRM card.* A deal bound by a first message (`initiation_worker.py:219-233`)
  leaves the client without a contact; when the telephone does not find the contact
  of that deal, the next message of the client makes a contact and a deal of its
  own and moves the dialog there, off a live deal (`sync.py:276-298`). A task at work
  meanwhile writes back the links it has read, over the intent of the manager that
  "is authoritative" (`initiation_worker.py:229`). A failed `create_deal` after a contact that is found by its telephone
  on the retry leaves a new client without a deal (`sync.py:127`). `get_contact`
  and `get_lead` return None on any exception, so a failing call opens a second
  card. A link to a deal deleted at the portal is not verified, and the task fails
  after its attempts. ° An outgoing message without a token counts as done.
* *Open lines.* The deactivation by a slider request that lost or unbinds may come
  after another request has activated the line and bound its account: bound and
  "active" in the database, off at the portal, its tasks waiting for ever
  (against `placement.py:590`). A LINEDELETE handled between activation and commit
  binds an account to a deleted line.
* *MAX session.* After a plain drop the supervisor reconnects the same client
  without failing the waiting uploads, which wait their full 60 seconds (against
  `provider.py:426`). `is_connected()` is true between transport and LOGIN; a send
  in between fails and is retried. ° An upload begun during `disconnect` opens the
  HTTP pool again.
* ° `no_provider_timeout` is said to be for an account absent for over a day; the
  age of the row is what is compared. ° A WhatsApp answer without `messageId` is
  recorded as sent with an empty id. ° `outbox.last_error` is `String(512)` and is
  written untruncated; on PostgreSQL the commit fails and the row stays open.
  ° Messages of one dialog may overtake each other when one is retried; the code
  promises no order.

## Proofs

Proved for every number of items, accounts, tasks, limits and faults:

* **`ReadMarkerProofs`**, on the queue – `QueueInvariant`: `Spec => []IInv`. The
  properties of the run are not inductive. `IInv` adds that the due list holds
  open rows once (`QueueShape`, so that removing a row removes it for good), that
  recorded attempts are failures, less the one in hand (`AttemptsCounted`), that
  failures exceed attempts only by strikes (`FailuresCounted`), that copies and
  requests still under way are strikes and the one being recorded
  (`CopiesCounted`), and that what `mark_sent` is about to write is true
  (`RecordIsTrue`). One lemma per action; small lemmas on sequences and on the
  three transactions. From it follow `TypeCorrect`, `StatusesAgree`,
  `SnapshotIsFresh`, `SentIsTrue`, `GivingUpIsEarned`, `RetryBound`,
  `DuplicateBound`, and `ImplementsDelivery`: initial states map to initial
  states, and each step to a step of `Delivery` or a stutter. `TasksAreAccounted`
  counts the sent messages without a CRM task: the set grows only in the step
  that costs a fault (a crash or database error in the hook), since the message
  that `mark_sent` adds to it is the one the hook is about to serve.
  On read receipts – `ReaderInvariant`: `ReaderInv` extends `IInv` of the
  queue (its lemmas are cited for the steps of `Outbox`) by who owns a copy and
  that the id about to be recorded is younger than every recorded one
  (`CopiesOwned`), that a receipt with ids speaks of what the client has seen
  (`ReceiptsSeen`), and by what is between SELECT and UPDATE: still sent
  (`MarkingSeen`) and a prefix of what is not marked (`MarkingPrefix`). From it
  `CursorReadsPrefix`, `ReadIsHonest` and `ReaderImplementsDelivery`. `ReadIsHonest`
  *assumes* that no channel has receipts for a whole chat: with those of MAX it is
  false (see above), so the theorem speaks of Telegram and WhatsApp.
* **`GuardProofs`**, on the throttler – `ThrottlerInvariant`: a deque is the end of
  the log of this process, and what was pruned is older than the window (`Tracks`).
  Hence `ReplyLimitHolds`, `InitLimitHolds` and `InitIntervalHolds`, together
  `RatesHold`; the interval for any ratio of interval and window, because the
  interval is checked before pruning. `RefusalsAreDue` is the converse, from the
  same `Tracks`: a full deque is `limit` grants of this process within the window.
  On the token – `TokenInvariant` for any number of tasks, *assuming that they share
  a manager* (`OneManager`), and with installations at any time (`InstallSpec`, as in
  the run). From the reload to the save a task holds the lock (`LockHeld`), hence
  `OneRefreshAtATime`; what a task is about to save is what the server accepts
  (`FetchedIsValid`), so a stored token is the valid one or a task is about to save
  that (`RotationIsSaved`); both except a portal whose rotation a fault struck, or
  which was installed anew under a refresh (`lost`). `RefreshIsNeeded`, that what a
  task sends is what is stored, holds only within the life of one installation
  (`TokenSpec`).
* **`NotifyFeedProofs`** – `WorkerInv` says where the worker stands, what it holds
  there, that the due list holds open tasks once, and that a slot knows one notice
  and nobody else's; the three theorems add one part each.
  `NoticesAreCounted`: a notice that no row knows, or that the row in work is about to
  forget, was left by a fault; these *loosed* notices never outnumber the faults
  (`NoticesCounted`), and the notices without a row are among them.
  `AnsweredClientsAreCleared`: while nobody waits and a notice is shown, something is still to
  come that clears it (`NoticesGo`): an answer that has no task yet, a task of an answer or a notify
  task that has not got past its clearing, or the loop over the rows with that row
  before it. `FirstContactsAreShown`: until everybody is shown the last message of a
  client whom nobody has answered, something is still to come that shows it
  (`ContactKept`): its task, a notify task that has not read the dialog yet, or the
  render that is under way, with the rows it has passed shown. The theorem *assumes*
  `{} \notin Teams`: a shared number all of whose members are inactive has no
  recipients (`crm_sync_repo.py`), and then nobody is to be told.
* **`LinesProofs`** – `LinesInvariant`. What `OnePumpEach` needs is that whoever
  takes a provider out of the pool has cancelled its pump before
  (`PumpsFollowPool`); what `CommandsEndClean` needs is that a task of the login
  worker that stands before "authorized" has activated the line
  (`TasksHaveRows`). `OverStaysOver` is an action property: every write to
  `login_commands` by the worker, the panel, the sweep or a restart is guarded by
  the status it reads in the same transaction.
* **`OpenLineProofs`** – `OpenLineInvariant`. `OperatorIsSentOnce` is what makes the
  unique key on the operator's message id work with overlapping deliveries: a
  delivery for our account has stored every message before the one it stands at
  (`DeliveriesCover`), so the one that answers "stored" has stored all.
  `OneShownPerFault` and `WaitsCostNothing` count for each queued task what it has
  shown and the attempts it has spent (`TasksCounted`).
* **`CrmCardProofs`** – `CrmCardInvariant`. The cards a worker makes are bounded by
  faults and changes *and a credit* while the dialog has, or is about to have, a
  card that the next message will find (`HasCard`), *less a debt* while the links
  have been changed under the task in work (`stale`), which may overwrite a card
  with one that is gone (`CardsCounted`); a step that gives the card up is a fault or
  a change by people, first messages included. So the invariant must say where the
  worker stands and which links it holds unless they are stale (`WorkerHolds`),
  that links lead to cards (`LinksHold`; a deal need not have a contact), that a
  comment in the mode "first" comes with a card of its own (`CommentsCounted`), and
  that a worker which looks for another card has an excuse (`LeavesExcused`). Hence
  `CardsFollowFaults`, `TimelineFollowsMode` and, as an action property,
  `LinkOutlivesMode`. That `Newest` is one of the deals found is `GreatestOf`,
  from the well-foundedness of `<` on the naturals.
* **`ConversationProofs`** – `ConversationInvariant`. `AutorepliesAreApart` rests on
  what makes the look-up of `autoreply.py` reliable: a reply is committed in the
  transaction that inserts it and stays visible, its stored time is not ahead of
  the clock, and a visible message of the client is before it (`RepliesFollow`),
  so the row that the look-up returns (`LastRow`, which exists because `>` is
  well-founded below the length) stands for all. `StoredOnceWhileRemembered` adds
  `StoreInv`. *Order*: wherever a message of the client is (pushed, waiting, in
  the pump, stored), his earlier ones are further on or ahead of it in the same
  queue, unless a fault struck them (`InOrder`, `NoneLost`). *Once*: until a
  message of ours has its row, its answer is awaited or its id is known, and its
  echo has not got past the provider (`EchoesAreKnown`), unless its grace was over
  before its answer (`late`); the row the outbox worker sends has no id yet, and
  none is stored under the id it waits for, or one, of a late echo, after it
  (`SenderHolds`). So a second row of a message is always the echo of a late one,
  and there is no third. The theorem *assumes* `[]StillKnown`: the id of an answer is in
  the echo memory until `mark_sent` has recorded it. In the code 512 messages of
  the telephone would have to be remembered between the two to drive it out; its
  echo would then be stored beside the row (with `EchoMax = 1` TLC finds this, and
  finds nothing in the states where `StillKnown` holds). `MessagesAreStoredOnce` needs
  no such assumption for a history that fits into the memory (`EchoMax >= MaxWritten`):
  ids are remembered once and are ids of messages (`KnownOnce`), so by a pigeonhole
  on the memory none is driven out (`KnownAreFew`).
* **`EndpointProofs`**, on the page – `PanelInv`: an answer under way holds messages of
  the dialog it was asked for only, and while the body of a load is read its dialog is
  open unless it was left (`GotHolds`), as does the answer to the POST
  (`PostHolds`), and a feed has at most one bubble, which belongs to the message
  being sent (`BubbleHolds`). Hence `NoBubbleIsLeftBehind`. `FeedStaysApart` is the
  action property that no step puts a message of another dialog into the feed,
  save a late page of `loadOlder` and a body left while it was read, which do (see
  above). Both need that what the
  routes return, the first or last few of a set in order, is part of
  that set; `Ascending` is a permutation by a pigeonhole on ranks (`RankFacts`).
  On the MAX session – `SessionInv`: until the first trouble (a fault, a stop or a
  revoked token) the first connection is the only one (`FirstConnection`), and a
  push 136 comes after its slot was entered, to a future that waits (`PushHolds`).
  Hence `EarlyPushIsHeard`.

Every inductive invariant was checked by TLC before it was proved, on the bounds
of the run or larger ones (`OpenLine` with three disturbances of each kind,
`NotifyFeed` with two messages and two faults or three messages of one manager,
`TokenRefresh` with four tokens and two faults).
The assumptions are those on the constants (`OutboxAssumption`,
`ThrottlerAssumption`, `TokenAssumption`, `CrmCardAssumption` and so on),
evaluated by TLC with each run, and the four named above: `OneManager`, no
chat-level receipts in `ReadIsHonest`, an id that is known until it is recorded in
`StoredOnceWhileRemembered` (or a history that fits into the echo memory), and
`{} \notin Teams` in `FirstContactsAreShown`.

*Only model-checked*: all liveness (`EveryMessageSettles`, `EveryCallReturns`,
`QueueDrains`, `CommandsSettle`, `PoolFollowsRow`, `ClientIsHeard`, `InitiationEnds`,
`CatchesUp`, `DeletedLineReleases`, `SessionReturns`, `FileEnds`), since the prover
handles neither fairness nor ENABLED.

## What is not modelled

Texts, formatting, addresses, media bytes and cryptography; real durations;
parsing of what the channels push; deletion of dialogs by an administrator; the
schema beyond the columns the models use. Business processes
(`web/routes/bizproc.py`), the Bitrix24 client with its rate limit, media storage
and the administration of teams, templates and settings are not modelled: single
requests over single rows, pure mapping or I/O.

What the modules leave out of the code they model: `NotifyFeed` messages of open
lines (they are in `OpenLine`), a message deleted under its task, and an absent
token in the sweep (which skips it, as a failing one does); `Conversation`
attachments, profiles and the opening hours' calendar; `Panel` the paging of the
dialog list and read cursors; `CrmCard` media in comments, responsibles and
sources; `OpenLine` files of operators and an absent token; `MaxSession` photos
(one POST without a push), downloads and the enrichment of senders; a first
connect that fails ends the provider there and is a reconnect in the model.
