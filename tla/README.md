# A TLA+ verification of Chatstronomy

Chatstronomy bridges the N.I.N.A. astrophotography program with Discord and
Matrix. N.I.N.A. instances (*rigs*) connect to a hosted *hub* over one WebSocket
each, or are polled by a *local runtime* over a named pipe; an updater posts what
happens to chat channels, and a bot forwards commands. This directory holds TLA+
models of the parts of the Rust code under `src/src` whose correctness depends on
the order in which tasks, messages, database calls and failures happen, TLC runs
that check them on small instances, and TLAPS proofs of their most important
invariants for all instances.

## 1. The system

### Components, their state and their operations

| Component | Source | State | Operations |
|---|---|---|---|
| Direct rig registry | `direct/registry.rs` | `by_rig`, `by_connection` | register, switch profile, reconnect, disconnect |
| Pairing and authentication | `hub/direct_server.rs`, `hub/tenants.rs` | rows `pairing_tokens`, `rig_credentials` | issue, consume, restore, revoke tokens; mint, look up, revoke, delete credentials |
| Connection slot | `hub/direct_server.rs` (`RigConnections`) | live connection and trust generation per telescope | insert if the generation is unchanged, revoke, disconnect for replay, remove if current |
| Query exchange | `hub/direct_server.rs` (`RigConnection`) | pending map, outgoing queue, close request | query, resolve, cancel, time out, close, tear down |
| Updater manager | `hub/updaters.rs` | table of running updaters, `reconcile_gate`, presence | reconcile, refresh, adopt an identity, announce presence |
| Direct sources | `hub/direct_source.rs`, `direct/pipe_source.rs` | identity and generation followed; one pipe | query and revalidate |
| Tenants | `hub/tenants.rs`, `hub/db.rs` | SQLite rows behind one mutex | create, attach, detach, route, share, redeem |
| Logins and managers' rights | `hub/store.rs`, `hub/auth.rs`, `hub/guild_check.rs`, `hub/discord_api.rs`, `hub/rate_limit.rs` | OAuth states, sessions, server snapshots; the cache of Discord's answers | log in, log out, sweep, authorise a manager |
| HTTP API | `hub/server.rs` | none of its own | one handler per owner or manager request |
| Pier cameras | `hub/device_transport.rs`, `hub/devices.rs`, `hub/device_api.rs` | camera connections, requests, upload slots, reservations, receipts, cooldown | authenticate, serve, upload, deliver, acknowledge, configure, snapshot |
| Chat updater | `chat_updater.rs`, `events.rs`, `sequence.rs`, `hub/autofocus_delivery.rs` | seen events, status, pending autofocus, operations, waits, images, live status | poll events, sequence and images; deliver; report reachability |
| Event limits | `event_rate_limit.rs`, `event_elision.rs`, `frame_history.rs` | token buckets, counters, bounded history | allow, observe, take notice, record |
| Chat services and bot | `chat/`, `discord.rs` | message ids of live status | send, edit, resolve a rig, run a command, show a view |
| Local runtime, data models, charts, pages | `plugin_runtime.rs`, `charts.rs`, `hub/web_ui.rs`, ... | none, or configuration | parse, format, draw |

### How they interact

* A rig's **socket task** authenticates (database), replies, empties the slot
  and refreshes the updater when it paired, looks its credential up again,
  inserts itself into the slot and has its identity adopted; then it drains
  its queue and resolves results until it is told to close.
* An **owner's or manager's request** is authorised (session, snapshot of the
  last login, Discord's answer, which may be cached), commits a change in the
  database, then empties the slot (with a new trust generation if trust changed)
  and waits for the updater manager.
* The **updater manager** keeps one updater task per telescope. Its periodic
  loop, the requests and the socket tasks all pass through `reconcile_gate`.
  The same loop tells the channels when a rig has gone or is back.
* An **updater task** polls the connection in the slot that has the identity
  and the generation it was built with, through the pending map of that
  connection; it keeps what it has seen and shown, and posts to the channels it
  was built with. Over a pipe it shares one exchange mutex with the bot.
* A **bot command** resolves a telescope by name or channel, pins a connection,
  may wait for a click, resolves again and dispatches; a **view** asks several
  things in a row and replies.
* A camera's **session task** reads one event at a time from its WebSocket and
  delivers it to all routes at once; a timelapse is delivered by the **HTTP
  request** that uploads it, at the same time. Both write reservations and
  receipts in the database, and both are dropped when the connection is closed.

They share `RigConnections` (two mutexes, taken in one order), the pending map
and close request of each connection, the updater table, the pipe, and SQLite
behind one mutex in which every call is its own transaction. Nothing but the
database, and the local runtime's status file, survives a restart.

### What is hard, and what correctness means

| Component | Hard behaviour | Properties |
|---|---|---|
| Registry | reconnect before disconnect, profile switch on a live connection | the maps implement one lease per profile |
| Pairing, slot | trust changes during a handshake; lost replies and failing rollbacks; two critical sections in `revoke`; restart between any two steps | a revocation is final, a displaced socket is told to close, a token gives one credential |
| Queries | timeout or cancellation against a late answer; queries racing the teardown; the limit | a call and its entry end together, no history delta is lost |
| Sources | the connection is replaced under a query; a timed-out exchange leaves its answer in the pipe | an answer let through is of the current identity, and is one's own |
| Updater manager | reconciles, re-pairings, reconnects and route changes at once; dropped requests | removal is a barrier, one updater posts, a connected rig is served, a stale one stops |
| Presence | flaps between two passes, restarts | only real outages are announced, once |
| Tenants | redeeming a code, attaching and routing are several transactions | a feed is the owner's gift or paid for |
| Logins | rights lost between a login, a session, a cached answer and a late one | who is let through managed the server a moment ago |
| Bot | thirty seconds between the confirmation and the click; several queries per view | a command goes where it was authorised; nothing withheld is shown |
| Cameras | posts that cannot be recalled and attempts dropped around them; retries, reused ids, pruned reservations; two transports; revocation against reconnection | receipts and answers are true, an acknowledgement means delivery, only a post in doubt is repeated, slots are given back |
| Chat updater | replays, bounded memory, withdrawn data, operations that take a path over, crashes between a post and its receipt | announced once, revoked state is gone, reports are delivered once, updates are true, one live status that keeps up |

`PROJECT.json` lists every hazard with the line where it bites.

## 2. The modules

| Module | Models | Checked in |
|---|---|---|
| `ProfileLease` | what the registry promises: one lease per profile | `Rig` (refined by `RigRegistry`) |
| `RigRegistry` | `DirectRigRegistry`, both maps | `Rig` |
| `RigQuery` | one `RigConnection`, its callers, its task and its rig | `Rig` |
| `DirectSource` | the hub's source over a telescope's connections | `Rig` |
| `PipeExchange`, `ChatLoop` | the pipe and the loop that polls it | `Rig`, `ChatLoopRecovery` |
| `DirectHub` | sockets, owners, rows and slot of one telescope | `Hub`, `DirectHubLive` |
| `Tenancy` | attachments, destinations and share codes | `Hub`, `FeedsAreAttached` |
| `Presence` | announcements of outages | `Hub` |
| `BotCommands` | a write command from the slash to the rig | `Hub` |
| `UpdaterManager` | the updaters of one telescope and all who reconcile | `UpdaterManager`, `UpdaterManagerLive` |
| `SignIn` | logins, sessions and the check of a manager's rights | `UpdaterManager` |
| `CameraSession`, `TimelapseUploads`, `CameraDelivery` | a camera's WebSocket, its uploads, its images | `Cameras` |
| `EventScopes`, `RigEvents` | the owner's switches; events from history to chat and status | `Chat` |
| `EventRateLimit`, `EventElision` | the limit on diagnostics, the counters of what it dropped | `Chat` |
| `AutofocusDelivery` | reports, receipts, retries | `Chat` |
| `SequenceTree`, `SequenceOps` | what a snapshot says; the operations followed through snapshots | `Chat` |
| `ImagePosts` | images, charts, summaries | `Chat`, `ImagePostsBaseline` |
| `LiveStatus` | the message that is edited in place | `Chat` |
| `BotViews` | commands that only read | `Chat` |
| `ChatDelivery` | one message over every service | `Chat` |
| `Notices` | what each notice is told with | `Chat` |

`MCRig`, `MCHub`, `MCServers`, `MCCameras` and `MCChat` put components that share
no variable into one run. A behaviour belongs to one of them, named by the
variable `part`, and the others stay in one initial state: the state graph is the
sum of the components' graphs, not their product, and each property is checked in
the behaviours of its own part. The other `MC` modules add a symmetry set or
definitions for the constants. Symmetry is used in safety runs only, on
identities that are only compared; in `MCCameras` swapping two events rides on
swapping two sockets, as no behaviour shows both.

Each module also holds the mutants that show its properties can fail, next to
the definition each one changes; no specification uses them. Variables called
*history* are read by properties only.

The proofs are in modules of their own, one for each run and two more for the chat
updater's proofs by induction over data; what several components share stands once.

| Module | Proves about |
|---|---|
| `Rig_proofs` | `RigRegistry`, `RigQuery`, `DirectSource`, `PipeExchange`, `ChatLoop` |
| `Hub_proofs` | `DirectHub`, `Tenancy`, `BotCommands`, `Presence` |
| `Servers_proofs` | `UpdaterManager`, `SignIn` |
| `Cameras_proofs` | `CameraDelivery`, `CameraSession`, `TimelapseUploads` |
| `Chat_proofs` | `AutofocusDelivery`, `LiveStatus`, `ChatDelivery`, `Notices` |
| `Events_proofs` | `EventScopes`, `RigEvents` |
| `Polls_proofs` | `EventRateLimit`, `ImagePosts`, `EventElision`, `SequenceOps`, `BotViews` |
| `Induction` | lemmas: induction by a least counterexample, finite sets written out as sequences |

### Ways to a rig

**RigRegistry.** `by_rig` and `by_connection` are the two `HashMap`s as total
functions with a null value. `register_with_mode` takes `&mut self`, so a call is
one step: `Register` (accepted), `RejectActive` or `RejectInvalid`. `reply` is the
value the caller gets. The hello's descriptive fields decide nothing.

**RigQuery.** A call goes register, send, wait and, when it is not completed,
unregister and replay: the two halves of the guard's `drop`, which take different
locks. The connection task is `hub`; `Dispatch` includes `should_send` and a write
that fails (the rig may or may not have got it). The rig is external: it answers
any query it was sent in any order, or never, and its private history cursor is
`advanced`. Deadlines have no clock: a timeout may happen whenever a call waits,
and a cancellation even when the result is already there.

**DirectSource.** A lookup chooses the connection in the slot (an updater's source,
if identity and generation are the ones it was made with) or the pinned one (a
command's), the query runs on it, and the source looks again before the answer, or
the rig's refusal, is let through. Every getter is such a lookup; the second look
is what `AnswersAreCurrent` is about.

**PipeExchange, ChatLoop.** One exchange at a time under the mutex: write, read a
line, compare its id. Giving an exchange up leaves the answer in the pipe
(`lines`); the next reader takes it. `ChatLoop` adds the loop that polls over that
pipe: the baseline until it is answered, then three readers a cycle, and
`record_reachability`, which reports a rig offline after three failed cycles and
back after a good one.

### The hub

**DirectHub.** Everything in the code is keyed by telescope, so one telescope is
modelled. A task is a `pc` and its locals: a socket's consumed token (`tok`), the
credential it presented, whether its reply was written, its sampled generation
(`gen`). Each database call is one step (one mutex, one transaction) and so is
each critical section of `RigConnections`; `revoke` is therefore two (`Bump`,
`Evict`) and the close request its caller makes a third (`CloseEvicted`), with the
removed connection in `victim` between them. `refresh_updater` is `Replay` and
`CloseReplay`. A credential is named by the socket that minted it. Database
failures of the pairing and of its rollback, lost replies, sockets that die and a
restart at any point are steps. `Earlier` and `Outstanding` are what an earlier
process left in the database. Bindings, expiry and the rate limiter can only refuse
a handshake, and stand for the same step as any refusal.

**UpdaterManager.** The requests (`RemoveRoute`, `AddRoute`, `RevokeTrust`), the
sockets (`Pair`, `Authenticate`, ...) and the loop all run the same `TaskStep`s
inside the gate. The slot is one connection or none and trust is one flag, because
`DirectHub` has the detail. The comparisons of one stale decision are one step:
whatever changes between them has its own forced refresh or adoption queued behind
the gate. An updater is `live`, `aborted` (its task runs to its next await, and may
still post) or `none`. The future of an HTTP handler is dropped when its client goes
away; `CanDisconnect` says whether an instance lets that happen while it waits, and
`abandoned` (history) names the aborted tasks whose handler was dropped at the join
(`updaters.rs:277`), so that nobody awaits them any more.

**Presence.** A pass observes the slot and compares it with the telescope's entry.
The grace is measured between observations: a rig that comes back between two
passes was, for the loop, never away, and an outage is as old as its first
observation. An entry is created only for a connected rig, so the code's
`(None, false)` branch never runs; a restart forgets the entries.

**Tenancy.** A row is a record, a transaction a step. Adding a destination
(`AuthorizeAdd`, `InsertRoute`) and redeeming a code (`CheckChannelFree`,
`Consume`, `LookUpAttachment`, `AttachSubscriber`, `InsertRoute`) are several,
with other requests, detachments and deletions between them; `Abandon` drops a
request. What an attachment allows is `owner` (may be commanded) or feed only.

**BotCommands.** `Invoke` to `DispatchCommand` are the reads of the two resolutions,
the click, and the dispatch on the pinned connection; telescopes, attachments,
policies, routes, the rig's connections and the user's roles change between any two
of them. The confirmation lasts 30 seconds and may be answered by someone else.
`entitled` (history) collects the connections the user could command at some moment
since the click. `UnchangedIsNotMoved`, kept in the module, says that a command is
refused for a moved connection only if it moved; TLC refutes it, because a rig that
reconnects has a new connection with the same meaning. That is a refusal and safe.

**SignIn.** A login is a state row, a callback that consumes it, three calls to
Discord of which the last is a snapshot of the user's servers, two writes and a
session; each is a step, so two logins may store the older snapshot last. A
manager's request loads the session (an expired row is deleted on reading), reads
the snapshot, looks in the cache, asks Discord and hears the answer; the answer may
be late by up to `Latency`, and counts in the cache from when it is heard. The
request modelled is the registration of a server, which then asks whether the bot
is in it through the same cache. The guild and the member Discord is asked for
count as one answer. Without a bot token (`checker`) only the login's snapshot
decides, as the code intends; nothing is rechecked after the last await.
`held` (history) is when each user last managed each server.

### Pier cameras

**CameraSession.** One connection per camera; every turn of its loop starts with
the credential in the database and an order to close. The owner's handlers close
the connection and change the row in the order each of them does. `Ask` puts a
snapshot or configuration request in the connection's queue, `Answer` gives the
asker its result or its timeout; `pending` is the one request whose picture is
awaited, and its answer may come after its asker has gone.

**TimelapseUploads.** An upload is refused, waits for its body under a lease, is
checked again and posts; its lease watches the connection. `Released` is the
lease's `Drop`, the only place that frees a slot.

**CameraDelivery.** `routeAt` is `device_channels`, `hash` and `received` are the
columns of `device_events`, and `target` is `device_event_targets` with its
`delivered_at`; the foreign keys that delete receipts with their route or their
event are part of `RemoveRoute` and of the pruning. The camera may offer any event
id with any payload at any time, on the transport its kind requires, as long as it
is fresh. The two tasks, `socket` and `upload`, run `deliver_media`: reserve, read
the pending targets, count them, then one automaton per route, since `join_all`
polls the routes' futures in any order. An attempt may be cut at any await, and the
process may stop; a request in flight then may or may not have reached Discord.
`posts`, `doubt`, `audience`, `admitted` and `delivered` are history. The rate
limiter before the reservation, Discord's backoff and membership checks, and the
size and form of images only refuse, and are left out or `Refuse`.

### The chat updater

**EventScopes, RigEvents.** A read of the history is one step, since the updater is
a single task. Events carry their kind, time and detail, and whether they are
shared; a withheld event is a privacy boundary and takes what earlier events of its
scope filled in with it. A rebuild starts from a baseline, which announces nothing.

**EventRateLimit, EventElision.** Token buckets with capped refill and a bounded list
of accepted fingerprints, which is emptied from its front (`Popped`) as the code's loop
does; the plugin's cumulative counters under epochs, the hub's own counter and the
notice that reports them. The plugin is external. `unreported` (history) is, by kind,
what was dropped and never told of, though a notice is one number for all kinds: a
sum could hide one kind's drops behind another's. A poll is one step, with the drops of
its response in the order they were refused (`MaxRefused` bounds how many).

**AutofocusDelivery.** `Took` is Discord's acceptance, `InDoubt` counts a post whose
outcome nobody recorded. Receipts are rows and survive; the report under way, its
attempts and `handled` are the updater's and do not. Routes may be added and removed
at any step; an updater serves the ones it was built with. `dialect` is the plugin's:
one that takes acknowledgements; one that takes none, whose old completions are passed
over; and one that does not even say which report a completion is of, for which
whatever report is the latest is posted and receipted. The last one's notice that a
report is unavailable is of no report, leaves no receipt and is left out.

**RigEvents** leaves out one query: when an event says that the filter changed and not
to which, the updater asks the rig (`chat_updater.rs:3068`), and takes the filter before
it from the last change it saw. In the module a change whose filter the event does not
name changes nothing that is shown.

**SequenceTree, SequenceOps.** `SequenceTree` is pure: from a tree of nodes it finds
operations by path, what is suppressed, the target, the flip and the containers,
with recursive functions. Two facts worth knowing came out of it: a withheld idle
target container hides a later, shared, running one; and an item under a withheld
container is still followed by the updater and shown among a slash command's
operations, while `get_containers` drops the whole container. `SequenceOps` is
`reconcile_sequence_operations` over successive snapshots, with the plate-solve
outputs it has used up, the camera targets it has announced and its baseline.

**ImagePosts.** A poll is one step, over a rig's image history that may be replayed.
The night, the retention, the cooldown, the chart interval and the summary after a
sequence are counters in small units. The images of a response are gone through by a
recursive function over their positions (`Polled`, `Seeded`), as events are.

**LiveStatus.** The message has a cell of each sort: filled in by events, polled
and in the fingerprint, polled and not in it (the slew's declination, the cooling
set point and power, the warming minimum, the safety interval, coordinates, the
failing entity: shown, but an edit waits for something else to change). The wait's
remaining time is bucketed with truncation towards zero, so "reached" may show up to
a minute late. A failed push leaves the fingerprint as if it had succeeded
(`chat_updater.rs:1580-1594`, `chat/mod.rs:362`), so the property only speaks of
pushes that did not fail. `live_status` is off in the hub (`server.rs:1625`) and in
the packaged runtime; the module describes it switched on.

**BotViews.** A view is a list of questions; the rig's state changes between them,
and so do the owner's switches. An older plugin only marks what is withheld, so the
command must drop it; the reply is a set of facts, each with where it came from.
`withheld` (history) is kept for each switch by itself, and the property is about one
switch at a time, as the comment it comes from is (`discord_bot.rs:975`: "data shared
before *that* switch was disabled"). Of all switches together it would be false: a `/target`
that reads the sequence while only an old event names a target, withheld with its
category, and reads the events after a sequence that withholds that target has been loaded
and a new, shared event has named it again, shows the target although it was withheld at
every moment, first by one switch and then by the other. It takes four changes at the
rig, one more than the run allows; it came out of the proof, and TLC finds it with that
bound raised.

**ChatDelivery.** A message goes to every service of the process in turn and, in the
bot, to every channel at once; each has its retries and its end. Bootstrap delivery
is an enum, webhook or bot. `IsValidUrl` and `CanPost` are the two notions the code
has of a webhook address: `config.rs:231` accepts versioned paths and subdomains that
`DiscordWebhook::new` (`discord.rs:257`) refuses, so such a configuration is accepted
and never delivers.

**Notices.** A notice is its kind, its colour and the fields it has; of all
combinations of optional fields the fullest and the barest are built. Texts and their
lengths are left out: many come from the plugin and are not cut, so the model would have
to invent what they may be. What the updater remembers between notices is whether it
knows a target, a flip and containers, and the failure of the run under way, which colours
its end. What the rig reports at the end need not agree with what it told before: a
run called completed, after an item failed, ends green with the failed item beside it
(`chat_updater.rs:4968`, `5038`), which is what the code does and `EndsAreHonest`
allows; it speaks of the colours that the rig's outcome does not name.

## 3. The runs

| Run | Instance | Shows |
|---|---|---|
| `Rig` (0.23 million states) | 3 rigs, 2 sessions, 3 connections; 3 calls, one without a cursor, 2 pending at most; 3 links, 2 identities, 2 generations, one updater's and one command's lookup; 4 exchanges over the pipe, 1 stall | the registry implements `ProfileLease`; a call and its entry end together, every delta is consumed or the connection closed; answers are one's own and current |
| `Hub` (4.2 million) | 3 sockets (one paired by an earlier process), 2 owner requests, 2 tokens; 2 telescopes, 2 servers, 2 channels, 2 codes, 2 requests; grace 2, clock to 6; 2 telescopes of one name, 2 connections opened, one command | revocation, connections, tokens; feeds are paid for; announcements are earned; commands reach their telescope |
| `DirectHubLive` (0.25 million) | 3 sockets, 1 owner request, 1 token | a connection whose credential ended is closed |
| `UpdaterManager` (3.2 million) | 2 requests, 2 connections, 2 identities, 2 channels, 2 updaters; 1 login of one user, 2 requests of a manager, cached answers good for 2 instants, latency 1, 4 instants | barrier, single updater, service; managers are current |
| `UpdaterManagerLive` (0.23 million) | 2 requests that may be dropped, 1 connection, 1 channel, 3 updaters | a removal that returned has stopped the posting, even with dropped requests; a stale updater stops |
| `Cameras` (1.9 million) | 2 connections, 2 requests, 2 configurations, 2 credentials; 2 cameras, 3 uploads, 1 slot; 2 event ids, an image and a movie, 1 channel, 2 routes, times 0 to 2 | a stale session is served once, answers are true, slots are held; all properties of the delivery |
| `Chat` (1.9 million) | histories of 3 of 4 logged events in eight families; 4 fingerprints, places for 3, 7 instants; 2 counters, 2 epochs, one refused diagnostic a poll; 2 channels, 2 reports, 2 attempts, the three kinds of plugin; three families of sequence trees; 3 LIGHT frames, shared or withheld; 3 status cells, 3 posts; five trees and five events for views; 2 channels, 4 attempts; one item that fails, one failure only the end tells of | the thirteen properties of the updater's parts |
| `DirectHubRotation` | 3 sockets, 2 tokens | **violated**: two pairings leave two active credentials |
| `UpdaterManagerDropped` | 2 requests that may be dropped, 1 connection | **violated**: a dropped request breaks the barrier |
| `FeedsAreAttached` | 1 telescope, 1 server, requests | **violated**: a destination in a server that is no longer attached |
| `ChatLoopRecovery` | 2 callers, finitely many stalls, the plugin answers everything | **violated**: a rig is never reported back |
| `ImagePostsBaseline` | 3 images | **violated**: a poll clears what the baseline kept |

Why the bounds are enough. Each property speaks of at most two tasks of a kind
and what a third may do to them. With three sockets there is an old connection,
its replacement and a competitor; two owner requests can overlap; two tokens
allow a restored and a fresh one. With three calls and two places, the limit is
reached while others are cancelled or answered late. Two updaters suffice
because the gate lets one be joined while one is started; the run with dropped
requests has three, so that an abandoned task can linger. Two telescopes of one
name are needed for a command to be led astray, and two servers for a feed to go to
the wrong one. Three uploads of two cameras meet a full slot, an upload of the same
camera, and a stale lease. A task runs once (a socket is never reused), so counters
such as the generation are bounded by the number of tasks and need no cap; `Wake`
and `Poll` may repeat for ever. In the cameras and in the sign-in all intervals are
a few units, so that each of them ends, with one instant to spare, inside a run:
an image is too late for its retry, a cooldown ends, a reservation is pruned, an
answer is cached, goes stale and is asked for again. In the chat parts the history
is one event longer than the rig keeps, so something is always forgotten, and
`SeenCapacity` is what the code relates to the history: as large as it.

Every bound is a constant of its module, in the guard it limits (`MaxLog`,
`MaxClock`, `MaxInstant`, `LastInstant`, `MaxRoutes`, `MaxControls`, `MaxOpened`,
`MaxChanges`, `MaxRefused`, ...); `PROJECT.json` and the `.cfg` files name their values.
Deadlock is not checked where all sockets, requests, calls or events may simply be
over, which is every run.

Fairness. Every step a started task takes by itself is weakly fair, because
tokio polls every ready task and each await of the code is bounded
(`SOCKET_WRITE_TIMEOUT`, `QUERY_TIMEOUT`, `CLIENT_IDLE_TIMEOUT`). Entering
`reconcile_gate`, and the pipe's mutex, is strongly fair: tokio's mutex is a fair
queue. Nothing is assumed of rigs, clients, owners or of which ready branch the
select loop takes beyond its bias towards the close request. In `ChatLoopRecovery`
the plugin is assumed to answer every query it is sent and to stall finitely often,
which only makes the counterexample stronger.

### The five disagreements with a run

* **RotationLeavesOne**. `direct_server.rs:497` calls rotation a security
  invariant. The revocation and the minting are separate transactions, and a
  telescope may have two usable tokens, so two pairings can each revoke before
  either mints. Both credentials then authenticate.
* **RemovalIsABarrier with dropped requests**. `updaters.rs:65` makes every
  retired updater a cancellation barrier. If the future of a request is dropped
  while it awaits the aborted task, that task is neither in the table nor
  awaited, and the next removal returns without waiting for it. What holds all
  the same is `RemovalStopsPosting`: by the time a removal has returned, every task
  that still carries the channel has been told to stop and is one of those whose
  request was dropped, so it gets no further than its next await. That is checked with
  dropped requests and proved, and so is the barrier as long as none was dropped.
* **FeedsAreAttached**. `tenants.rs:73` speaks of a channel in an attached guild.
  `api_add_channel_route` reads the attachment, asks Discord twice and inserts; a
  detachment in between leaves a destination without an attachment.
* **BackOnceItAnswers**. `chat_updater.rs:1515` says that a reconnection is told as
  soon as the plugin answers again. An exchange given up after its query was written
  leaves its answer in the pipe; from then on every answer is taken for the wrong
  one, and the rig stays offline.
* **BaselineSeedsThePlot**. `frame_history.rs:37` says that baseline samples seed the
  plot. The baseline does not remember a withheld image; the first poll takes it for
  a boundary just drawn and clears the frames.

### Disagreements that TLC finds and no run repeats

These formulas are in the modules; each is refuted by TLC on the instance of the
run its module belongs to.

* `DirectHub!OneOutstandingToken` (`server.rs:887`): a consumed token that a rollback
  restores after a newer one was issued makes two.
* `UpdaterManager!RebuiltUpdaterGetsReplay` (`server.rs:111`): a rig that comes back
  before the old updater is aborted is polled by it once more, and the delta it took
  dies with it.
* `SignIn!RevocationIsImmediate` (`guild_check.rs:6`: "revocation takes effect
  immediately"): a positive answer is cached for a minute, and an answer under way
  counts from when it is heard, so somebody who lost the right is let through for
  that long. `ManagersAreCurrent` is the bound that does hold.
* `BotCommands!UnchangedIsNotMoved` and `LiveStatus!EditedWhenStateChanges` are
  described with their modules.

Two more were read off the source while modelling. The updater keeps a notice's title
short enough for the caller's `[telescope] ` prefix (`chat_updater.rs:5988`), with
room for less than a name may have (`server.rs:813`: 64 bytes): a long name, a failed
command's icon and words, and a cut text come to 266, or 260 for a notification,
and Discord, which takes 256, refuses the notice whole. Lengths are not
modelled, so this is arithmetic and no run.
And `store.rs:273` says that the clean-up of logins is called from the login flow; it
is an hourly task (`server.rs:1652`), which is what `Sweep` models.

## 4. The proofs

TLAPS proves the following for every value of the constants that satisfies the
assumptions named in the modules. Most of them only tell sentinels and kinds of tasks
apart and make bounds natural numbers (`RegistryConstants`, `QueryConstants`,
`SourceAssumption`, `PipeAssumption`, `HubConstants`, `ManagerConstants`,
`SignInConstants`, `TenancyAssumption`, `CameraSessionAssumption`,
`UploadConstants`, `AutofocusAssumption`, `PostsAssumption`, `ImagePostsAssumption`,
`NoticesAssumption`, `CountersFit`, `TreesAreBounded`, `RatesFit`). Those that say more:

* `DeliveryConstants` orders the intervals of the images: reservations are kept (7
  days) at least as long as the cooldown (60 s), and longer than an image may be
  offered and delivered (300 s, or 24 hours for a movie, and the limit of an attempt).
* `ChatLoopCallers` fixes the two callers of the pipe, and a threshold of at least one
  silent cycle; `PresenceAssumption` a grace of at least one unit.
* `NamesAssumption` gives every row of a telescope a name and an owner;
  `DeliveryAssumption` makes the channels of the bot finitely many, none of them the
  webhook or the room, and every limit of attempts at least one.
* `StatusCellsAssumption` and `FingerprintAssumption`: what the status shows was polled
  or told by an event, and the fingerprint is of at least one cell, so that it is
  never the empty one that stands for `None`.
* `RigEventsAssumption`: an updater remembers at least as many events as a rig's history
  keeps (20000, "comfortably above the largest history either side returns",
  `chat_updater.rs:816`), and an event has a name, a time, details and its switch.
* `KeysFit`: the plugin counts finitely many kinds of diagnostic, and no more than the
  hub's tables hold (`MAX_KEYS`), so no count is turned away for want of a place.
* `FingerprintsFit`: the list of fingerprints has a place for every diagnostic that the
  buckets can grant within an interval. The code has 5 + 60/12 errors and
  10 + 60/6 logs, 30 in all, against 128; the run has exactly as many as needed.

The wall clock is assumed not to go back.

| Theorem | Statement | Argument |
|---|---|---|
| `Rig_proofs!IndexesAlwaysAgree` | `[]IndexesAgree` | inductive with the type invariant alone |
| `...!ActiveProfileIsKept`, `...!DisplacementIsReported` | `NoTakeover`, `DisplacementReported` | from the agreement of the maps, one step per call |
| `...!ImplementsLease` | `LeaseSpec` | `holder <- by_rig`; agreement turns the two indexed removals into the abstract `CarriedBy` |
| `...!PendingIsBounded`, `NoEntryLeaks`, `DeltaIsReplayed`, `OnlyAwaitedSent` | their properties | `CallStepInv`: the step of a call determines whether it is pending, queued or on the wire |
| `...!NobodyStranded`, `NothingIsLeftBehind` | `[]NoCallStranded`, `[]NothingLeftBehind` | `StrandStepInv`: the queue closes before the waiters are cleared |
| `...!CurrentAnswers` | the action property `AnswersAreCurrent` | `SourceInv`, see below |
| `...!OwnAnswers` | `[]OwnAnswersOnly`, and that one exchange at a time holds the pipe | `PipeInv`, see below |
| `...!Debouncing` | `[]OfflineIsDebounced` | the loop counts silent cycles up to the threshold and starts over with the first that is not |
| `Hub_proofs!RevocationHolds` | `[]RevocationIsFinal` | see below |
| `...!EpochFenceHolds`, `...!NoConnectionOrphaned` | `[]EpochFence`, `[]NoOrphanedConnection` | lemma `SlotStep`: who is in the slot, who was taken out of it and by whom |
| `...!TokenMintsOnce` | `[]OneCredentialPerToken` | lemma `TokenStep`: a consumed token has one task between consumption and minting |
| `Servers_proofs!OnlyOneUpdaterPosts` | `[]OneUpdaterPosts` | `TableInv`, on mutual exclusion by the gate |
| `...!RemovalHolds` | `[](RemovalStopsPosting /\ (abandoned = {} => RemovalIsABarrier))` | `BarrierInv`, see below |
| `...!ServedHolds` | `[]ConnectedRigIsServed` | `ServedInv`, see below |
| `...!ManagersStayCurrent` | `ManagersAreCurrent` | `RightsInv`, see below |
| `...!FeedsPaidFor` | `[]SharedFeedsArePaidFor` | `SharesInv`, see below |
| `...!CommandsReach` | `[]CommandsReachTheirTelescope` | `CommandInv`, see below |
| `...!AnnouncementsEarned` | the action property `AnnouncementsAreEarned` | `OutageInv`, see below |
| `Cameras_proofs!StaleOnce`, `TrueAnswers` | `[]StaleSessionServedOnce`, `[]AnswersAreTrue` | `AuthorityInv` and `DeliveryAwaited`, see below |
| `...!UploadSlotsAreHeld` | `[]UploadSlotsHeld` | `Slotted`: an upload past its admission is in the table under its camera, and two such are of two cameras |
| `...!ReceiptsHold`, `DeliveredHolds` | `[]ReceiptsAreTrue`, `[]DeliveredIsDelivered` | `StageInv`: where each route of an attempt is |
| `...!CooldownHolds`, `NoticeHolds` | `[]OneImagePerCooldown`, `[]NoticeIsOwed` | lemma `ReservedLater`; inductive |
| `...!NothingBackfilled`, `RepostedOnlyInDoubt` | `NoBackfill`, `RepostOnlyInDoubt` | lemma `BeginsBySending` with `TargetInv` and `PostInv` |
| `Chat_proofs!FreshStatus` | `[]OneFreshStatus` | `StatusInv`, see below |
| `...!EachServed` | `[]EachOnItsOwn` | `FanOutInv`, see below |
| `...!HonestEnds` | `[]EndsAreHonest` | `NoticesInv`, see below |
| `...!ReportsOnce`, `AcknowledgesDelivered` | `[]ReportedOnce`, the action property `AcknowledgedWhenDelivered` | `ReceiptsInv`, see below |
| `Events_proofs!EventsAreAnnouncedOnce` | `[]AnnouncedOnce` | `MemoryInv`, see below |
| `...!RevokedStateStaysGone` | `[]TimesTellApart => []RevokedStateIsGone` | `Truthful`, see below |
| `Polls_proofs!RepeatsHold` | the action property `RepeatsSuppressed` | `RateInv`, see below |
| `...!NoticesHold` | `[]NoticesAreTrue` | `DropsInv`, see below |
| `...!OutputsHold`, `UpdatesHold` | `[]OutputsPostedOnce`, `[]UpdatesAreTrue` | `OpsInv`, see below |
| `...!BoundariesHold` | `[]BoundaryHolds` | `BoundaryInv`, see below |
| `...!ViewsHold` | `[]NothingWithheldIsShown` | `ViewsInv`, see below |

Each file also proves the type invariants of its modules; of the modules of `Polls_proofs`
it does so for `EventElision`, and the inductive invariants of the others state the types
they need. Several components share a file; each part of it stands by itself, with its
invariant before its lemmas.

`RevocationIsFinal` is not inductive: it says nothing of a socket that is about
to insert. `ValidatedFence` does: if the credential such a socket presented has
ended since it was validated, the task that ended it has yet to advance the
generation (`BeforeBumped`), or the generation the socket sampled is already
below the current one (`GenBounded`), and then `insert_if_generation` refuses
it. `SlotPlaced` and `RevokerRetires` say who may be in the slot and who ends
credentials.

`RemovalHolds` needs to know who still carries a removed channel. While any task
or any snapshot of the gate's owner does, the request that removed the channel
last has not yet retired that task, or the task was abandoned (`Carried`); and an
aborted task is the one the owner of the gate is joining, or was abandoned
(`Joined`). So the task that outlasts a removal is one whose own request was dropped
at the join, and it has been aborted; the second disagreement is that it exists. The
theorem assumes nothing of clients.

`ConnectedRigIsServed` speaks of the moment when nothing is under way, and says
nothing of how it gets there. `ServedInv` names, for everything that can be out of
date, who will put it right: an updater, or the snapshot of one being built, of old
routes or old trust has a task that must still retire it (`Forced`); a connection
that is not the one picked, or that the updater does not follow, is about to be
adopted; and while there is no updater somebody is on the way to start one. When
nobody is on the way, nothing is out of date. It holds with dropped requests too: a
dropped request counts as under way until the periodic loop has made it good.

An answer of `DirectSource` is used only while its connection and its generation are
current, and what has to be known then is that the connection is of the source's own
rig: a connection gets its identity before it enters the slot and keeps it
(`SlotKnown`), and a lookup under way goes over a connection of its source's identity
which, unless it is gone, is still the one in the slot (`LookupsKnown`).
`PipeInv` says that the pipe's mutex is held by at most one exchange (`PipeHeld`) and
that a query has its id before it is written (`PipeAsked`), so a line that is
accepted is the answer to it; it is proved for every step of a caller or of the plugin
and used again for the chat loop, which takes the same steps.

`SharesInv` is about requests and codes that refer to each other while telescopes,
attachments and codes may be deleted under them. A request that has consumed a code
holds it, and no other request does, for as long as the telescope is owned
(`RequestsHoldCodes`); an attachment goes with its telescope, and one without the
right to command was paid for with a code of that telescope, spent for that server
(`AttachmentsPaid`). `CommandInv` says of a command that has pinned a connection: if
that connection still stands under its row and takes commands, the user was entitled to
it when the second resolution authorised it (`Sure`). `OutageInv` ties an entry of the
sweep's table to when the rig was last seen: not after the outage it counts
began, and an outage that was announced has lasted the grace.

In `CameraSession` a credential that has gone never comes back, so a session that holds
it fails the check with which its next turn begins (`AuthorityInv`); the one turn it is
still served is the one it had begun. And what is being delivered is what the camera
was asked for (`DeliveryAwaited`), so an answer can only be that of its question.

The delivery of images rests on two facts about pruning. `ReservedOnce`: an image
whose reservation was pruned is too old to be offered, so it is never reserved again
and its history is fixed. `BusyIsKept`: the row of an image that is being
delivered is not pruned, because an attempt ends before its image is that old.
`TargetInv` then says that the targets of a reserved image are the routes of
its audience that are left, and `PostInv` that every post is in doubt, has its
receipt, has lost its route or its row, or is `Answered`: accepted by Discord
and about to be recorded by a task that has not been interrupted.

`OneFreshStatus` is not inductive, because the fingerprint leaves cells out: the state
may have changed since the push in a cell that no fingerprint shows. `PushIsShown`
separates the cells: those that are printed are on the recorded message as the
fingerprint has them, and those that are not change by events, which forget the
fingerprint. `PostsAnew` says that nothing is posted while the recorded message is
there, and `NoStrays` that every other message was given up by a restart or a lost
answer.

`EachOnItsOwn` is about the end of a message's way, and `FanOutInv` about the way: the
services wait in line, each once (`InLine`), and so do the channels of the bot
(`ChannelsSoFar`), so a destination whose turn is to come has been told only in doubt
(`OnceEach`, with `Untold`: of the room the text may be over and the image to come).
`Remembered` says that a destination is served, broken, or still to come, and
`Reported` that a failure which nothing made good is not reported as a success.

`EndsAreHonest` needs to know that the failure the updater remembers is one of those
that were shared (`FailureKnown`).

`ReceiptsInv` is `ReceiptsTyped /\ Delivering /\ Counted /\ Told`: what a delivery is
posting is pending for the channels it has left; a channel's posts of a report exceed its
doubts by the receipt, or by the one post that has been accepted and not recorded; and
what counts as done for the report is recorded for every channel behind it.

`RightsInv` says what the memory of a right is worth. Nobody has managed a server
later than now, and whoever manages it now has done so now (`Managing`); a cached
answer is at most `Latency` younger than the rights it speaks of (`CachedRights`);
and an answer on its way was asked for no longer ago than that, and if it is good
tells of rights held since (`PendingRights`). With the lifetime of an entry
this is the bound of `ManagersAreCurrent`. It needs `Identified`, that a request
under way is of a known user: sessions are only made by callbacks that know one.
That `Latency` bounds an answer is an assumption about Discord, made in the guard
of `Tick`: the code sets no timeout on these requests (`guild_check.rs:50`), and an
answer that came an hour late would be believed, and cached from then.

The proofs about `RigEvents` and those in `Polls_proofs` are by induction over data. A
response is handled item by item, by a recursive function over its positions; the
library's induction theorems take an operator as a parameter, which the provers cannot
instantiate, but its theorem on minimal elements (`WFMin`) takes a relation, and gives a
least position at which a claim would fail (`Induction!Least`, `UpTo`). So each invariant
has a form for the middle of a response. That such a function has values at all is an
induction too; `Polls_proofs` does it once (`StepsHaveValues`, `StepsRun`) for a `Step`
that says what each of its seven recursions does at a position.

`AnnouncedOnce` is what the comment on `SEEN_SET_CAPACITY` promises (`chat_updater.rs:816-819`).
`MemoryInv` says why it holds. Reads start where the last one ended, so whatever the
rig still retains has been given from the oldest on (`HistoryRead`), and so has, of
what was ever announced, everything retained (`AnnouncedRead`): a rebuilt updater reads
its baseline first. Every notable event that may come again is in the memory
(`Remembered`). When the memory is full, touching a key forgets the one at its head; that
is never one that may come again, because every key behind a notable one is of a later
event (`OldestFirst`), so the whole memory and the new key would be retained, more than
the rig's history holds (`TooMany`, by the pigeonhole principle). Events that a disabled one
hides are passed over without being touched and may break the order, and so may those
that the middle of a replayed response has not come to (`Midway`): the order is claimed
only of what is neither.

`RevokedStateIsGone` follows from what each cell stands for (`Truthful`): an event that was
logged, that was shared, whose cell its scope takes back, and after which no disabled
event of the scope has been read. An event followed by a boundary in the same response
is never shown, and a boundary empties the cells of its scope (`FillsAreRevoked`), unless it
is known by its tombstone. A tombstone is a time and a scope (`has_seen_disabled_event`), not
the event: two disabled events of a scope that bear one time are taken for one, and if
a shared event had come between them the second would not take it back. The theorem
therefore supposes `TimesTellApart`, which the times of a rig's log satisfy.

`RepeatsSuppressed` compares two acceptances of one diagnostic; the only thing that keeps
them apart is the list. `RateInv` says that the list still has every fingerprint accepted
less than an interval ago (`Remembers`), and the reason: the accepted diagnostics of a
class can be numbered from the latest on (`Numbered`) so that an entry's number of tokens,
with what the bucket has left, fits in a full bucket and what it has gained since. What
still counts therefore has a number of at most the capacity and an interval's gain, a
slot of its own (`SlotsSuffice`), and when the list is full its oldest entry is one that
counts no more. Accepting costs a token, so every number of the class may move up by one,
and a bucket that was full and gained nothing gives no slack that was not there.

`NoticesAreTrue` counts what was dropped and not told of, and has to know of drops the hub
has not heard of yet: what the plugin's counter is ahead of the hub's watermark, and
what waits for a notice, are both part of what is unreported (`Fits`). A counter that
starts over does so under a new epoch, where its watermark does not apply; a late snapshot of
an older count gains nothing, because a watermark is never lowered within an epoch.

`BoundaryHolds` follows from where in a response the updater is (`Clean`): an image kept from
earlier polls has no new boundary among the images gone through so far. A boundary that
was seen before revokes nothing, but then no image before it was kept; one that a baseline
skipped is not in `images_seen`, but the baseline kept nothing from before it either.

`OpsInv` is about one path at a time. Whatever a poll makes of a path is a `Turn`: it
tells of what was opened there, and it uses up an output exactly if it posts one, or counts
it as posted. All turns of a poll together are `Sound`: a used-up output has one note. The
paths are finitely many (`TreesAreBounded`), which is all that the proof asks of the tree.

`ViewsInv` says that what a command has shown is free of what every switch withheld so
far, and that what the rig withholds now includes what it has withheld since the
invocation. `Heard` is about the two commands that carry something from one answer to
the next: `/target`, the sequence it was given before the log, and `/last-image`, the frame's
index. For `/target` the answer to the first decides whether the log may be used for the
second, and that is where the distinction between the switches, above, comes from.

### Model-checked only

* Liveness, which is out of the prover's reach: `RevokedIsClosed`, `StaleUpdaterStops`,
  and the part of `DeltaConsumedOrReplayed` that speaks of what must follow.
* The five disagreements of section 3: what fails has no theorem.

## 5. What is not modelled, and why

* **Web pages, pickers, read-only endpoints** (`hub/web_ui.rs`, the lists in
  `server.rs`): they show state and change none.
* **Charts** (`charts.rs`): pixels.
* **Data models, parsing, formatting** (`autofocus.rs`, `equipment.rs`, `images.rs`,
  the texts of `discord_bot.rs`): pure conversions; where a property depends on one
  (a bucket of remaining time, which webhook addresses are
  accepted) that part is modelled.
* **Direct protocol messages and negotiation** (`direct/protocol.rs`): types and a
  comparison of capability sets, made once per connection.
* **Start-up, configuration files, packaging** (`main.rs`, `plugin_runtime.rs`,
  `config.rs`): sequential, before any task runs.
* **Audit log, e-mail addresses, migrations, telescope observations**: written
  and never decided by.

Simplifications inside the modules. One telescope, or one camera, stands for each
where the code keys everything by it. Database reads of the updater manager succeed: a
failing read of the routes is taken by the code for an empty set and retires the
updater (`updaters.rs:217`), a hazard named here and not modelled. A transaction that
fails in SQLite ends the attempt it belongs to. Panics and poisoned mutexes do not
happen. Discord's backoff only delays. The pipe's and the sockets' frames are whole. The wall clock does not go back.

The plan that is left, most valuable first: failing database reads in `UpdaterManager`, with
the property that the next pass mends them; what the operators of `SequenceTree` make of a
tree, by induction over the depth of a path; the negotiation of `direct/protocol.rs`; the
listing of a manager's servers, which fills the same cache from another path.
