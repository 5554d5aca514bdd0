# A verification of the LXD Management API

TLA+ modules, TLC configurations and TLAPS proofs about the LXD Management API
in `src/`: a FastAPI gateway that authenticates its clients with JWTs and turns
their requests into calls of the LXD REST API. `PROJECT.json` lists components,
runs, mutants, the code lines behind each definition, findings, hazards and
theorems.

## 1. Inventory

| Part | State it keeps | Operations | Hard because |
|---|---|---|---|
| LXD client (`services/lxd_client.py`, `lxd_operations.py`, `exceptions.py`, `schemas/lxd.py`) | one `httpx.AsyncClient` per worker, shared by all coroutines | `request`, verbs, `to_async_ref`, `wait_for_operation`, error mapping | every call may time out or break before or after LXD acted; replies have many shapes |
| Asynchronous actions (`routes/instances.py`, `snapshots.py`, `backups.py`) | none; LXD keeps the operations | create, replace, patch, delete, state, exec, restore, rename; `?wait=true` makes a second call | work outlives the request; the second call fails by itself |
| Operations routes (`routes/operations.py`) | none | list, get, cancel, wait | other clients cancel; LXD forgets operations; long-polls |
| Device edits (`routes/storage.py`, `routes/networks.py`) | none; the devices of an instance are in LXD | attach and detach of volumes and NICs | read, edit, write over two awaits, applied by LXD in the background |
| User store (`db/*`, `main.py` lifespan, `alembic/`) | table `users` in SQLite, shared by all workers | `init_db`, `seed_admin`, `create_user`, migration | four processes run the same startup; each may be killed at any statement |
| Authentication and roles (`api/deps.py`, `core/security.py`, `routes/auth.py`) | none but the user rows; tokens are with the clients | login, refresh, `get_current_user`, `require_role`, `ws_user_from_token` | rows change while tokens and WebSockets live |
| WebSocket relays (`exec_ws`, `console_ws`, `operations_ws`) | two sockets and two tasks per session | handshake, trigger, relay both ways | either side closes at any time; one task may end or raise without the other |
| Resource CRUD (`storage.py`, `networks.py`, `projects.py`, `images.py`, `system.py`) | none | one call to LXD per route | as for the LXD client |
| Middleware and error handler (`main.py`, `utils/logging.py`) | a context variable in each task of a request | give and echo request ids, put them on log lines, answer unhandled errors | requests of a worker interleave; each has two tasks with contexts of their own; the outermost handler runs after the reset |
| Rate limits (`core/limiter.py`) | counters in each worker's memory, kept by slowapi | admit or refuse logins, refreshes, registrations | workers count apart and forget when they restart |
| Pagination (`utils/pagination.py`, all list routes) | none | cut a page from LXD's list | the list is fetched anew for each page and changes in between |
| Configuration, schemas | none that changes | | |

How they interact: a route handler is a coroutine of one worker. It first runs
its dependencies (user from the database, role), then awaits one or two calls of
the shared client, then answers. Coroutines of a worker interleave at their
awaits; workers interleave everywhere and share only the database and LXD.

What makes each part correct:

* *client and actions*: what an answer says about the work at LXD is true when
  it is given and remains true (an operation id is that of one's own operation,
  a verdict is the operation's, a 4xx means that nothing happens), each request
  starts at most one operation, and each is answered;
* *device edits*: an edit changes the device it names and no other;
* *user store*: names are unique, a serving worker has its admin, answers to
  register are true, every worker comes up;
* *authentication*: a request is carried out only for a user who exists, is
  active and has the role when it is checked; a refresh token is no access token;
* *relays*: bytes keep their order, and a session ends when either side closes;
* *middleware*: an id leads from an answer to the log lines of that request and
  of no other;
* *pages*: a client that walks a collection misses and repeats no more than the
  changes it raced with explain, and comes to an end.

The hazards of the code, each at its line, are in `PROJECT.json`.

## 2. Modules

| Module | Models | Runs |
|---|---|---|
| `LxdReply` | constant level: a reply of LXD, `request` (from reply to value or exception), `to_async_ref`, `wait_for_operation`'s test of the final state, `lxd_err_to_http` | through the modules that extend it |
| `OperationPromise` | abstract: what each answer tells a client about its background work | refined by `Operations` |
| `Operations` (`MCOperations`) | concurrent API requests through one shared client, LXD's operations, late, lost, empty and malformed replies | `operations`, two violations |
| `LxdReply_proofs` | lemmas and theorems about `LxdReply`, shared by the proofs about `Operations`, `Devices` and `Access` | `tlapm` |
| `Operations_proofs`, `Devices_proofs`, `UserStore_proofs`, `WsRelay_proofs`, `Access_proofs`, `Middleware_proofs`, `Pages_proofs` | theorems about the module each is named after | `tlapm` |
| `DeviceEditing` | abstract: an edit rests on the devices of one moment and changes one of them | refined by `Devices` |
| `Devices` (`MCDevices`) | attach and detach as read, edit, PATCH and background update | `devices`, one violation |
| `UserStore` (`MCUserStore`) | startup of the workers, migration, seeding and register on the shared database, with kills and restarts | `user_store`, one violation |
| `WsRelay` (`MCWsRelay`) | a WebSocket session: handshake, trigger, connection, the two relay tasks and their ends | `ws_relay`, one violation |
| `Access` (`MCAccess`) | the dependencies in front of each handler (database session, user, role), the routes that make one call or none, and their answers | `access` |
| `Middleware` (`MCMiddleware`) | request ids in contexts, answers and log lines; the handler of unhandled errors; workers killed | `middleware` |
| `Pages` (`MCPages`) | `page_params`, `paginate` and the list routes around them; a client that walks a collection while it changes | `pages` |

### LxdReply

The bytes of a reply are abstracted to its *kind*, which is what the branches of
`LXDClient.request` tell apart: the three envelopes (async with or without
metadata, sync with an object or null, error), an empty body (whatever the HTTP
status: `request` returns `None` before it looks at it), a body that is no
envelope (a proxy's page), no reply in time, a broken connection. An *outcome*
is what the call leaves in the handler: an exception with its `status_code`, or a
value of which handlers look only at whether it is a dict, its `id` and its
`status`. `to_async_ref` keeps its conversions: `metadata.get("id", "")` and
`str(None)`. "Pending" is not told apart from "Running" by any line and is
merged with it.

### Operations

`pc[r]` says which `await` the coroutine of request `r` is suspended at. Each
action is all the code between two awaits. `call[r]` is what LXD has still to do
for `r`: it survives the coroutine's giving up, so a timed-out start may be
carried out later. `Timeout` and `ConnectionFails` may strike before or after
LXD read the request. The endpoints stand for all routes that make the same
calls in the same order:

* `start`: every route that posts an action and returns the reference (create,
  replace, patch, delete of an instance, `exec`, snapshot rename and delete,
  backup delete, and the waiting routes without `?wait=true`);
* `startWait`: the routes given `?wait=true`. For snapshot create and restore and
  backup create, `except Exception` makes any failure of the wait a 500;
  `set_instance_state` catches only `LXDOperationError`, and every other error ends
  in the handler for unhandled errors, a 500 too;
* `get`, `cancel`, `wait`, `waitBounded`: the routes under `/operations/{id}`.

LXD is external and modelled from how the code uses it: it may start an
operation, answer synchronously, refuse; it shows, cancels and blocks on an
operation it lists; a long-poll's reply carries the operation object and its
final status, unless LXD's own `?timeout=` ran out; ended operations are
forgotten. Replies need not be what one hopes for. A start that LXD has accepted
may be replied to with the operation, with its URL alone, with a proxy's page or
with no body at all; a start that nobody accepted with an error, a page or no
body; and any other call, a long-poll at any moment of it included, with an error,
a page, a null or no body (`LxdAnswersBadly`). One thing is assumed: a proxy does
not turn an accepted start into a 4xx.

So a reference may have an id that is none (`""` or `"None"`), and its client
learns nothing of whether something runs. And a wait may return without having
seen the operation: `wait_for_operation` then returns `{}`, `wait_operation`
answers 200 with it, and the routes with `?wait=true` answer `{"status":
"Success"}`. The field `basis` of an answer, which no client sees and no action
reads, is the status of the operation object that the handler had in hand.
`WaitVerdictIsTrue` and the refinement speak of the verdicts that have a basis
(`verdictOf` counts a "Success" without one as `"unknown"`); what the docs say of
*every* Success, `SuccessMeansDone`, is violated (run `operations_success`).

### Devices

One instance; its devices are a function from keys to devices. `vol_{name}`
ignores the pool, and `?device_name=` lets a NIC have any key, so edits can
collide. The handlers rely on two things, which the model takes over: the reply
to the GET carries `devices` (or the instance has none), and a PATCH *replaces*
the devices by those of its body; with an LXD that merges them key by key,
detach would remove nothing. LXD accepts a PATCH with an operation and applies
it later, so even after the 202 the edit may not have taken effect. The constant
`Clients` says how clients pace their requests: `"waiting"` for the end of each
operation (two theorems are about them), `"sequential"` for each answer (the run
about lost devices), `"concurrent"` not at all.

`DeviceEditing` is what remains true for any clients: `seen[r]`, the devices that
the GET showed, are those of one moment since the request was made, and an edit
that takes effect gives the instance exactly these with one device added or
removed, at most once. For an edit that no other one overtakes this is the
promise of the docstrings, and `UnracedEditIsExact` says so of the detailed
steps; for others it says precisely what they undo.

### UserStore

Each statement of the database is a step of some process; a kill may come
between any two. The variable `database` is the deployment's, one of `Databases`, and
never changes. `"sqlite"` is the shipped one: the driver commits each DDL
statement by itself, so `create_all` is a check, a CREATE TABLE and a CREATE
UNIQUE INDEX. `"transactional"` is a database whose DDL is transactional,
reachable through `DATABASE_URL`. One run covers both, and each property says what
holds on which. `EveryWorkerServes` holds on both, unless the administrator's name
has been doubled, which can happen on SQLite only and keeps workers down for ever.
`UsernamesAreUnique` needs the index on SQLite and nothing on the other; that the
index may come too late is `DeclaredUnique` (run `user_store_duplicates`). Workers that die are started again (uvicorn's supervisor,
`restart: unless-stopped`). Not modelled: "database is locked" errors (the
statement is taken to be retried by SQLite's busy timeout), and a deployment
without `SEED_ADMIN_*`, which has nothing to seed.

### WsRelay

One session. `exec_ws` and `console_ws` share `_proxy_exec_ws` and are the kind
`"proxy"`; `operations_ws` is the kind `"events"`: viewers may use it, nothing is
triggered, and the client's frames are dropped. The handler's `pc` follows the
code from the handshake to the return; `up` and `down` are the tasks
`client_to_lxd` and `lxd_to_client`, each split at its awaits, so that a frame
can be held while the other side closes. The two differ in what they catch: what
`lxd_ws.send` raises leaves `client_to_lxd` and, through `gather`, reaches the
handler while `lxd_to_client` runs on; `lxd_to_client` catches everything. The
servers and the `websockets` library are external: a socket delivers what was
sent before a close and then reports the close, and a send after it raises.
`Connect` is the connect as it is meant. As the code calls it, `ws_connect` cannot
succeed with the `websockets` of `requirements.txt`: for a local socket its URL
begins with `http://unix/`, which is no WebSocket URL, and in remote mode it gets
`verify_ssl` (and `cert`), which are no arguments of it. Every session would take
`ConnectFails`; what follows a connect is verified for the code as it will run
once this is mended.

### Access

Each route is a record of a table: the role it needs (`"nobody"`: no user is
looked up, `"user"`: any active one), the credential it takes, its call to LXD
and the form of its answer. The actions are the steps that all of them share:
`RefusesToken` before the database is asked, `CheckOut` of a pool connection for
the SELECT, `RefusesUser`, `RefusesRole` or `Admits` on the row that was found,
the call to LXD, and `Answer`, which ends the handler and so returns the
connection. That last order is the code's: `get_db` yields its session to the
whole handler, and a SELECT begins a transaction that nobody ends, so a
connection is kept through the call to LXD and through a WebSocket session. A
full pool makes the next request wait until SQLAlchemy's timeout, which is an
unhandled error, a 500 (`PoolTimesOut`).

The table has every kind of route that makes one call or none: reads, writes of
admins and of operators, `register` and the other routes under `/auth`, exports,
health and WebSockets; routes that agree in these four things are one record.
Forms of answers: `"reference"` (202, also the message of a cancel), `"created"`
(201, image aliases), `"registered"` (201, or 409 for a name that is taken), `"json"`
(what LXD returned), `"dict"` (instance state, whose `.get` fails on a null),
`"stream"` (exports and logs, which pass on the body of *any* reply with 200),
`"health"` (200 whatever happened) and `"session"`. A socket that is closed before
it is accepted, with 4401 or 4403, is answered by the server with 403.

User rows change at any time: the code has no route for it, so `EditRow` is
external. Tokens are inputs, good or not; signing and expiry are python-jose's.
The variables `allowed`, `denied` and `foreign` are history: whether the row has, at
some moment of the request's life, given or refused the right to its route, and
whether the reply was a proxy's page or had no body.

An error without a body is, to `LXDClient.request`, the value `None`, and a page of
status 201 or 202 an `LXDError` whose status the client is given. After either the
gateway answers 202 or 201 though nothing was done. So `AnswersToWritesAreTrue`
claims that a 201 or 202 is true of requests that are not in `foreign`, and a 4xx
of all.

Handlers write `_: CurrentUser = RequireOperator`, where `CurrentUser` is itself
an `Annotated[..., Depends(...)]`. The model takes the default value, the
stricter of the two, to be the dependency that runs, and likewise reads
`Depends(RequireAdmin)` in `auth.py` as `RequireAdmin`. That a version of FastAPI
may refuse such a signature at import is outside the model.

### Middleware

Starlette's stack, from the outside: the handler for unhandled errors,
`RequestIdMiddleware`, CORS, the handlers of `HTTPException` and
`RateLimitExceeded`, the routes. `outer[r]` is `request_id_ctx` in the server's
task for `r`, which the first two run in; `inner[r]` is the copy in the task that
`call_next` starts for the rest. `Arrive` is `dispatch` up to `call_next`,
`Respond` what follows it (the header, then the reset of the outer context);
`HandlerRaises` leaves `dispatch` through its `finally`, and only then does
`UnhandledError` read the context, so the 500 and its log line carry no id.
WebSockets bypass the middleware. Routes are told apart as far as ids are
concerned: `"plain"`, `"health"` (tells the id in its body), `"limited"` (a 429 may
come from inside of the middleware), `"socket"`. Clients may send ids of their
own, also ids that an answer has told them. `uuid4()` is taken to make distinct ids: that of request `r` is `r`.

That the 500 never tells an id is part of `AnswersTellTheirId`. It is what the
code does, and not what `main.py:4-5` and `main.py:79-80` say of it: "consistent
JSON error shape `{"detail": ..., "request_id": ...}`", "so error responses can
include it". `PROJECT.json` lists it as a finding.

The limiter is slowapi's and its counting is not modelled: any attempt at a limited
route may be refused.

### Pages

One client walks a collection: it asks for a page, goes on at `offset + limit`
while that is below the `total` of the last page, repeats a failed request or
gives up. LXD's list is a sequence without repetitions in which entries are
deleted anywhere and inserted anywhere. `LxdLists` and `Answer` are two steps, so
the list may change while a reply is on its way; `paginate` is Python's slice
with its clamping at the end. Parameters that `page_params` does not admit are
asked for too and end in 422. `LxdGivesNoList` is the reply that is no list,
which `items = result if isinstance(result, list) else []` shows as an empty
collection: the walk then ends, and nothing in the answer says why.

The properties are counts, not only the cases without changes: each deletion
hides at most one staying entry, each creation repeats at most one, because an
entry crosses the boundary between two pages only when another one before it
goes or comes. `QuietWalkIsExact` is the case without changes, in which the pages
put together are LXD's list itself.

## 3. Runs

| Run | Question | Bounds and why they are enough |
|---|---|---|
| `operations` | Are references, rejections and the verdicts that rest on an operation true, does one request start at most one operation, is every request answered, does the system implement `OperationPromise`? | 2 requests, 2 operations, error codes 400, 404, 500, page codes 200, 404, 502: an action and whoever cancels, polls or waits for it, or two actions; one code per class of the mapping; replies of every kind to every call. Of behaviours that differ in the names of requests and ids only one is looked at (`MCInOrder`). The theorems cover all sizes. |
| `devices` | With any interleaving: does each edit that takes effect rest on one moment (`DeviceEditing`), is it exact if nothing was edited since its read, does a 4xx mean no edit? | 2 requests, a volume name in two pools, a network: all collisions of keys; all initial devices. |
| `user_store` | Has a serving worker its admin, are register's answers true and given, does the index keep names unique? Does each worker serve in the end, unless the admin's name has two rows (only on SQLite)? With transactional DDL, are usernames unique whatever races and is killed? | 2 workers, a migration, 2 register calls, 2 kills, both databases: each pair of processes in every order around the steps of a third, with a kill in each. |
| `ws_relay` | Do frames keep their order, is none lost, are sockets and tasks released, does a session end when both sides have closed? | One session (sessions share nothing), 3 frames each way and empty ones: one held by a task, one waiting, one delivered. |
| `access` | Does only what is authorised happen, is a client sent to log in again only with cause, are the answers to writes true, are pool connections returned, is every HTTP request answered while sessions hold connections? | 2 requests of any routes, 1 user, a pool of 1: one request runs while the other waits for the pool and the row of both changes. LXD's codes 400, 401 (it refuses the gateway's own certificate), 404, pages with 202 and 502, and no body. `MCInOrder` as in `operations`. |
| `middleware` | Does an answer tell the id of its own request or none, does a line of the log, does an id lead to the lines of one request? | 3 requests, 2 workers, a kill: two requests interleave in one worker while the third reuses an id or runs in the other. |
| `pages` | Does a walk miss only what deletions explain, repeat only what creations explain, show a list that does not change exactly, and end? | Up to 3 entries and 2 more created, any deleted, pages of 1 or 2, offsets from -1 to 1, limits 0 and 3 (not admitted), a failure that is repeated and one that is not: up to four boundaries between pages, and two changes on either side of one. |

Every property has a mutant: a change of the modelled code, as a plausible bug
would make it, under which TLC finds the property violated.

Violations, each of a statement of the repository that the code does not keep:

| Run | Statement | What happens |
|---|---|---|
| `operations_unbounded` | `timeout=0` is an unbounded wait (`lxd_operations.py:81`) | the client's own `LXD_TIMEOUT` ends the long-poll |
| `operations_success` | `?wait=true` blocks until the operation completes (`snapshots.py:85`), and the wait returns only after a terminal state (`lxd_operations.py:76-79`) | a reply to the wait without an operation is taken for success while it runs |
| `devices_lost` | attach preserves existing devices (`storage.py:365`) | a second attach, sent after the 202 of the first, undoes it |
| `user_store_duplicates` | `username` is unique (`models.py:29`) | a worker serves before another has created the index |
| `ws_relay_either_side` | bytes are proxied until either side closes (`instances.py:409-410`) | `gather` waits for the task of the other side |

One more disagreement with the docs holds in *every* behaviour, and so is shown by
a property that passes: `AnswersTellTheirId` of the run `middleware`, whose 500
never carries an id.

The two constraints `MCInOrder` take the place of symmetry, which TLC cannot
combine with liveness: they order what requests ask for and, in `operations`, the
ids that LXD gives out. They cut off whole behaviours that are renamings of others
and no step of a handler.

A remark on `RejectionStartsNothing`: it holds because errors of the *second*
call are not translated. Doing literally what `exceptions.py` says there would
answer 404 for an operation that was started and forgotten; the mutant
`WaitFailsTranslated` shows it.

## 4. Fairness

`Operations`: weak fairness of `Deliver(r) \/ Timeout(r)` for each request: the
event loop runs a coroutine whose await is over, and httpx ends every await
after `LXD_TIMEOUT` seconds without a byte. Nothing is assumed of LXD, of the
network or of clients. `UserStore`: weak fairness of each worker's startup (its
supervisor and its process run) and of each handler. `WsRelay`: weak fairness of the handler and of each of
its two tasks; calls, connects and closes are bounded by timeouts, a send to a
peer that does not answer pings fails, and a task that waits for a frame is not
enabled. `Access`: weak fairness of each handler; the pool's timeout
and `LXD_TIMEOUT` end all its waits. A WebSocket session may last for ever. `Pages`: weak fairness of
the handler (it answers or fails within `LXD_TIMEOUT`) and of the client, which
takes the next step of its walk; creations are bounded, since a client can chase a
list that grows faster than it reads. `Devices` and `Middleware` are checked for
safety only and use `Spec` without fairness. A handler whose client disconnects
runs on.

## 5. Proofs

For every value of the constants that satisfies the named assumptions, the proofs
of a component establish an inductive invariant (`Safety`) and from it the type
invariant and every safety property that the component's run checks.
Two more theorems are refinements: `Operations` implements `OperationPromise` and
`Devices` implements `DeviceEditing`. No module declares a recursive operator.

### Operations

`Operations_proofs` proves for all sets of requests, operation ids and codes that
satisfy `LxdReplyAssumption` and `RequestsAssumption`:

    Safety == Spec => []SafetyInvariant

and from it `TypeCorrect`, `ReferencesAreOwn`, `VerdictsAreTrue`,
`RejectionsAreClean`, `StartsOnce` and `PromiseImplemented`, each naming the property the run `operations` checks.

The properties are not inductive by themselves: that a 4xx is given only if
nothing was started depends on what replies on their way say, on which calls LXD
has still to read, and on who owns the operations. `SafetyInvariant` adds
`CallsAgree` (pending calls agree with `pc`; a pending start has started
nothing), `OwnersAgree` (an operation has an owner from its start; a waiting
coroutine waits for its own), `RepliesAgree` (a reply on its way is true of what
was started, or of the final status if it shows the operation; replies that show
none claim nothing) and `VerdictsNameOperations`. The argument
has two halves that meet in two predicates: `ReplyIsTrue` is what LXD's actions
establish when they send a reply (`RespondSafety`), `OutcomeIsTrue` is what a
handler may assume of the outcome it resumes with (`DeliveredReplyIsTrue`, and
`LostReplyIsTrue` for no reply); `AnswerIsTrue` is what it then establishes for
its answer (`AnswerSafety`). `StatusEndsSafety` and `LxdStartsSafety` show that
later steps of LXD keep old answers true.

The refinement needs a second invariant, `StartsAgree`, which is inductive only
together with the first: whoever was given a reference made a start that LXD has
nothing left to do for, and an answer to a start that is an `LXDOperationError` is
about the request's own operation.

`PromiseImplemented` is `Spec => ImplementsPromise`. The mapping gives each
request the state of its one operation (`jobOf`) and what its answer says of it
(`verdictOf`). LXD's start of an operation is the abstract `Begin`, the end of an
operation is `End`, an answer to an action is `Tell`, and every other step
stutters. `JobsAgree` says that the state a job is mapped to does not depend on
which operation is chosen (there is at most one), `VerdictsAreJustified` that a
verdict was `Justified` by the job; the second follows from the two invariants
in the state *after* an answer, which is where `Tell` needs it. Since `Begin`
requires that no verdict has been given that a new operation would belie, the
step for `LxdStarts` rests on `StartsAgree` and `CallsAgree`: a pending start has
no answer but an unknown one.

`WhatIsToldIsKept` follows from the refinement alone: a verdict once told is never
changed, and after one that says that nothing was started, or how the work ended,
the job stays as it is. The proof uses `PromiseImplemented` and the actions of
`OperationPromise`, and nothing of the gateway.

`LxdReply_proofs` holds what these proofs need of the client: every reply becomes
a well-formed outcome, every error an HTTP status, a lost call a 503 and never a
4xx. Two of its results matter by themselves. `ClientErrorIsAReply`: a 4xx goes
back to an error that LXD sent, or to a page with that very status.
`ErrorsKeepTheirClass`: an error of LXD with a code from 400 to 599 is answered
with an error, and with a 4xx just if LXD's code is one.

### Devices

`Devices_proofs` proves for all requests, pools, volumes, networks and clients
the type invariant, `RefusalsAreTrue`, `UnracedEditsAreExact` and
`EditingImplemented`, that is `Spec => ImplementsEditing`. Its invariant speaks of
one request at a time, since requests meet only in `instance`, which it does not
mention: `CallsAgree` (LXD shows the instance once, before the PATCH; an update
comes after both), `RepliesAgree` (a reply awaited by the read carries the devices
shown, or is an error; an error leaves no update behind) and `BodiesAgree` (from
the PATCH on, its body is the edit of the devices shown). `StepOfOne` reduces each
step to the request that takes it. `BodiesAgree` is what makes a step of LXD that
applies an update the abstract `TakeEffect`; submitting maps to `Ask`, showing the
instance to `Look`, and all other steps stutter.

Two theorems are about clients that wait for the *operation* of an edit, not only
for its answer, before anyone edits the instance again (`Clients = "waiting"`).
`WaitingAgrees` says that all requests but one are then quiet, without a call or an
update at LXD, and that what the one was shown is what the instance has until its
own update is applied. So
`WaitingClientsEditExactly`: an edit that takes effect does what was asked and
nothing else. And `WaitingClientsLoseNothing`: `ExistingDevicesArePreserved` holds,
which the run `devices_lost` refutes for clients that wait for answers only. The
two together say what a client has to do for the docstring to be true.

### UserStore

`UserStore_proofs` proves the type invariant, `NamesAreUnique`, `AdminIsSeeded`
and `RegisterIsTruthful` for any number of workers, migrations, register calls,
names and kills, and for both kinds of database. `SchemaAgrees` says what the
place of a process tells about the schema: whoever is past `create_all` has its
table, and with transactional DDL its index too, while on SQLite there may be a
process between the two. `RowsAgree` says of a register call that it has a row
exactly from its insert on and an answer only at its end. `ProcessStep` and
`RequestsUnchanged` reduce a step to the one process that takes it; rows are
never removed, so a serving worker keeps its admin and a 201 its row
(`RowsStay`). The only place where names could be doubled is an INSERT, which
`InsertKeepsUnique` settles; without the index the property claims nothing,
because there it is false (run `user_store_duplicates`); the step that creates the
index keeps it because CREATE UNIQUE INDEX itself refuses doubled names.

Two more theorems say what that run's state leads to. `DoublesStay`: two rows of
one name stay, and the unique index is never made, since no process removes a row
and `NamesAreUnique` rules the index out. `DoubledAdminLocksOut`: if the name is the
administrator's, a worker that is not past its SELECT never serves again, however
often its supervisor starts it (`LockedOut` is kept by every step). Both are about
SQLite; with transactional DDL their hypotheses are never met.

### WsRelay

`WsRelay_proofs` proves the type invariant, `OrderOfFrames`, `NoFrameIsLost` and
`HandlerReleasesSockets` for any number of frames. `HandlerAgrees` and
`TasksAgree` say which sockets are open and which tasks exist at each place of
the handler. `UpwardAgrees` and `DownwardAgrees` count: frames are numbered, and
those that the receiver has, the one that its task holds and those that still
wait are 1, 2, 3 and so on without a gap, as long as the receiver's socket is
open. The frames that wait from the client include empty ones, which the code
drops; the invariant therefore speaks of the waiting frames element by element
(`WaitAfter`) and not of the sequence without the empty ones: what `SelectSeq`
does to a sequence is an induction, out of this prover's reach.

### Access

`Access_proofs` proves the type invariant, `ActsAreAuthorised`,
`ConnectionsComeBack`, `LogInAgainIsOwn` and `WritesAreAnsweredTruly` for any
requests, users and pool. The invariant is a predicate of one request,
`RequestAgrees`, and the bound `Cardinality(held) <= PoolSize`. `StepOfOne`
reduces a step to the request that takes it; only `EditRow` concerns all of them,
and it is `WitnessAgrees` (the row as it is now has been noted as allowing or
refusing each request in progress) that makes a check authoritative for what
follows it, though the row may have changed again. `HeldBound` is the counting
step of the pool.

`WritesAreAnsweredTruly` has no hypothesis: that a 201 or 202 may be false after a
page or a reply without a body is in the property, through `foreign`. One theorem
has one, because without it it is false: a page that is no LXD envelope becomes
an `LXDError` with the page's own status, and `_lxd_err_to_http` gives that status
to the client, so that something between the gateway and LXD that answers 401 with
a page tells the client to log in again without cause. `LogInAgainIsOwn` assumes
`401 \notin PageCodes`; all other theorems are about any `PageCodes`.

### Middleware

`Middleware_proofs` proves the type invariant and the three other invariants of the
run `middleware`. `ContextsAgree` says that the inner context holds the request's id
from its arrival and the outer one until `dispatch` is left, `LogAgrees` that only
arrived requests have written lines: answers and lines are made from contexts
that do not change afterwards, which is all that `AnswersTellTheirId` and
`LinesCarryTheirId` need to be inductive.

### Pages

`Pages_proofs` proves the type invariant, `DeletionsAloneHide` and
`CreationsAloneRepeat` for every limit, offset and length of the list. Neither
count is inductive at the end of the walk; what is inductive is the count *at
the position `k` that the walk has reached* (`HasCome`): at most `removed` of the
entries before `k` that were there at the beginning have not been shown (`Hidden`), and
the repeats so far together with the entries behind `k` that were already shown (`Again`)
are at most `added`. A deletion moves at most one entry from behind `k` to before
it, a creation at most one from before to behind, and neither changes anything else
of the two sets; a page moves `k` to its end and shows exactly what
lies between (`PageIsCounted`). While a page is on its way, the count is that of
the page as it will be shown, cut from the reply that LXD has already given
(`WalkAgrees` at `"listed"`), so that changes in the meantime are counted too. At
the end there is nothing behind `k` and `Hidden` is all that is missing. The
lemmas at the beginning of the module say what slices, insertions and removals
do to a sequence, and how the cardinality of its items relates to its length.
`NoList` is assumed to be no sequence of numbers, which is what
`isinstance(result, list)` tells apart.

The counts bound what a changing collection may do to a walk; `QuietWalksAreExact`
says what the pages are while it does not change: put together they are what
LXD lists from the offset on, in its order. Its invariant `RestAgrees` keeps the
offset at which the walk began as a witness; `SlicesJoin` is the step, a page and
the next one being one slice.

### Only model-checked

Liveness needs fairness and is out of the prover's reach: `EveryRequestIsAnswered`
(of `Operations` and of `Access`), `EveryWorkerServes`, `RegisterIsAnswered`,
`SessionEndsWhenBothClose`, `NoTaskIsLeftBehind` and `EveryWalkEnds` stay with
TLC. So do the five violations, which are about one behaviour each. Every other
property of a run is a theorem.

## 6. Not modelled, and the plan

Every component with state of its own has its module (the limiter's counters are
slowapi's), and every safety property its proof. What may be added:

1. Progress as safety: for each component, that a handler which has not answered
   waits for something that a timeout ends, the part of its liveness that an
   invariant can say.
2. What `DeviceEditing` alone promises a client, as `WhatIsToldIsKept` does for
   `OperationPromise`.

Disagreements met while modelling that have no run of their own:

* `health_deep`'s docstring (`system.py:50`) says 503 when LXD is down; the code
  answers 200 with `"unhealthy"`. `Access` models the code.
* Exports and logs answer 200 with LXD's error envelope as the body
  (`backups.py:165`, `instances.py:344`), although they catch `LXDError`:
  `raw_response=True` never raises it for a status.
* `system.py` says that all its endpoints require viewer; the health check
  requires nobody. `server_info` is documented as `GET /1.0` and asks for `/`.
* A malformed body that came with HTTP 200 is an `LXDError` with status 200,
  which `_lxd_err_to_http` turns into an *error* answer with status 200.
* The bodies of `HTTPException` and of 429 carry no `request_id`, unlike the shape
  that `main.py:4-5` promises, though their `X-Request-ID` does.
* `detach_volume`'s docstring (`storage.py:412`) says that it removes the device
  of this volume; the key `vol_{name}` (`storage.py:426`) ignores the pool, so that
  it removes the device of another pool's volume of that name. `Devices` models it.
* `list_operations` (`operations.py:82`) makes an empty page of any reply that is
  no list; if LXD groups its operations by status in an object, the page is
  always empty.

Not modelled: settings and field types (no state that changes), CORS headers
(Starlette's), the windows and counts of slowapi (any attempt may be refused), JWT signing,
expiry and password hashing (inputs of `Access`), the choice between the local
socket and mutual TLS (no property depends on it), filters, projects and
recursion of the calls, the container, CI and sample files.

## 7. Running

    tlc -config Operations.cfg MCOperations.tla
    tlapm LxdReply_proofs.tla
    tlapm Operations_proofs.tla
    tlapm Devices_proofs.tla
    tlapm UserStore_proofs.tla
    tlapm WsRelay_proofs.tla
    tlapm Access_proofs.tla
    tlapm Middleware_proofs.tla
    tlapm Pages_proofs.tla
