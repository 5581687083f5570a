# Lakekeeper clients in TLA+

This directory holds a formal model of the clients in this repository: the
Python package `pylakekeeper` (`python/src/pylakekeeper`), its `agents`
subpackage, and the Java clients (`java/core`, `java/spark`). It contains TLA+
modules, configurations with which TLC checks them on small instances, and
proofs that TLAPS checks for every instance. Line numbers refer to the sources
at the commit the model was written for; `PROJECT.json` maps every definition
that models code to its lines.

Run `tlc -config credentials.cfg MCClientCredentials` (and likewise the other
rows of the table of runs) and `tlapm MemoryStoreProofs.tla` to repeat the work.

## 1. The system

The clients are libraries: they run in the threads of whoever calls them, hold
little state, and talk to four kinds of peers: an identity provider (OAuth2), the
Lakekeeper server (REST), object storage, and the user's browser. What is hard in
them is what several threads, or several agents in several processes, do at once,
and what is left behind when one of several steps fails.

| Component | State | Operations | Talks to |
|---|---|---|---|
| `ClientCredentials` (auth.py 68-139) | lock, token, deadline | `auth_header`, `invalidate` | token endpoint; called by the transport from any thread |
| `_RefreshableAuth` (auth.py 163-255) | the same and a refresh token | the same; `_ensure_token` refreshes or logs in | token endpoint; `_acquire` of a flow, with the lock held |
| `DeviceCodeFlow` (auth.py 258-416) | interval, deadline of one login | `_acquire`, `_poll_once` | device and token endpoints, the user |
| `AuthorizationCodeFlow` (auth.py 419-586) | loopback server: code, state, error, deadline | `_acquire`, `wait_for_code`, `do_GET` | browser, token endpoint |
| `StaticToken` | a constant | `auth_header` | - |
| `Transport` (transport.py) | HTTP client, an `Auth` | `request` with one retry after 401, `close` | Lakekeeper server |
| Generic tables (generic_tables.py, client.py, models.py) | none; responses carry credentials with an expiry | create, load, list, drop, rename ... | Lakekeeper server |
| `VendedTable` (agents/_common.py) | cached load response | `resp`, `invalidate`, `ensure` | generic tables; shared by the threads that share a store |
| `MemoryStore` (agents/memory.py) | entries table, recall table | `put`, `get`, `list`, `delete`, `search`, `ensure_tables` | object store, Lance, embedder |
| `SkillStore` (agents/skills.py) | a table of proposals per proposer, approved and rejected tables | `propose`, `approve`, `reject`, `revoke`, `load`, `load_all`, `list...` | object store |
| LangGraph adapter (agents/langgraph.py) | none of its own | `batch`, `abatch` | `MemoryStore`, in worker threads |
| Object stores, Lance, Iceberg (objects.py, lance.py, iceberg.py) | SDK clients; a registry in iceberg.py | adapters | storage SDKs |
| Java caches and flows (java/core auth/) | as in Python, with `ReentrantLock` and volatile fields | as in Python | as in Python; the redirect server runs in a thread of its own |
| Java `HttpTransport`, `GenericTables` | as in Python; a page iterator | as in Python | Lakekeeper server |
| `LakekeeperSpark` (java/spark) | Hadoop configuration and catalogs of the session | read and write of generic tables | Spark, object storage |
| Namespaces, formats, errors | none | pure conversions | - |
| Examples, notebooks, build | - | - | - |

### What makes each component correct

* **Token caches.** One token request at a time; a token that `invalidate`
  discarded is never handed out again; a header never carries a token that was
  dead when it was asked for, although the fast path reads two fields without the
  lock; an error releases the lock. A session keeps its refresh token until a
  refresh fails, and never one the provider has replaced; its calls come back unless
  an interactive login never ends.
* **Logins.** Device polls respect the interval, `slow_down` included; the login
  stops in time and not without a last look. The browser login exchanges only a
  code that came with its own state, does not report a time-out when the
  redirect was served, and ends unless a connection it accepted stays silent.
* **Transport.** The retry carries a newer token than the one refused; nothing is
  carried out twice; every request ends.
* **Memory.** Object and vector agree when nothing else changed the path; one
  vector per path; vectors and pinned model agree; only a delete costs a path its
  vector; failures in between are repaired by the next call that runs through (but a
  delete to which the recall table is hidden leaves the vector, section 6).
* **Skills.** Whichever calls write it, an object is what its key says (those who
  write to the storage directly are not modelled); what is live was
  filed, approved and is on record under its own name, also when a call stops half
  way; what is loaded was live during the load, and `load_all` misses nothing.
* **LangGraph adapter.** Creation times survive updates; a search that lists and
  then reads returns what was there and misses nothing of its namespace.
* **Vended credentials.** All adapters see the same credential; what a call returns
  has its margin left; a withdrawn grant takes effect within a lifetime. Credentials
  of one table are not used for another (Spark; planned).
* **Listing.** Whatever is there all the time is listed once, whichever way the
  namespace is written, and the iteration ends. (A failed request may end it early,
  and so may an empty page in Java, section 6.)
* **Java redirect server** (planned). What it returns belongs to one request.

The hazards behind these, each at its line, are listed in `PROJECT.json`
("hazards") with the properties that cover them.

## 2. Modules

```
TokenSource <------ refined by ------ AuthCache            (lock, fast path, double check, stores)
                                      |        |
                     ClientCredentials         RefreshableAuth     (what the token request is)
                            |                        |
                        Transport          login = DeviceCodeFlow / AuthorizationCodeFlow
                     (401 retry, composed            (one login each, in detail)
                      with the cache)
MemoryStore   (entries, recall table, VendedTable)
LangGraphStore (batches over the two steps of a memory put and delete)
SkillLibrary <----- refined by ------ SkillStore  (queues, approved, rejected)
VendedTable   (one handle, clock, grants) --extends--> LoadResponse (dicts of credentials)
GenericTables (create, drop, list; namespaces)
```

Proof modules `XProofs` extend `X`; `AuthProofs` extends both `RefreshableAuth` and
`Transport` (with `ClientCredentials`), and `TablesProofs` both `GenericTables` and
`VendedTable`. Since a name means one thing in them, one module of each pair gives its
`Init`, `Next`, `Spec`, `TypeOK` and `vars` a prefix (`TransportSpec`, `ListSpec`).
`MCX` modules give TLC instances where a `.cfg` alone cannot (functions, records,
symmetry).

### AuthCache, ClientCredentials, RefreshableAuth, TokenSource

`lock`, `token`, `expiresAt` are `_lock`, `_token`, `_expires_at`
(`NoToken` is None). `pc[t]` says where thread t is in `auth_header` or
`invalidate`. Outside the lock every access to a field is a step of its own: the
two operands of `_valid` (`CheckToken`, `CheckExpiry`), the assertion and the read
of the return statement (`AssertToken`, `ReadToken`). Under the lock, reads are
not split, since nobody writes then, but stores are (`StoreToken`, `StoreExpiry`,
`DropToken`, `DropExpiry`), since the fast path may look in between.
`ClientCredentials` adds the token request, which is granted, fails, or has an
answer that does not parse. `RefreshableAuth` adds the branch between refresh and
login, rotation of refresh tokens (also in an answer that cannot be read), and
revocation. Tokens are numbered as they
are issued, so that "older" and "newer" are comparisons. `issued`, `dies`,
`granted`, `usable` and `revoked` belong to the identity provider; `dropped`,
`call` are history.

`TokenSource` is what the caches promise without fields and locks: an entry,
filled by one request at a time with the newest token, emptied as a whole. The
refinement (`ImplementsTokenSource`) maps the entry to the cached token while it
is valid and no request is under way.

Java's `ClientCredentials` and `RefreshableAuth` follow the same protocol but
differ in errors, clock and in how the header is read, so they are not claimed to
be covered.

### Transport

Extends the cache, and takes the steps of `ClientCredentials` as they are
(`Credentials!Step`), so a request interleaves with other threads inside
`auth_header` and `invalidate`. `stage[t]` is where the thread is in `request`:
first exchange, rejected, dropping the token, second exchange. The server may
refuse any token at any time (`Refuse`), fail after having done the work, or the
exchange may be lost in either direction.

### DeviceCodeFlow and AuthorizationCodeFlow

Each models one login, which is the step `login` of `RefreshableAuth`: there it is
one step that is granted or fails, because the caller holds the lock throughout
and nothing else of the login is visible.

In `DeviceCodeFlow`, `pc` goes from the device request over the prompt to the loop
(test, sleep, poll, answer). Time passes in requests, the prompt and the sleep.
`demanded`, `lastPoll` are what the identity provider sees.

In `AuthorizationCodeFlow`, `backlog` holds the connections waiting at the
loopback server, with the request they carry or `Silent`; `handle_request` takes
one at a time and blocks in it. A request is what `do_GET` looks at: whether it is
for the redirect path, and its `code`, `state` and `error`. PKCE is left out: the
verifier does not leave the call that made it.

### MemoryStore

`entries` is the entries table, `recall`, `pins`, `written`, `rows` are the recall
tables: the current one in the catalog, each one's pinned model, whether its
location holds a Lance dataset, and its rows. A table that `ensure_tables` did not
create may have no pin, and passes for every model (`PinPasses`). `denied` are the
stores whose principal may not read the recall table: the catalog answers them as if
there were none (`Visible`, `NotFound`). `cached[s]` is the load response a
store holds; each use of it (`_recall.resp`) is look, load, store and a second look
without a lock (`Load`, `StoreCached`, `Resp`), so of two callers that share a store one
may work on what the other loaded, or find None. `put` is write, check the pin, open,
create or merge; `delete` is remove, check, open, forget; `ensure` is create,
invalidate, load; each is a step, and each may fail (`Raise`), which also
stands for a process that stops. Stores may be shared by callers (the LangGraph
adapter does so in threads) or not; they differ in their embedder and principal.

Abstractions: whether credentials are near expiry is left open, so a reload may
happen at any use; `merge_insert` and `delete` are Lance commits and happen as a
whole; a missing object is an error of `delete` on Azure and GCS and none on S3,
the former being among the failures; the credentials of a cached response work until
it is reloaded, also after the grant was withdrawn; the entries table is neither
dropped nor hidden; distances and metadata do not occur.

### SkillLibrary and SkillStore

`queues[q]`, `approved` and `rejected` are the objects `<name>/<version>.md` of the
proposal tables and of the two shared ones; `live[n]` is `SKILL.md` of n. A document
is what decides anything about it: the name and proposer in its front matter and its
text. Every object that is put, read or deleted is a step: `approve` is read, record
the version, publish; `load_all` is list, then load one name after the other. Any step
may fail, be refused for want of a grant (`MayDecide`), or be the last of a process
that stops (`Raise`). `Hash` is assumed to be free of collisions. `Queue` maps
principals to tables and need not be injective: `path_safe` flattens ids, and the
instance has two reviewers who share a queue.

Left out: `list_rejected`; names with a slash (which `list` cuts at the first slash,
so that `load_all` fails); descriptions; the credentials of the tables, which are the
matter of `VendedTable`.

`SkillLibrary` is what a governed library promises: documents are filed, recorded as
approved, published if recorded, withdrawn; nothing filed or recorded is lost.

### LangGraphStore

A path is its sequence of segments, an object the envelope with the value and two
times, or `Text` when another user of the store wrote something else. `batch[w]` are
the operations worker w has still to run; `_put` is start (the clock is read), read the
item, write the object, write the vector. Every worker has a wall clock of its own, so
what a put reads there is any time at all. `list(prefix)` of the object store compares
strings, so `Begins` says which segment begins another; the path itself is not put
together. `past`, `alone`, `missed` are history. Within one operation every call of
the MemoryStore is a step; its own steps and failures are in `MemoryStore`. Sorting
of namespaces is left open, filters are the set of values they let through, and
scores are left out.

### LoadResponse and VendedTable

`LoadResponse` has the pure part as operators on dicts. The order in which a dict was
filled decides what is found first, so a dict is the sequence of the assignments to it: a
key has the value assigned last, and the place of the first. The operators are
definitions by least and greatest places rather than folds, which is what they are proved
from:
`_collect_iceberg_props`, `expires_at`, `expires_within`, the translations for Lance
and fsspec and the constructors in objects.py. An expiry that is no number
(`NoNumber`) is taken for none. `VendedTable` is the cache: `resp` reads `_cached` up to
three times, for None (`CheckCached`), for the expiry (`CheckExpiry`, or `CheckRaises`
when it was dropped in between) and to return it, with load and store before the last.
`ensure` finds the table there (409), readable or not, or creates it. `readable` is
the grant, `dies` the true end of what was vended, `since` when the call began.

### GenericTables

An iterator is `first`, `current`, `token` of `PageIterator`, which are also the locals
of the Python generator; the two differ in what an empty page, an empty token
(`HasMore`) and an error do (`Lang`), and Java's drop cannot write a name with a space
(`Spaced`). `Ends` is how the server may end a listing: with no token or an empty one.
`loop[l]` is where the loop over it is. A page is in the server's order, so it is the
set of its tables, of which `Take` returns the least. `home` is what the server holds
(`Nowhere` when there is no such table), `meant` what the callers had in mind: the same
unless a namespace is encoded wrongly; `Arrives` is where each spelling ends up.
Namespaces are text or sequences of levels, text is a sequence of characters; quoting
marks characters as escaped and the server takes paths apart before it unescapes them.
The server's order, its tokens and how it cuts pages are external and as free as the
protocol lets them be.

## 3. Runs

Passing runs:

| Run | Instance | States | Shows |
|---|---|---|---|
| `credentials` | 2 threads, 2 calls each, 3 tokens of lifetimes 1 and 3, margin 1, clock to 3 | 1.4 M | single flight, no dropped and no dead token, the inductive invariant, refinement of `TokenSource` |
| `refresh` | 2 threads, 2 calls each, 2 access and 2 refresh tokens, clock to 1 | 0.7 M | no rotated-out refresh token is kept or sent, the session is given up only after a failed refresh, refinement, only a login without end keeps calls from ending |
| `transport` | 2 threads, 1 request each, 3 tokens | 0.3 M | the retry carries a newer token, at most one execution, the inductive invariant, every request ends |
| `device` | intervals 1, 2, lifetimes 0, 4, 7, time-out 6, delays to 2, clock to 20 | 90 k | polling pace, end in time, last poll, termination |
| `authcode` | 5 kinds of requests, 3 connections, time-out 2, slice 1 | 59 k | code and state come from one request of this login, a served redirect decides, only a silent connection keeps it from ending |
| `memory` | 2 callers, 3 stores (two models, none), 2 paths, 2 texts, 3 calls, 1 recall table, pinned or not, 1 principal that may lose its right | 1.5 M | the memory properties of section 1 |
| `skills` | an agent, two reviewers with one queue, 2 names, 1 text, a body that names another skill, 5 calls | 1.9 M | `SkillInv`, refinement of `SkillLibrary`, fresh and complete loads |
| `langgraph` | 2 workers, 3 paths (one segment begins another), 2 values, 3 batches of up to 2 operations, clocks saying 0 to 2 | 1.5 M | creation times, fresh and complete searches |
| `vended` | 2 threads, 3 calls, 4 shapes of credentials, lifetimes 2 and 5, margin 3, delay 1, clock to 6 | 0.6 M | adapters agree, margin left, revocation |
| `listing` | a Python and a Java loop, 3 tables, 3 spellings of 2 namespaces, pages of 2, the last with an empty token or none (Java: none), 1 failing request, 1 name with a space | 0.2 M | what stays is listed once, termination |

Runs that find the code and what is said of it at odds (section 6): `cc_header`,
`memory_pin`.

The inductive invariants `ListInv` and `VendedInv` were checked in `listing` and
`vended` before they were proved; `INVARIANT ListInv` in the `.cfg` repeats that (20
and 30 seconds). The runs keep the properties that they imply.

Every property of a passing run has a mutant in `PROJECT.json`: a plausible bug of
the code (a lock not taken, a rotated token not stored, `mode="overwrite"`) under
which the property fails in that very run.

### Why the bounds are enough

* *Threads and callers*: two. The hazards are between a call and one other; a
  third thread only queues for the lock. Two calls per thread let a call meet what
  the other thread's earlier call left.
* *Tokens*: three let one thread's token be dropped, fetched anew and dropped again
  during another's call (this is what the retry is about). *Lifetimes* are one that
  is below the margin from the start and one that is not. The clock reaches the
  point at which a token has come near its end and is dead.
* *Refresh*: two refresh tokens, so one rotation or one new login; a third repeats.
  The clock stays at 1 since deadlines are the matter of `credentials`.
* *Device*: the lifetimes are none at all, one shorter and one longer than
  `poll_timeout`; intervals do and do not divide them; 20 is past every sleep and
  request after the last deadline, so the clock's bound ends no login.
* *Browser*: three connections let a foreign redirect, an incomplete one and the
  own one come in each order; the clock goes past the deadline by a slice.
* *Memory*: three calls are a put, a competing or failed call, and one that repeats
  it; two paths show what belongs to the path and what does not. With one recall
  table it may be dropped but not built anew; two tables are the matter of
  `memory_pin`. The right to read it comes and goes for one store with an embedder,
  while the other keeps it. The theorems remove the bounds except that of the tables.
* *Skills*: five calls are two proposals, two decisions and a load or a revocation,
  by three callers; two names let a body of one name another.
* *LangGraph*: two batches can overlap in one path, and the third finds what they
  left. Three paths have one in the namespace, one in a namespace that begins with
  it, and one of a single segment, which is no item. Three times let a clock go
  forward and back.
* *Vended*: lifetimes below and above the margin; the clock goes past the end of
  both, and past the delay after a revocation.
* *Listing*: three tables in pages of two make full, short and empty pages, with a
  table created or dropped before and behind the place reached. No deadlock is
  looked for: when both loops are over and all tables were created and dropped,
  nothing is left to do. `TypeOK` of `ClientCredentials` is proved and not run.

The clock stops at `MaxTime`, identity provider and callers at their bounds; calls
still end then, because a request can always fail.

### Symmetry

`credentials`, `memory`, `langgraph` and `vended` permute threads, callers, workers,
paths and texts, `skills` the two reviewers: no formula in them distinguishes these,
and they check no liveness property.

### Fairness

Weak fairness is assumed of the steps of each thread within a call
(`AuthStep`, `RequestStep`, `Fetch`, `Acquire`, `Wait`): a thread that can run will
run, and every HTTP request comes to an end because the HTTP clients are given
time-outs (`timeout=` in auth.py and transport.py). Time goes on (`Tick`) in the
logins. Nobody has to begin a call, approve a login or revoke a token; the lock is
not fair, so a thread could lose it for ever to others that keep calling: calls are
bounded, and with finitely many competing calls everyone gets it.
Nothing is assumed of the user or of those who connect to the loopback server, for
the code guarantees nothing of them: an interactive login may never end, and a
connection that was accepted may stay silent for ever. So it is not claimed that the
calls of a session, or a browser login, end. `CallsEnd` says that only a login without
end keeps a call from coming back, and `LoginEndsUnlessHeld` that only a silent
connection keeps the browser login from ending (which it may do past the deadline, section 6).
In `listing` a loop goes on asking for elements (`Advance`), also after a request that
failed, of which there are finitely many.
`memory`, `skills`, `langgraph` and `vended` have no liveness property: nothing there
waits.

## 4. Proofs

TLAPS proves, for any number of threads, callers, tokens, requests, stores, tables
and any values of the other constants within the assumptions:

| Module | About | Theorems |
|---|---|---|
| `AuthCacheProofs` | the shared cache | one lemma per action, used by `AuthProofs` |
| `AuthProofs` | `ClientCredentials` | types, the inductive invariant `CacheInv`, `SingleFlight`, `NoDroppedToken`, `NoExpiredToken`, refinement of `TokenSource` |
| | `RefreshableAuth` | types, `NeverRotatedOut`, `SessionKept`, `SingleFlight`, `NoDroppedToken`, `NoExpiredToken`, refinement of `TokenSource` |
| | `Transport` | types, the inductive invariant `TransportInv`, `RetryCarriesNewerToken`, `ExecutedAtMostOnce`, steps that are steps of `ClientCredentials`, and so refinement of `TokenSource` |
| `DeviceCodeFlowProofs` | `DeviceCodeFlow` | types, `NeverTooFast`, `GivesUpInTime`, `AskedAtTheEnd` |
| `AuthorizationCodeFlowProofs` | `AuthorizationCodeFlow` | types, `CodeCameWithState`, `RedirectDecides` |
| `MemoryStoreProofs` | `MemoryStore` | types, `OneRowPerPath`, `NoVectorLost`; `ModelsAgree`, `PutIsFound` and `DeleteLeavesNothing` for a recall table that is created once |
| `SkillStoreProofs` | `SkillStore` | `SkillInv` (types, versions, the record), refinement of `SkillLibrary`, `LoadsAreFresh` |
| `LangGraphStoreProofs` | `LangGraphStore` | `StoreInv`, `PutKeepsCreated`, `SearchesAreFresh` |
| `TablesProofs` | `VendedTable` | `VendedInv`, `FreshEnough`, `RevocationBites`, `ShapesAgree` |
| | `GenericTables` | `ListInv`, `ListsWhatStayed` |

*Assumptions.* Constants have their types. The one that matters is
`DelayAssumption`: an answer is stored within `MaxDelay` of the token's issue, and
`MaxDelay <= Margin`. The deadline counts from when the answer is processed
(auth.py:139), so the cache believes in a token for that delay too long; the margin
(60 s, against a request time-out of 30 s by default) makes up for it. Whoever sets
`refresh_margin` below the time-out loses `NoExpiredToken`.
`MaxTables = 1` is assumed in three theorems of `MemoryStoreProofs` and stated there:
`memory_pin` shows that `ModelsAgree` does not hold without it; nor do `PutIsFound` and
`DeleteLeavesNothing`, which speak of the current table, while a call that works
through a stale response changes the one that was dropped.
`ExpiryAssumption` (VendedTable.tla) is about the server: credentials come with their
end, under one or more of the keys that say so, and under no other, as models.py:94
states; no override of the client sets such a key.
`EndsAssumption` (GenericTables.tla) keeps an empty page token from Java loops, which
take it for one more page (section 6).
One fact about data is a hypothesis of the theorems about listing, because it is about
folds over texts, of which the prover knows nothing. `NamesArrive`: every spelling of a
namespace that is used reaches the server as the levels it means. TLC shows it of the
constants of its run: `ListsWhatStayed` says `home = meant`, and a table is created under
every spelling; the mutant of that property breaks it.

*Arguments.*

* **CacheInv.** `SingleFlight` follows from who holds the lock (`LockInv`).
  `NoDroppedToken` and `NoExpiredToken` are not inductive: a thread may have passed
  the check long before it reads. `PassedInv` says that whatever is stored until
  then may answer its call: `TokenInv` bounds how late a cached deadline is and says
  the cached token was not dropped; `ReplyInv` says that an answer under way is the
  newest token, newer than every call that waits; `FetchInv` says that during a
  request the old deadline is past, so the new token is never judged by an old
  deadline that still looks good between the two stores. `AuthCacheProofs` has one
  lemma per action; the two modules that extend the cache reuse them.
* **RefreshableAuth** adds that the refresh token held is the newest, or its
  successor is with the thread that has the lock.
* **SessionKept** needs only the types: of the two steps that write the refresh token,
  storing an answer keeps the old one when there is no new one in it, and the failed
  refresh goes on to the login.
* **TransportInv.** Every step of a request is a call, a step or a stutter of
  `ClientCredentials` (`TransportRunsCredentials`), so `CacheInv` holds under it. The
  newest token issued only grows, and a refused token is dropped before the retry asks
  for its header; `NoDroppedToken` then gives that the retry carries a newer one. A
  request that was refused was not executed, so two exchanges execute it once at most.
* **PollInv** relates the interval of the client to what the provider demanded,
  and each state of the loop to when it began.
* **LoginInv** says the three fields of the server come from one request, and that
  they are set exactly when a decisive request was served.
* **MemoryStore.** `CallInv` ties a caller's place to its call and the table in its
  hand. `AloneInv` carries the solitude of a call: two changes of a path that overlap
  are not alone, so a put that is alone finds the object as it wrote it. `DatasetInv`
  (no dataset, no rows) makes creating and forgetting exact. `PinInv` carries the
  pin from the check to the merge.
* **SkillStore.** `SkillInv` is inductive as it stands. Putting a document under its
  own hash only adds it (`WriteAdds`, from `HashAssumption`: no collisions), so
  tables only grow and what a caller holds stays where it read it: approve records
  it, and only then makes it live. `LoadInv` is what a load knows half way: all that
  is live has been seen, and what stayed live is loaded or still to be loaded.
* **LangGraphStore.** `StoreInv` says of an undisturbed put what it knows of its item
  at each step, and of a search what it has seen, found and has still to look at. The
  string comparison of the object store's `list` finds at least what is under the
  prefix (`UnderIsListed`), so nothing of the namespace is missed, and what is found
  is read again before it is returned.
* **VendedInv.** There is no lock, so what a call returns need not be what it checked. A
  call past its checks finds what it checked, what somebody has stored since (issued at
  most `MaxDelay` before the call began, since no call takes longer), or nothing. What
  is cached was issued while the table could be read, which bounds its use after a
  revocation.
* **ShapesAgree.** Whatever is cached or under way is the answer to some load
  (`Genuine`). In a dict with the key there is a first and a last place of it
  (`FirstAndLast`: `<` on the naturals is well-founded), so each of the translations has
  a value to take. All of them take the same `s3.access-key-id`; overrides are assigned
  last and nothing else sets `s3.endpoint` after them (`LastAssigned`); and whichever of
  its keys `expires_at` looks at first, what it finds was filled in by the server from
  one end of life (`ExpiryIsRead`), which `FreshEnough` needs as well.
* **ListInv.** `Reached` is the place in the server's order up to which pages were
  fetched. What stayed up to there is listed or on the page at hand, what was taken is
  off the page, and the next page begins where the last one ended, whatever was created
  or dropped before it or behind it.

*Only model-checked*: liveness (`CallsEnd`, `RequestsEnd`, `LoginEnds`,
`LoginEndsUnlessHeld`, `ListEnds`), which is
beyond the prover, and `NamesArrive`: parsing a namespace is a fold over its characters
(induction over data).

One convention helps TLC: record fields are listed in the order in which the
modules first mention them.

## 5. What is modelled, and what is not

Modelled whole: `ClientCredentials`, `_RefreshableAuth`, both login flows,
`Transport`, `MemoryStore`, `SkillStore`, the LangGraph adapter, `VendedTable`. In part:
the generic tables API (paging and namespaces of both clients; the fields of a create
are left out), the object stores and the translation of credentials (their calls are
single steps of the stores above them). Left for later, in this order:

1. **JavaRedirectServer** - the handler (AuthorizationCodeFlow.java 203-216) in the
   server's thread and `waitForCode` (218-237) in the caller's; the fields are
   volatile, and written and read one by one. Property: code and state come from one
   request.
2. **Java caches and transport** - as instances of what is shared with Python, with
   `"Bearer " + token`, wrapped errors and `nanoTime` arithmetic of fixed width.
3. **SparkCredentials** - what vended credentials do in one Hadoop configuration.
4. **The registry of iceberg.py** - which client's auth a catalog gets.

What a run checks and is no liveness property is proved. Next to prove: that
`DeviceCodeFlow` and `AuthorizationCodeFlow` implement the one step `login` that
`RefreshableAuth` takes for them.

Not modelled at all: `StaticToken` (a constant); building paths and JSON; storage
SDKs, Lance, Iceberg and Spark themselves; examples, notebooks and build files.

## 6. Where code and documentation part

Each is quoted in `PROJECT.json` ("findings").

* `auth_header` reads the token twice after leaving the lock (auth.py:110): an
  `invalidate` in between gives an `AssertionError` or `"Bearer None"` (`cc_header`).
* The pin is checked on one response and the dataset opened through another: vectors
  of two models can meet when the table is rebuilt in between (`memory_pin`). For the
  same reason a put or a delete through a stale response works on the table that was
  dropped, and misses the new one (`memory_pin` with `PutIsFound`, and with four calls
  `DeleteLeavesNothing`).

The others have no run; each can be reproduced by checking the formula given under
the constants of the run named.

* A refresh that fails for any reason, a network error too, throws the session away
  and asks the user to log in, against auth.py:170 (`refresh`: a step to `login` only
  when `refreshToken` is not in `usable`).
* Errors of the HTTP client and the JSON parser pass through, against errors.py:3
  (`transport`: the values of `outcome`).
* A silent connection holds the browser login past its deadline, against
  auth.py:464 (`authcode`: `<>(pc = "done")`, the first disjunct of `LoginEndsUnlessHeld`).
* `put(index=False)` leaves the vector of an earlier put, so the entry stays
  searchable by its old text, against memory.py:133; a delete through a store
  without embedder leaves the vector (memory.py:151); `get` of a missing entry raises
  the SDK's error (memory.py:143); authorization is checked per credential lifetime and
  not per call (memory.py:70).
* A principal that may not read the recall table is answered 404: its searches come
  back empty, against memory.py:161-163, and its deletes report success with the vector
  left (memory.py:168 and 301; `memory`: `DeleteLeavesNothing` without its exception).
* A search without a query lists every path that begins with the text of the prefix:
  items of `user-10` for `user-1` (langgraph.py:181; `langgraph`: what `fetch` returns is
  not always in the namespace). A put whose read fails resets `created_at`, and of two
  concurrent puts the later may carry the earlier time (langgraph.py:153-157).
* A body with a front matter of its own decides who is named as proposer
  (skills.py:138), and `load` calls every error `SkillNotFound` (skills.py:258).
* An override of `s3.region` does not reach Lance and fsspec when the server also
  vends `client.region` (lance.py:30; `vended` with such an override).
* `VendedTable.resp` may return None (\_common.py:78) or raise an `AttributeError` (line
  74, `CheckRaises`), and `objects()` of an S3 table
  without credentials raises nothing (models.py:151).
* A Java loop over a listing ends at an empty page that has a token, and an iterator
  whose first request failed has nothing more (GenericTables.java:145-160): the two
  cases that `ListsWhatStayed` excepts (`cut`, `broken`).
* An empty string for a page token ends a Python loop, and makes a Java one ask with an
  empty token (GenericTables.java:148, 163; what `EndsAssumption` leaves out).
* The Java client cannot load or drop a table with a space in its name: `URLEncoder`
  writes a plus sign for it (GenericTables.java:113; the guard of `Drop`).
