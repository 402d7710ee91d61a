# Formal models of the hazardous-waste transfer compliance platform

The platform is a Go backend (gin, gorm, PostgreSQL, Redis) under
`src/backend` and an Angular workbench under `src/frontend`. Operators keep
permits of waste generators, licences of carriers, transfer manifests and
compliance checks; reviewers decide; administrators soft-delete; every write
leaves an audit entry. This directory models its stateful parts in TLA+, checks
them with TLC on small instances and proves the central properties with TLAPS
for every instance.

## 1. Inventory

| Part | State it keeps | Operations | What is hard about it | What makes it correct |
|---|---|---|---|---|
| Domain and status graphs (`constants/status.go`, `model/`) | none | `CanTransition` | four graphs, copied in the frontend | statuses move along edges only |
| Audited repository (`repository/base.go`) | one table per aggregate, the audit log | `Get`, `FindByCode`, `List`, `CreateAudited`, `UpdateAudited`, `DeleteAudited` | conditional writes, soft deletes, unique codes that cover deleted rows | row and audit entry together; the log replays to the table |
| Generator and carrier services | locals of requests | `Create`, `Update`, `Transition`, `Delete` | read, decide, write are separate database calls; the clock moves | a review that commits is stored with a date that was unexpired |
| Manifest service | locals of requests | the same, re-verifying both parties on submission and dispatch | two reads of other rows before the transaction | no manifest beyond draft with parties nobody approved |
| Check service | locals of requests | the same, reading the linked manifest | the manifest changes between read and decision | a pass is about a submitted manifest |
| Handlers and router (`handler/`, `router/`) | none | binding, roles, replies | - | - |
| Startup (`cmd/server`, `database/`) | tables, seed rows, connection attempts | `Open`, `migrate`, `Seed` | several processes on one database, outages and crashes at any stage, soft-deleted seeds | only a fully seeded process serves; no process that starts brings deleted rows back; every process serves in the end |
| Rate limiter (`middleware/ratelimit.go`) | counters in Redis, a map per process | `increment`, `incrementLocal`, `cleanupLocal` | Redis comes and goes, replies are lost, minutes roll over | no counter admits more than the limit; entries of earlier minutes are bounded (those of the current one are not) |
| Workbench page (`entity-page.component.ts`, `stores/factory.ts`, `hooks/use-pagination.ts`, `api/client.ts`, `types/status.ts`) | store, pagination, open dialog, requests under way | load, page, create, transition | every `await` lets the user and other answers in | the page comes to rest; a confirmed change is the one the user saw |
| Authentication and roles (`middleware/auth.go`, `service/security.go`, `router.go`, the `Register` functions) | none, tokens are stateless | `Login`, `Authenticate`, `RequireMinimumRole`, `Session` | the roles are written down twice, in the pages and at the routes | what a page offers is allowed |
| Browser session (`hooks/use-auth.ts`, `api/client.ts`, `router/guards.ts`, `app.component.ts`) | `localStorage`, shared by the tabs; the session signal of each tab | login, restore, logout, 401 | `restore` joins what it read before an `await` with what it got after it; the stored session and the signals are cleared apart | no session mixes two users; what stays stored is shown |
| Audit queries and overview (`repository/security.go`, `handler/system.go`) | none | `EntityHistory`, `ListAudits`, `AuditSummary`, `Overview` | entries are dated before their transaction and sorted by date; sums are several queries | a history tells the writes in their order |
| Configuration, request ids, rendering, nginx, containers | none | - | - | no state, not modelled |

How they interact. The browser calls the handlers over HTTP; a call passes the
limiter and the authentication and becomes a request of one service. The
services share the database and nothing else: no queue, no background job, no
cache. Redis is used by the limiter only. Processes share the database and
Redis. `PROJECT.json` lists the hazards of this design, each at its line.

## 2. Modules

    ComplianceDomain          aggregates, graphs, rows
      RecordLifecycle         abstract specification of every record
      AuditedStore            tables and audit log
        ServiceRequests       a request in flight, its reads and its commit
          LicenceServices     generators and carriers
            ManifestService
              CheckService
                TransferCompliance     the composition, its properties
                  DispatchWitness      + what was acceptable during a request
                    AuditHistory       + the dates of the audit entries
                    MCTransferCompliance, MCAuditHistory
                  TransferCompliance_proofs
                    ComplianceRules_proofs, DispatchWitness_proofs
                      AuditHistory_proofs
      Workbench                one page, on RecordLifecycle
        MCWorkbench, Workbench_proofs
    Session -> MCSession, Session_proofs
    Startup -> MCStartup, Startup_proofs
    RateLimiter -> MCRateLimiter, RateLimiter_proofs

**ComplianceDomain.** A record is named by its code. The unique index on `code`
also covers soft-deleted rows, so a code names one row for ever and stands for
the numeric id. A row is its status, its version, whether it is deleted and the
columns other requests decide on: the expiry date of a permit or licence, the
two parties of a manifest, the manifest of a check. Everything else a row
carries is validated on input and never read again.

**AuditedStore.** `CreateAudited`, `UpdateAudited` and `DeleteAudited` are one
transaction each and one step here; if any part fails nothing is stored.
`UpdateAudited` compares the version *the client sent* and writes every column,
the status too; `DeleteAudited` compares nothing but the id. That is what
`base.go` does, and it is where most hazards begin.

**ServiceRequests.** All sixteen service operations have one shape: `Get`, guards
on what was read, perhaps `FindByCode` of linked rows, an audited write. Each
database call is a step, so anything may commit between two. `req[q]` holds what
the goroutine holds in its locals. A request is refused or abandoned by `Fail`
at any point (validation, conflict, deleted row, database error, client gone,
process stopped): nothing was stored before the commit, so a crash of the
backend is the same step. `Get`, the guards and the choice of the input are one
step because the first two touch no other state. The last `Get` of an operation
only fills the reply and is left out.

**LicenceServices, ManifestService, CheckService** add the operations with their
guards, and the reads of linked rows as steps of their own, in the order of the
code (generator before carrier). `Create` and `Update` ask that linked rows exist,
`Transition` to `submitted` or `in_transit` that they are eligible, `pass` that
the manifest is under way or received.

**TransferCompliance** composes them with a clock and states the properties.
`RecordLifecycle` is the abstract specification: no requests, no held rows, each
step creates, edits, moves or removes one record. `ImplementsLifecycle` is
`Lifecycle!Spec` with `tbl` mapped to `tbl`.

**DispatchWitness** adds `witnessed`, which notes for each request the records
acceptable to it at some instant since it began, and restricts nothing. It says
what re-verification outside the transaction still guarantees.

**AuditHistory** adds `created`, the dates of the entries, and `decided`, the time
at which each request came to its write. `newAuditLog` is evaluated after the last
read and before the transaction, so the date is any instant between `decided` and
the commit. All dates are from one clock; processes with clocks apart are not
modelled.

**Startup.** Startup provides seventeen stages in order: six tables, each followed
by its indexes, the rows of the users, the rows of the four aggregates
(`MCStartup` numbers them). A stage is a look (`HasTable`, `HasIndex`, `Count`)
and, if something is missing, a creation; the two are separate steps and other
processes come between. A table and its indexes are separate statements and
separate stages, so a crash may leave a table without them. The indexes of one
table are one stage: a crash among them leaves it to be finished by the next
start, which creates the missing ones. `IndexOf` names the unique index that
keeps the codes of seed rows (`model/base.go:13`, `model/security.go:7`); without it
nothing would refuse them (`Refused`). Where the driver says `CREATE INDEX IF NOT
EXISTS` a process that lost the race goes on (`Tolerate`), where it does not it
exits (`Collide`). `made` is what was once stored, `live` what has a row that is not
soft-deleted. Faults are crashes and outages of the database or Redis.

**RateLimiter.** The Redis counter of a key and minute is named on arrival and
incremented later; the local map is read with a clock read anew under its mutex.
Redis may count a call and lose the answer, in which case it is counted again
locally. `admitted` is a history variable.

**Workbench.** One page, its store and its requests. `list` is the state of the
store, `page` the pagination, `dialog` the open dialog, `call` the requests from
the click to the last answer, including the reload after a write. The backend is
`Backend == INSTANCE RecordLifecycle WITH tbl <- rows, Seeds <- Seeds`: one step
per write, which `ImplementsLifecycle` justifies. Other users take any of its
steps; an answer of a list holds any part of the records that exist, as other
records and the search may push one off the page.

**Session.** The tabs of one browser. `storage` is the session in `localStorage`,
`session` the signal of each tab, `auth` the restore or login under way (which
hides the pages), `data` a request of the pages. A session is a token and the
name it is shown under; the name stands for username, display name and role,
which always come in one answer. `Claims` is the account signed into a token.
What a tab offers goes by its signal (`HasMinimumRole`, `PageMinimum`), what it
sends by the storage, as in `request()`. The answers are those of
`Authenticate` (401) and `RequireMinimumRole` (403, `RouteMinimum`); a rate-limited
or broken call fails. A 401, that of a wrong password included, clears the
storage and not the signal; `restore` takes any failure for a logout.

## 3. Runs

| Run | Instance | Distinct states |
|---|---|---|
| `licences` | one generator, one carrier, two dates, two requests, versions to 2 and 3, dated entries | 387 000 |
| `manifests` | one manifest to version 4, two carriers, one of which is reviewed, clock to 1, two requests | 354 000 |
| `checks` | one check to version 4, its manifest to 3, a second manifest, two requests | 228 000 |
| `rolling_start` | two processes, seventeen stages, three faults, two tables that can be emptied | 285 000 |
| `rate_limiter` | two processes, two keys, two calls at a time, four in all, three minutes, limit 1, capacity 1 | 243 000 |
| `workbench` | the page of one manifest to version 3, two carriers to re-point it to, two overlapping requests, three pages | 1 445 000 |
| `session` | two tabs, an operator and a reviewer, three tokens | 368 000 |

Why these bounds are enough to be of interest: a race needs two requests, one
that holds a row and one that changes it; versions to 4 let a record be
created, edited, submitted and dispatched; two carriers let a manifest be
re-pointed while one is reviewed; clock to 1 lets every date of value 1 expire
while a request is under way. Records that a run does not change have the bound
0. Three minutes let a counter expire, four calls let a counter pass its limit
in one minute and be looked at in the next. Two tabs and two accounts let one tab
log out and another log in as somebody else during a restore; the second token of
the operator lets a 401 for the first arrive late. Symmetry is over requests,
tabs, tokens of one account (and processes, keys and calls of the limiter), which
no property names.

`CHECK_DEADLOCK FALSE` everywhere: a bounded instance ends when its versions,
faults or arrivals are used up, and the real system may also rest for ever (no
user acts, all processes serve).

What the passing runs show:

* `ImplementsLifecycle`: with clients that send versions they have loaded, the
  version comparison alone makes up for guards evaluated long before the write.
* `RequestsCurrent`: why. A held row is an older version of the stored row or
  equal to it, so a write that passes the comparison was decided on what it
  replaces.
* `TrailReplays`: the log accounts for every version and deletion, and its
  entries chain. The before-state of a deletion is left out of the chain: it
  comes from an earlier read and no version is compared.
* `TrailLegal`: read on its own the log of a record shows no step against the
  rules. Edits stand where the record was editable, transitions follow the graph,
  nothing stands after a deletion, and a deletion names an editable state the
  record was once in, also when a decision came between its read and its write.
* `DecidedOnce`: a submission, dispatch, receipt or decision that is sent again,
  because its reply was lost or by a second user, is stored once.
* `HistoryInOrder`: sorted by `created_at` the entries of a record stand in the
  order of its writes, although each is dated before its transaction: a request
  that another one overtakes fails the version comparison. Deletions compare
  nothing and may be dated before a write they follow. `DeletionsDated`: still, a
  deletion is dated no earlier than an entry that reached the state it names.
* `PartiesOnceApproved`, `PassedOnSubmitted`: rules across records.
* `DecisionsWitnessed`, `ReviewsWitnessed`: what is decided on other rows or on
  the clock held at an instant of the request, if not at its commit. A manifest
  may be rejected between the read of a check and its pass, a party suspended
  between its read and the dispatch; these two properties say how far it goes.
  A review is stored with the very date that was compared: `witnessed` notes each
  permit and licence with the date it has, so a lapsed date that an edit puts in
  meanwhile cannot be approved by a review of the date before.
* `ServesSeeded`, `SeededInOrder`, `NoResurrection`, `Recovers`: startup. The
  second says that at every instant, whatever processes crash or overtake each
  other, the tables and seed rows stored so far are those of the first stages: no
  manifest is seeded before the permits and licences it names, and no row before
  the unique index on its code. Hence the third: a process that comes up while
  another one serves, and finds a table emptied, tries to seed it again and is
  refused. Only a step of a serving process, which leaves every process where it
  is, brings rows back.
* `LimitPerCounter`, `StaleEntriesBounded`: so a key gets at most the limit once
  per process and once from Redis in a minute (`KeyLimited` in section 4).
* `RestsIdle`, `SnapshotsTrue`, `TransitionAsSeen`: the page.
* `SessionsGenuine`: no restore joins the token of one user with the name and role
  of another. `StoredIsShown`: no logout, failed restore or 401 leaves a session
  stored that no tab shows. `OfferedIsAllowed`: pages and routes agree on the
  roles; a 403 comes only when another tab had logged in. The last is as far as
  the code goes: two tabs may show the buttons of one user and send the token of
  another.

What the violation runs show, each a disagreement between the code and a
statement of the repository:

* `delete_race`: a delete that looked at a draft commits after the submission:
  a submitted manifest is deleted (README.md:44). For checks the same. Its audit
  entry says the manifest was a draft.
* `pipelined_edit`: the optimistic lock compares the client's version. A client
  that sends an edit with the *next* version, read while the manifest was a
  draft, written after its submission committed, puts it back to draft
  (README.md:43). `Lookahead = 1` in this run, 0 elsewhere.
* `crash_loop`: seeding counts live rows, the unique index covers deleted ones.
  Soft-delete the last row of a table and the backend never starts again.
* `offered_transition`: `TRANSITIONS` of the frontend has two edges the backend
  refuses, pending to expired for carriers (the one the run shows) and pending
  to escalated for checks.
* `pager_after_write`: after a write the store loads page 1 while the pager
  stays where it was.

Not counted as a violation, but in the models: an operator may edit the licence
of a verified carrier, which stays verified without a review
(`carrier_profile.go:64`).

### Fairness

The core, the limiter, the page and the session have none: nothing runs in the background, a
request may fail at any point, a user may leave; all their properties are safety
properties. `Startup` assumes that a process runs (weak fairness of its own
steps, launching included: `restart: unless-stopped`, docker-compose.yml:63) and
that an outage ends (lines 8 and 26). Nobody has to delete or create rows, and
crashes and outages are limited in number by `FaultCap`, without which no process
would have to serve for good. `Recovers` is conditional: if in the end no seeded
table stays empty, every process ends up serving. `crash_loop` shows that the
condition is needed.

## 4. Proofs

For all records, requests, seeds, bounds and clocks. Properties that no run
checks are defined next to their theorem; most follow from one that a run does.

| Theorem | States | Needs |
|---|---|---|
| `TypeCorrect` | `TypeOK` | - |
| `RequestsStayCurrent` | `RequestsCurrent` | - |
| `Refinement` | `Spec => ImplementsLifecycle` | `Lookahead = 0` |
| `AuditAccounts` | `LogAccounts`: row and audit entry appear together, the log ends where the row stands | - |
| `AuditComplete` | `TrailReplays` | `Lookahead = 0` |
| `TrailIsLegal` | `TrailLegal` | `Lookahead = 0` |
| `ShipmentsComplete` | `NoStepSkipped`: right before a dispatch stands the submission, right before a receipt the dispatch | `Lookahead = 0` |
| `DecisionsAreFinal` | `FinalStays`: nothing but a deletion follows a final state | `Lookahead = 0` |
| `DecidesOnce` | `DecidedOnce` | `Lookahead = 0` |
| `RulesHold`, `PassesAreOnSubmitted` | `PartiesOnceApproved`, `PassedOnSubmitted` | `Lookahead = 0` |
| `DecisionsHold`, `ReviewsHold` | `DecisionsWitnessed`, `ReviewsWitnessed` | - |
| `WitnessObserves`, `HistoryObserves` | `WitnessSpec => Spec`, `HistorySpec => Spec`: the history variables add no behaviour | - |
| `HistoryOrdered`, `DeletionsComeAfter` | `HistoryInOrder`, `DeletionsDated` | `Lookahead = 0` |
| `DatesExist` | there is always an instant at which an entry can be dated: the dates hold up no commit | `Lookahead = 0` |
| `Seeded`, `StagesInOrder`, `DeletedSeedsStay` | `ServesSeeded`, `SeededInOrder`, `NoResurrection` | - |
| `Limited`, `MapsCleaned` | `LimitPerCounter`, `StaleEntriesBounded` | - |
| `KeyLimited` | a key is granted at most (processes + 1) * `Limit` calls in a minute | finitely many processes |
| `Rests`, `SnapshotsHold`, `MovesAsSeen` | `RestsIdle`, `SnapshotsTrue`, `TransitionAsSeen` | - |
| `Genuineness`, `Shown`, `Allowed` | `SessionsGenuine`, `StoredIsShown`, `OfferedIsAllowed` | - |

Assumptions are those named in the modules: the kinds of records are disjoint,
seeds are well formed, seeded manifests beyond draft name a verified carrier and
seeded passes a manifest beyond draft (`SeedsConsistent`, which `database.go`
establishes), bounds are naturals, the unique
index on the codes of seed rows is an earlier stage than the rows, the keys of the
limiter are finite.

*The core.* `TypeOK /\ RequestsCurrent` is inductive. A step that starts a request
puts the stored row into it; a step that commits raises the version of one row,
so that rows held elsewhere become strictly older; a deletion leaves status and
fields alone. `WriteDecidedOnStored` is the consequence everything else uses:
with `Lookahead = 0` the expected version is at most the held one, so a write that
passes the comparison holds the stored row. `Refinement` then needs one case per
kind of commit and a stutter for every other step. `AuditComplete` shows that one
write appends one entry that takes up where the log was left. `RulesHold` needs
more than the rules: that a request past its reads has checked its parties
(they were verified once) and its manifest (it was beyond draft), which stay
true because logs only grow and a manifest never goes back to draft.

*The log.* `LogAccounts` is inductive with `TypeOK` alone: every commit, the
blind delete included, adds one entry and one write, and the entry ends in the
status that is stored. It holds whatever versions clients send, unlike the
chaining of the entries in `TrailReplays`. `TrailLegal` needs `HeldLogged` besides:
what a request holds is a state the log reached, because it was the stored one
when it was read and entries are never removed. The before-state of a deletion
rests on that alone, everything else on `WriteDecidedOnStored`. `ShipmentsComplete`
and `DecisionsAreFinal` are then facts of the graphs. For `DecidesOnce` the
statuses of manifests and checks are given a `Rank` that no entry lowers and
every transition raises (`Decided`), so that two decisions of a record never end
in one status.

*Witnesses.* `WitnessInv` says what a transition has verified by the time it comes to
its next database call; the reads and guards put it there, and the commit
writes the fields that were verified, for a review the expiry date it held when
it was compared. It needs no version comparison, so it holds for every
`Lookahead`, that is for whatever versions clients send.

*History.* `HistoryInv` adds that an update which is still going to be stored was
decided after everything that is dated: a commit in between would have raised
the version it holds, which by `CommitVersions` it must not have. Deletions are
not covered by this argument. For them `HeldDated` says that the log had reached
the state a deletion holds by the date on which it was decided: the entry that
reached it is in the log when the row is read (`HeldLogged`), and its date has
passed (`Clocked`).

*Startup.* `IInv` adds that a process at a stage has all earlier stages behind it
in `made`, which never shrinks. So the process that creates a stage finds all
earlier ones in `made`, which is `SeededInOrder`, and the process that comes to seed
rows that were stored once finds their unique index there and is refused
(`IndexedBefore`), which is `NoResurrection`.

*Limiter.* `IInv` adds the accounting: what a counter admitted in a minute is at
most what it has counted, and at most the limit; counters that expire belong to
minutes no call can still name, entries that are cleaned to minutes that are over.
`KeyLimited` adds up the counters of a key: its granted calls, numbered by the
counter that let them through, are part of `Counter \X (1 .. Limit)`.

*Page.* `PageInv` is the argument of the core once more: what the page holds of a
row was stored, and a backend step raises the version or leaves the row (or
deletes it, keeping status and fields). `LoadingBacked` ties the loading flag to
a call under way. An accepted transition has the version of the stored row, so
what the dialog held is the stored row. Its backend is
`RecordLifecycle` by construction; that the services implement it is `Refinement`.

*Session.* `SessionInv` adds that a restore under way holds the token it was sent
with and, once answered, the name signed into it. `OfferedTo` says of a request of
a page that the account of the session it showed has the role the page asks for;
pages and routes ask for the same.

Only model-checked: `Recovers` (liveness under fairness, which the provers do not
reach). `ServesAgain`, `StatusFollowsGraph`, `RetainedForCompliance`,
`OffersAccepted` and `PagerShowsPage` do not hold. Every other property of a run is
stated by a theorem. `Lookahead = 0` is the condition that clients send versions
they have loaded, which the pages keep; `pipelined_edit` shows what becomes of the
status graph without it. The theorems marked `-` hold there too.

## 5. Not modelled, and the plan

Left out for good: configuration, request ids, headers, logging, rendering, the
wording of errors, column migrations, password hashing and token formats: they
keep no state, and nothing is decided on them beyond accepting or refusing an
input. MinIO is configured and never called. Handlers are the first and last
step of a request; binding and identifiers are abstracted to the choice of valid
input. Create, update and delete without audit, `Audit`, `AppendAudit`,
`CreateUser`, `CountUsers` and the `Status` of the limiter have no caller. Accounts are
seeded and no operation changes them.

`AuditSummary` and `Overview` are several queries without a snapshot, and the audit
list is a count and a page of rows: their numbers may disagree while writes
commit. They are shown and nothing is decided on them, and no document promises
more, so there is no property to check. The closing of a tab for good is left
out, as the session it leaves stored is meant to be found by the next one; a
write of `localStorage` is one step.

Order of the plan; all steps are done:

1. Core: domain, store, requests, services, composition; `TypeOK` and lifecycle
   proved.
2. Startup and rate limiter with proofs.
3. Workbench page, on `RecordLifecycle`, with edits and deletions of other users,
   its properties proved.
4. Session: the storage shared by tabs, login, restore and logout racing each
   other, 401, roles at the pages and the routes; its properties proved.
5. The order of the audit history, and the witnesses, proved.
6. What follows from the invariants: the log read on its own, decisions stored
   once, deletions dated, stages in order, the limit of a key over all counters,
   and that the histories add no behaviour; all proved.

What could follow: the two processes of a rolling start with clocks apart in
`AuditHistory`, and the limiter in front of the session (a 429 ends a restore,
which here is one of the failures).
