# Verification of the Add Moments server

The program is a Go server for photo sharing at weddings and other events. A
buyer orders a package in the shop and pays with LiqPay; a sign-up link then
turns the order into an *event* with hosts ("admins"). Guests upload photos
straight to S3 into the event's albums, hosts look through them, trash, delete
and export them as a zip, and after the storage period a cron removes
everything. The state is a PostgreSQL database (`src/db-shell/misc/*.sql`: tables,
triggers and SQL functions), an S3 bucket and, in each process, a few goroutines.
Almost no handler uses a transaction: a handler is a sequence of single
statements and S3 calls, and other handlers, cron ticks and restarts come in
between. That is where this project looks.

Paths below are relative to `src/src/` unless they start with `src/`.

## 1. The system

| Component | State it keeps | Operations | Hard behaviour | What makes it correct |
|---|---|---|---|---|
| **Worker** `worker/core.go`, `jobs` in `create-tables.sql`/`setup.sql`, listener in `db_layer/core.go` | job rows (status, locked_by), per process: kick mutex, instance array, goroutines, LISTEN connection | insert + NOTIFY, `Kick`, `Get_jobs`, `run_instance`, `Init` | several processes claim from one table; kicks overlap and are skipped; the instance is freed before the row is written; crashes, lost notifications | a job starts once; an instance runs one job; running rows are worked on; finished rows stay; claimed jobs end |
| **Upload receipt** `upload_receipt/core.go`, `db_scripts/upload_receipt.go`, `routes/upload.go` | upload rows (pending, received, trashed), S3 objects, what the browser believes | presign, PUT, `/confirm`, minutely sweep, duplicate check, host's trash and delete | `/confirm` and the sweep resolve the same row; answers are lost; a PUT lands late; the row goes before the object | what a guest was assured of is kept; received rows stay; no object is forgotten; a file that arrived is settled |
| **Orders and payment callback** `routes/product.go`, `routes/payment-cb.go`, `liqpay/provider.go` | purchases.provider_id, cart item status, promo usage | Purchase, callback (record, count, apply, move items), admin's apply | notifications repeated, concurrent, out of order; no transaction; a UNIQUE column as idempotence guard | decided once; counted, delivered and applied at most once and only when paid |
| **Shop**: products, promo codes, promo cron, partnerships, quantity rules `routes/product.go`, `promo/core.go`, `routes/admin_promo.go`, `promo_cron/core.go`, `routes/admin_partnership.go`, `types/qty_rule.go` | products (price, the JSON column options), promo_codes, partnerships, the snapshots in a purchase | edit a product, preview and use of a code, code CRUD, the cron's two updates, opening a purchase | prices are read twice; a code is checked at opening and counted at payment; an edit writes a whole column from a stale copy | what is charged is what the cart says; a discount needs a good code; a sale stays with its partnership |
| **Ownership**: sign-up, attach, collaborators `routes/signup_email.go`, `routes/collab.go`, `db_scripts/rm_user.go` | users, events.admins, purchases.buyer_uid | Post, Attach, invite, remove, account removal | check and insert in separate statements; two hosts leave at once | one event per paid order; an event always has somebody to look after it |
| **Event dates, extension, upgrades** `routes/upgrade.go`, `routes/event.go`, `routes/admin_event.go`, `db_scripts/upgrades.go`, SQL 13, 17, 18, 19 | activation_date, active_until, storage_until, package and added months | triggers, apply_event_upgrade, ExtendStorage, the panel's date change | four formulas move the same two dates in any order, an upgrade long after it was offered | what was paid for is in the dates; only a new start shortens them |
| **Storage cron and purge** `storage_cron/*`, `event_cleanup/*`, `routes/admin_event.go` | warning mark, deleted_at, snapshots, uploads, S3 objects | warn, close, snapshot, purge step by step, permanent removal | lists that go stale; several purges of one event; a crash between steps; uploads meanwhile | an open event keeps its files; no file is forgotten; the warning names the right day; what is over gets closed |
| **Guests**: tokens, albums, upload limits `auth/user.go`, `routes/upload.go`, `routes/album.go`, `db_scripts/limits.go`, `db_scripts/album.go`, SQL 4, 8, 11, 14, 15, 17 | guest tokens, participants, albums, counts and sums derived from rows | AuthMiddleware, open an album, presign with its checks, receipt of the file, host's album edits and deletion, trash, restore, move | count and insert are separate, in the restore's trigger too; the album is read before both; the size declared is not the size found; deletion is two UPDATEs; a token is older than what it opens | limits hold up to overlapping requests and undeclared sizes; a deleted album leaves nothing in the open |
| **Order items and waybills** `routes/payment-cb.go`, `routes/orders.go`, `routes/np_waybill.go`, `novaposhta/` | item status, configuration, tracking number, the documents at Nova Poshta | callback's three updates, buyer's configuration, waybill goroutine, panel's edit and retry | an external service and an UPDATE in a goroutine nobody waits for; status read and item written apart | a parcel is sent once, labelled as configured, and on record |
| **Order panel and accounts** `routes/orders.go`, `routes/panel_admin.go`, `auth/super_admin.go`, `routes/password_reset.go` | panel_admins, passwords, reset tokens, event or snapshot | grant, revoke, list, detail page, reset request and confirmation | a grant is five statements; the role is read twice; the event closes while a page is made | prices for super admins only; the page of an order is never blank; a host keeps the password |
| Zip export, signing in, mail, pages, plumbing, mock provider | - | - | - | left out, see section 7 and the notes in `PROJECT.json` |

How they interact. The **shop** opens an order at a price fixed by the cart and a promo code. The
**payment callback** decides it, counts the code and, for an upgrade order, calls
`apply_event_upgrade`; for a cart it hands the items to **order items** and
mails the link with which **ownership** opens the event. **Guests** gates
presigning, **upload receipt** settles the row. A host's export
inserts a job for **worker**. Triggers compute the **dates** of an event from its
package; upgrades, the extension and the panel move them, while the **storage
cron** warns the hosts of events that end and purges those that have ended. Hosts
and the panel run the same purge on demand.

## 2. Plan

Most important first; each component gets a module, an MC module and
configurations, then a proof module where a theorem is worth it.

1. `JobQueue` (abstract) and `Worker`, which implements it - done, proved.
2. `Receipt` (abstract) and `UploadReceipt`, which implements it - done, proved.
3. `Order` (abstract) and `Payment`, which implements it - done, proved.
4. `Ownership`, on top of the decisions of `Order` - done, proved.
5. `EventDates`: the dates of an event under everything that moves them - done,
   proved.
6. `EventCleanup`, which adds the cron, the purge, the removal and the uploads
   to 5 - done, proved.
7. `Guests`: tokens, albums and the limits at presign and at the restore - done,
   proved.
8. `OrderItems`: the items of a paid order and their waybills - done, proved.
9. `OrderPanel`: pages, roles and passwords of the panel - done, proved.
   The proofs of 8 and 9 are two parts of one module, `Orders_proofs`.
10. `Shop`: products, promo codes, the cron and the purchase - done, proved.
11. Left: `ExportZips`, what the job of `Worker` writes and three clean-ups remove;
   the composition of `Guests` with `UploadReceipt`, whose resolvers move the rows
   that the limits count (`Guests` has their outcome only; `Receipt` is the interface
   it would use); liveness, which stays with TLC.

Runs that ask about one instance are merged rather than multiplied: one run for the
safety of a component, and a second one only where liveness needs another instance
or fairness. Types are proved and not checked again in every run.

## 3. What is modelled

### JobQueue and Worker

`JobQueue` is what the queue promises: a user has one open job, a job is claimed by one
server and started by it once, and a job that its server loses is *adrift*: it is
never run again and stays open, because `Worker.Init` gives back the lock and not the
status. `Worker` is the code; `Stage` reads a job's state off the row, the plans and
the goroutines.

State. `status`, `lockedBy`, `earlier` are the table (`earlier[j]` stands for
created_at). Each process has `stage`/`holder` (who holds kickMutex and how far
that kick is), `idle` and `plan` (the local variables of `Kick`), `slot`
(instance_state) and `task[s][j]`, the goroutine of a job. `inbox` are the
notifications on their way.

Actions. A kick is cut where others can get in: `Scan` (TryLock, read
Is_running), `GetJobs`/`GetNothing` (the one UPDATE ... FOR UPDATE SKIP LOCKED and
the decoding of its rows), `Launch` (start goroutines, unlock). A job is
`JobReturns`, `Record`/`RecordFails`, `OnDone`. `Insert` is the partial unique
index and the trigger; `WorkerInit`, `Listen`, `Notified`, `ConnectionLost` and
`Crash` are the process. `Is_running` is written under the instance's mutex and read
without it, a data race: `Scan` may miss an empty instance whose goroutine has
not yet synchronised.

### Receipt and UploadReceipt

`Receipt` is what guests are promised: an upload waits until its file has arrived or
is not coming any more, is decided once, and is turned away only if the file is empty,
never comes, or is kept; and for whoever is told that the file is there it is kept until the
host deletes it. *Kept* is about objects, not rows: the object of some received upload of
the same file is in S3 (or the host has deleted one). It has one exception, which the code
leaves open: two received copies that were both taken away, each as a duplicate (`taken`;
`crossed` in the code's module). `UploadReceipt` is the code. In its refinement
mapping (`Abstract == INSTANCE Receipt WITH ...`) an upload's file has arrived once
its PUT has landed, is given up when the browser was told of a failure before that, and
is `stored` while its key is in S3.

State. `row` (absent, pending = received_at NULL, received, dropped by a resolver,
deleted by the host), `older` (its created_at: the rows that were waiting when it was
inserted), `object` (keys in S3), `put`/`seen` (what happened to the PUT
and what the browser thinks of it), and for each resolver - the `/confirm` requests
and the sweep - its next call `pc`, its row `at` and everything it has read
(`done`, `cand`, `reason`, the sweep's `list`).

Actions. One per database statement or S3 call of `Resolve`: `Head`, `Query`,
`Compare`, then `Mark`, or `Drop` and `Remove`. `Compare` takes the HEADs of all
candidates as one step, and lets the check miss a copy when a call fails, as it also does
when the copy is not among the five candidates asked; files are compared by ETag, so a
file is just its ETag. `Confirm` and `SweepReads`/`SweepNext` are the two entries; a sweep
reads the `Batch` oldest rows of its window (`LIMIT 500`, oldest first) and takes them
in that order. `Trash` also takes pending rows, which an album's deletion trashes with the
others. `ResolveFails` and
`Restart` may hit anywhere. Limits at presign time are not part of it.

### Order and Payment

`Order` is what the flow promises: an order is opened, decided once as paid or
failed, and only then counted, delivered part by part and applied, each at most
once. `Payment` is the code: `provider` is purchases.provider_id, with
`PaidId(p)` for LiqPay's payment id and `FailedId(s)` for the text `failed:<status>`,
which is the same for every order. Cart items that the code treats alike are one
*part*. A callback is `Callback` (signature, read of the row, decision; `Accepts` compares
the notification's order with the URL's for a success only, because a refusal returns
before that, `liqpay/provider.go:176-189`) and then
`Record`, `CountPromo`, `ApplyUpgrade` or `UpdateItems` per part, one statement each.
`CallbackFails` and `Restart` cut it anywhere. LiqPay is external: any signed
notification may come late, repeatedly and out of order.
`Abstract == INSTANCE Order WITH ...` is the refinement mapping; the decision of an
order is read off provider_id, deliveries are items that left the cart.

### Ownership

State. `account` (users: no row, active, removed), `order`/`admins`/`suspended`/`closed`
are the events, `buyer` is purchases.buyer_uid, `invited` are the invitation links
made so far; `decided` moves as `Order` promises (`Ordering == INSTANCE Order`), which
is all that Ownership needs to know of `Payment`. A request has its next
statement `pc`, its account `by`, its order or event `at`, and, for an account
removal, the rows as its statement began, `snap`.

Actions. `Post` and `Attach` end with the last check before the first write; then
come `Create`, `Check` (or `CheckFails`, which the code takes for "no event"),
`SetBuyer` and `OpenEvent` for the link of an order, `Join` for an invitation. `Invite`
is `New` in `collab.go`, `Dismiss` is `DeleteByEvent`, `DismissShared` is `Delete`;
`Dismissed` is the UPDATE both end with. `RemoveUser` is one SQL statement, but a
long one: its parts see the rows as it began (`Leave`), and PostgreSQL checks a
row's condition again only if that row has changed meanwhile (`Left`). `Closes` is any
end of an event. A link may turn up at any time, so `Valid` is asked when it is
used. The histories `strained` (orders whose sign-ups overlapped, whose look-up
failed or whose owner left) and `raced` (events whose admins changed under a
removal) mark what the code does not promise.

### EventDates

State. One event has `act`, `active` and `storage` (activation_date, active_until,
storage_until; `dated` says that they are set), the marks `extended` and `warned`,
the package `tier` with the added months, and `closed` (deleted_at). Packages are
numbered in the order of their prices, dates are day numbers.

Actions. `SetsDate` is the trigger `enforce_event_dates`, reached by hosts through
PostgREST (`HostSetsDate`, before the start only) and by the panel
(`AdminSetsDate`, rolled back when the gallery would be over). `OpensUpgrade` is the
purchase, `Applies` the SQL function `apply_event_upgrade` at whatever time the payment
comes, with its two ways to compute dates: `PackageDates` and `ExtraDates`. `Extends`
is the extension, `MarksWarned` and `Closes` are the cron's.

### EventCleanup

State. An upload has its `row` and its `object` in S3. `progress` and `captured` are
the snapshot of an event; `gone` are the events whose row was deleted. Each purger -
the requests in `Callers` and the cron - has its next statement `pc`, its event `at`
and its file list `paths`. The cron has its part `cron` and the `list` it has read,
with the dates as they were.

Actions. A purge is `Look` (the snapshot, or the uploads of the event), `Capture`
(INSERT ... ON CONFLICT DO NOTHING), `SoftDelete`, `DeleteRows`, `RemoveFile` for
each file, `Finish`. It is started by `Deletes` or by the cron's `PurgeNext`. The
permanent removal is `ListFiles`, `RemoveFile`, `Erase`. A run of the cron is
`WarnStarts`, `Mail` and `Mark` for each event, `PurgeStarts`, `PurgeNext`, `PurgeEnds`.
`PurgeFails` and `Restart` cut it anywhere. Guests `Checks`, `Inserts`, `Lands`.
`DatesMove` is any statement of `EventDates` that another request executes meanwhile.

Histories: `told` is the day the last warning named, `moved` the events whose dates
moved while the cron had them listed, `early` those it closed before their time,
`missed` the uploads that came after the purge had looked, `late` the files that
arrived at a closed event.

### Guests

State. `token` is what a browser sends (its role, participant, event and opened albums),
`participants` the rows of this event, `album` the albums' rows, `req` the `GuestUpload`
calls, `row` the uploads, each with its size_bytes in units of size; `back` the restores
between their trigger and their commit. `deleting` are the album deletions between their two UPDATEs
and `doomed` the rows that those have trashed and hold.

Actions. `NewGuest`, `ForeignToken`, `RenewToken`, `GuestEnters`/`AccountEnters` are
`AuthMiddleware`; `GuestOpen` opens an album. A request is `EnterUpload`, `ReadAlbum`,
`CheckLimits`, `Insert`, or `FailUpload` anywhere; it declares a size for each file, and 0
is a size that was not declared. `Receive`, `GiveUp` and `Age` are what
becomes of a row; `Receive` replaces the declared size by the measured one. `SignBook` is
the guestbook. The host `EditAlbum`s, `BeginDelete`s, `CommitDelete`s, trashes, moves and
deletes. A restore is `RestoreUpload` (its triggers count, without a lock) and then
`CommitRestore` or `FailRestore`, so two of them may count at the same time.
The several queries of one check are taken as one step; what comes between the check and
the write is not.
The histories: `asked` is the size that the limits were asked for, `waived` holds the guests with whom the contributor limit was not asked.

### OrderItems

State. `cb`/`seen` is how far the callback has come and what it has read, `item` the cart
items, `docs` the documents that exist at Nova Poshta, `submit` the buyer's calls, `job`
the waybill goroutines. Nova Poshta is external: a document may be made and the
answer lost.

Actions. The callback's four statements `CbReads`, `CbDigital`, `CbConfigured`,
`CbUnconfigured`; `SubmitReads` and `SubmitWrites`; a waybill is `FetchAddress`,
`CreateRecipient`, `CreateWaybill`, `RecordWaybill`; `UpdateItem` and `RetryWaybill` are the
panel's. Any of them may fail, and `Restart` forgets what is under way. The
specification is `ItemsSpec`: its names are distinct from those of `OrderPanel`, so that
one proof module can extend both.

### OrderPanel

State. `panel` and `reset` are the rows of panel_admins and password_reset_tokens, `pass`
says who set a person's password last, `event` and `admins` are the order's event, `call`
is a handler with its next statement and its findings.

Actions. `GrantLooks` to `GrantInserts` are the statements of `Create`, `Revoke` is
`Delete`; `RequestReset`, `ConfirmReads`, `ConfirmSetsPassword`, `ConfirmMarks` the reset;
`OpensPage` and what follows the two looks at the role, then the event or its
snapshot. The event opens, lets hosts in, is captured, closed and erased meanwhile.

### Shop

State. `product`, `code`, `partner` are rows, `edit` the calls of `AdminUpdateProduct` with
the copy each has read, `buy` what a buyer put together and how far the purchase is.

Actions. `EditReads`, `EditWrites` (whole columns, `Assigned`), the panel's acts on codes
and partnerships, `CodeAges`, the cron's `CronExpired` and `CronLimits`. A purchase is
`Begins`, `ChecksBasket`, `ReadsPrices`, and with a code `QuoteReadsPrices`,
`QuoteReadsCode`, `ReadsPartner`. `Discount` rounds half up in kopecks as `roundMoney` does.

Histories of these four: `excuse`, `asked` and `late` mark rows whose check was overtaken,
whose size was found later, or whose album was being deleted; `again` the items that were given another chance to be
sent; `lost` documents whose answer or UPDATE failed; `stale` a submission the panel
overtook; `revoked`, `joined`, `broken` handlers and links that met a change after their
look; `good`, `moved`, `owned` what held while a purchase was placed.

No history variable of any module guards an action.

## 4. What TLC checks

| Run | Question | Instance |
|---|---|---|
| `Worker_faults` | ImplementsJobQueue, RunningIsWorkedOn | 2 processes x 1 instance, 3 jobs of 2 users, one undecodable input, all faults |
| `Worker_live` | OwnInstance, ClaimedEnds, QuietPickup | 1 process x 2 instances, 3 jobs, no faults, FairSpec |
| `Upload_safe` | ImplementsReceipt, OnlyCopyHasObject, NoOrphanObject | 2 uploads, 2 `/confirm` + sweep of both rows, 2 files, host deletes, failing calls, restarts |
| `Upload_live` | LandedIsSettled | 2 uploads, a sweep of one row, an empty file, late PUTs, host trashes and deletes, FairSpec |
| `Payment_orders` | OutcomeWasNotified, UsageIsPaidOrders, PaidIsFulfilled, HandledIsRecorded, ImplementsOrder | 2 orders with one promo code good for one use, 1 upgrade order, a refusal of the first that may be posted to any, 2 concurrent callbacks, failing statements, restarts |
| `Ownership_safe` | EventIsPaid, AdminsWereLetIn, RemovedIsSuspended | 1 order, 1 upgrade order, an owner and an invited account, 2 events, 2 requests at once |
| `Ownership_live` | OneEvent, BuyerGetsEvent | 1 order, 2 accounts of its address one after the other, 2 events, 2 requests, failing statements, restarts, FairSpec |
| `Events_safe` | PaidTimeIsKept, OpenKeepsMedia, FinishedIsGone, NoFileForgotten, RemovalIsWhole, ClosedEarlyOnlyIfMoved | 1 event, a package upgrade and a month of uploading, 1 upload, the cron and 1 request, 4 days, errors, restarts |
| `Guests_safe` | EventWithinLimit, GuestWithinLimit, DeletedAlbumIsEmpty | a guest and a signed-in visitor, 2 requests for 2 files of size 0 to 2, storage 2, every other limit 1, General and one album with 2 settings, 3 deeds |
| `Items_safe` | OneWaybill, LabelFitsItem, DocumentsAreKnown, PanelDecides | 1 physical and 1 digital item, 2 configurations, 2 submissions, 2 waybills at a time, 3 documents, 1 act of the panel |
| `Panel_safe` | PricesForSuperAdmins, AccountNeverBlank, HostKeepsPassword | a super admin and a member of staff, 2 handlers at once, 1 reset link, 2 grants or revocations |
| `Shop_safe` | GalleryOutlivesUpload, ChargeMatchesCart, PreviewIsNotTrusted, SaleKeepsPartner | a core package, a special one and an add-on, 1 buyer, 1 code, 2 partnerships, 2 edits at once, 3 acts |

Bounds. Two claimers, two resolvers of one row beside the sweep, and two callbacks
of one order are what every race above needs, since each conflict is between two
actors on one row; a third job, and a third order, lets a race on two of them meet
an innocent one. Three jobs on two users make the partial unique index bite.
Nothing is counted without limit: a job row, an upload and an order are each
inserted once, notifications are a set (a repeated one may be delivered again),
and `usage` and `runs` are bounded by what the rows admit. No state constraint is
used. In the newer modules the panel, the host and the clock could act for ever:
`MaxDeeds`, `MaxEdits`, `MaxChanges` and `MaxActs` count what they do, and `MaxDocs` the
documents of Nova Poshta. Each is set so that a conflict and what undoes it both fit:
a revocation and a second grant, a deletion and a restore, an edit of either field
of a special package and a change of the code, a second and a third waybill.
In `Upload_live` the sweep reads one row (`Batch`), so that one older row whose file does
not come already fills it; in `Upload_safe` it reads both, and the second is out of date
when its turn comes.
In `Guests_safe` a limit of one file is met by the second, which is what every
limit property is about; sizes up to 2 let a file grow beyond its declared size and
beyond what is left, and after one deed, the deletion of their album, two files can be restored
at the same time with the other two. The storage of the event binds at a restore: at presign the guest's limits
and the number of contributors are tighter in this instance. The theorems cover every
value. One case is beyond the run: a guest who got in through the
guestbook and then uploads while another holds the only place takes three rows. TLC met
it on an instance with three uploads, which is too large for a run, and the theorem
covers every number. In the `Events` runs time stops after four days (`Horizon`), and a month, the
extension, the time between warning and end and the days of the packages are one day
each, the small package's uploading excepted, which lasts the day it starts: an event
that starts on day 1 can be warned, extended or upgraded, expire and be purged before
the end. One event is enough for safety, because a purge, a date and a snapshot belong
to one event; what a second one adds, a longer way from the list to the purge, is in
the interleaving already.
`Permutations` are taken only over constants no configuration table tells apart, and
only in runs without a liveness property. (`Payment_orders`, `Worker_faults` and `Upload_safe` check refinements under symmetry:
the abstract modules and the mappings treat the permuted values alike.) Deadlock checking is off because all of them really may stop: every job
is finished, every upload settled, every order decided, every event closed and its
time over, every bound reached. The other modules make no claim that needs fairness.

Fairness. `Worker`: goroutines are scheduled, a query returns, and an export ends
(it is bounded by its own timeouts); an insert, a crash or a lost connection is never
required. `UploadReceipt`: the ticker fires and a resolver's calls return; guests
and hosts need not do anything. `LandedIsSettled` is about rows in the sweep's
window, 30 seconds to 24 hours, and excepts those behind a full batch of older rows whose
files do not come (`Crowded`): every sweep reads the same 500 rows again until they leave
the window.

`Ownership`: requests end, and the owner of a paid order tries the link again until
there is an event. `BuyerGetsEvent` needs strong fairness of each statement of the
sign-up, since a failure or a restart may break off every attempt at another
place but not at the same one for ever. `OneEvent` is only claimed for orders that are
not `strained`: two overlapping sign-ups of one order, a failed look-up, or an owner who
removes the account and signs up again do get a second event in this code.

`Upload_live` has no crash and no failing call: a sweep whose every HEAD fails settles
nothing. `NoOrphanObject` is not claimed with late PUTs: the object of a PUT that
lands after its row was dropped has no row.

## 5. What the code does other than it says

Three sentences of the code are stronger than what it does; the models contain each
case, and the properties are worded around it.

* `Drop_pending_upload` (`db_scripts/upload_receipt.go:129-130`) says no visible upload
  is deleted when sweep and `/confirm` race. The row survives, but `Resolve` removes
  the S3 object whether or not its DELETE matched a row (`upload_receipt/core.go:76`).
  When two uploads are one file, two resolvers may each take the other's row for the
  original: both rows stay received, both guests are told so, and both objects are removed
  (`crossed`). `AssuredIsKept`, and with it `Receipt`, excepts exactly this, and
  `OnlyCopyHasObject` asks about files nobody uploaded twice.
* `liqpay/provider.go:177` says a refused payment is recorded so that the pending page
  can show it. provider_id is UNIQUE (`src/db-shell/misc/create-tables.sql:228`) and
  the recorded text `failed:<status>` does not name the order
  (`routes/payment-cb.go:166`), so a status can be recorded for one order only.
  `HandledIsRecorded` holds because it excepts orders shadowed in this way.
  Nor is a refusal compared with the order of the URL: a refusal that LiqPay signed for
  one order records another as failed when it comes to that one's callback
  (`liqpay/provider.go:176-184` returns before 186-189), so `OutcomeWasNotified` asks a
  failed order for a signed refusal of some order, and a paid one for a success of its own.
* `softDeleteExpired` closes events "whose storage_until has passed"
  (`storage_cron/soft_delete.go:15-16`). It works through a list, and the purge
  (line 57) reads neither storage_until nor deleted_at again: an event that a late payment
  or the panel gave more time after the listing is closed and its files are deleted.
  `ClosedEarlyOnlyIfMoved` says that this is the only way.

The other exceptions that properties make are behaviours of the code, too:

* two submissions of one item that overlap order two waybills, and so does the
  panel's retry, which does not look for a waybill and passes no configuration
  (`again`); a submission that read the status before the panel settled the item
  reopens it (`stale`);
* a page whose reader loses the role between the two looks shows the prices
  (`revoked`), and a grant whose account becomes a host after the look sets its
  password (`joined`); two overlapping confirmations use a reset link twice (`broken`);
* a price changed between the cart's and the discount's SELECT gives a total that is
  not the cart's (`moved`); the sale of a code without a partnership goes to
  whichever it gets later;
* a file that arrived is not settled while 500 older rows of the window wait for files
  that are not there (`Crowded`);
* requests that overtake each other exceed the limits, and so do restores whose triggers
  count at the same time (`check_upload_restore_quota` takes no lock,
  `src/db-shell/misc/17-event-upgrades.sql:355-384`), a pending row counts for an hour
  only and counts again when its file is found, the guestbook and a restore ignore a
  guest's own limits (`excuse`); the receipt replaces the declared size, or 0 where none
  was declared (`routes/upload.go:210-213`), by the measured one
  (`db_scripts/upload_receipt.go:114-120`) and asks no limit about the difference, so the
  storage limits are claimed for the sizes asked for (`asked`); a guest with a guestbook entry, or with an upload
  that nobody checked, is a contributor to `Has_contributed`
  (`db_scripts/event_tier.go:268`) and uploads on although the contributors' places
  are taken (`waived`); a row inserted while its album is being
  deleted stays in the open (`late`).

Two more facts. A kick that finds the mutex taken is
dropped because one "is already in progress" (`worker/core.go:124`), which may be past
its query; then nobody looks at the new row until another job is inserted or ends, and
so `QuietPickup` is about quiet processes. And a permanent removal empties the S3 folder
before its transaction, which always fails once an upgrade order refers to the event
(`purchases.event_uid`, `src/db-shell/misc/17-event-upgrades.sql:37`): `Erase`
changes nothing then.

## 6. What is proved

The theorems hold for every number of processes, jobs, uploads, orders and
requests, and for every set of faults. They assume only what the modules state:
the constants are tables of the right shape, the "nothing" values are not among
the real ones, an upgrade order carries no promo code
(`CodeAssumption`), and the sets of orders and of uploads that are counted are finite
(`PurchasesAssumption`, `UploadsAssumption`).

* `Worker_proofs`. `IInv` strengthens AtMostOnce, OwnInstance and RunningIsWorkedOn
  with: a job in a kick's plan is running and was never started (`PlanInv`); a job
  with a goroutine was started exactly once and only one process holds it
  (`TaskInv`); unclaimed rows were never started (`RunsInv`); the kick with the mutex
  plans only for instances that stay empty until it launches (`KickInv`). AtMostOnce
  alone is not inductive: nothing in it says that a claimed row has not run yet.
  FinishedStays follows from TaskInv, since only a goroutine in "record" writes.
  `WorkerImplementsJobQueue` needs one more invariant, `LockInv`: locked_by names whoever
  holds a job, and only running rows are locked. A claim of several rows, the start of
  a whole plan and a crash are one step of `JobQueue` each, which is why its actions
  take sets of jobs.
* `UploadReceipt_proofs`. Under every fault, `BaseInv` (types; a file seen by a
  resolver has landed) gives TypeOK, ReceivedLanded and ReceivedRowStays. `CopyInv` adds
  that a resolver about to remove an object has a duplicate or an empty file, and that
  any other file that landed is there until the host deletes it; that is
  OnlyCopyHasObject, late PUTs included. When no PUT
  lands after the browser gave up on it (`NoLatePut`, an explicit hypothesis),
  `KeepInv` gives AssuredIsKept and NoOrphanObject: a resolver that is about to drop
  has a verdict - a kept copy, an empty file, or a PUT that is given up
  (`ResolverInv`) -, candidates were visible and so are received or deleted
  (`CandInv`), and a dropped row had such a verdict (`RowInv`). These speak of rows;
  `StoreInv` brings in the objects: a received row has its object or is `crossed`, and a
  crossed one names another received or deleted copy. Following that name once ends at an
  object, at a deletion, or at a second crossed copy, which is what `Kept` says
  (`HeldIsKept`). From it follows
  `UploadReceiptImplementsReceipt`, step by step: `Drop` is `Reject` because the verdict
  still holds when the DELETE comes, `Mark` of a row that another resolver dropped
  is `Tell` because that one had a kept copy.
* `Payment_proofs`. `IInv`: a request past `Record` works on a paid order and knows
  which parts it has moved (`RequestInv`), only one request does (`Exclusive`), and
  a paid order is fulfilled, being worked on, or was cut short (`PurchaseInv`). With
  `UsageInv` (usage_count is the number of orders counted) it gives the safety
  properties, and `PaymentImplementsOrder` maps every step to a step of `Order`
  or a stutter. `Exclusive` is the heart: it is the conditional UPDATE on
  `provider_id IS NULL`, and without it no count or delivery is unique. HandledIsRecorded
  follows because only the UNIQUE column can refuse a refusal, and then another order
  has it for good. `OutcomesWereNotified` needs that notices are never taken back and that
  a request carries an outcome which `Accepts` let in.
* `Ownership_proofs`. `IInv`: a request that signs an account up has that account's
  address on the link of a paid order that upgrades nothing, or on an invitation
  to its event (`RequestInv`). It carries the check of the link over to the later
  statement that inserts the event or appends the admin; it is preserved because
  a decision, an order's address and an invitation are never taken back.
  `QuietInv` gives OneEvent: of an order that is not strained one request at most is
  at work, past its look-up there is no live event, and once there was an event somebody
  with the owner's address has an account, which keeps a further `Post` out.
* `EventCleanup_proofs` begins with the dates: PaidTimeIsKept is inductive with the
  types, since every formula that moves `storage` starts from an `active` that is at
  least what the package and the added months say. It needs that a package upgrade
  leads upwards and is bought on its own (`UpgradesAssumption`; `upgradeSelection` and
  `Event_upgrade_options`). `IInv` has a part for each purger, event and upload.
  `PurgerOK`: what a purger still has on its list covers what it has to remove - the
  rows while it is about to insert a snapshot, the captured files, the stored files of
  a removal -, and from "rows" on its event is closed. `EventOK`: a snapshot covers the
  rows that are left, a finished one has no stored file but late ones. `MediumOK`: where
  a row is deleted, the file is on the captured list, or the upload is `missed` or
  `late`. `CronInv`: what the cron has
  listed had the dates it read, unless it is in `moved`. KeepsDates shows that
  every step is a step of `EventDates`, so its theorems hold here too.
* `Guests_proofs`. The limits are checked in one statement and the rows inserted in
  another, so `LimitInv` carries the answer across (`PromiseOK`): a request that passed
  the check and was not overtaken still has room for its files and their declared sizes, and
  its guest is a contributor, is `waived`, or finds a place among the contributors
  (`RoomFor`); likewise a restore past its trigger (`RestoreOK`), and a pending row has the
  size it was asked with (`PendingOK`). A step
  that only takes rows away keeps every promise, since no count and no sum grows
  (`FewerCounted`, `LimitsKept`, `PromiseKept`, `RestoreKept`); a step that adds a row, or
  to a row's size, overtakes the other requests and restores, so nothing is promised to
  them any more. The measured size does not enter the sums of EventWithinLimit and
  GuestWithinLimit beyond what was asked, but it enters those that later requests are held
  to, which is why the two are related by inclusion of sets of units (`Units`,
  `GrantedUnits`) rather than by arithmetic. `RoomFor` is where the contributors' limit turned out not to
  be inductive when guests were excused row by row: a guest let in by the guestbook
  had no excused upload left to show for it, which is why `waived` is a set of guests. `AlbumInv`:
  a row in an album whose deletion has begun is held by the deletion, trashed or `late`, and
  General is never deleted. What is assumed is
  that the uploads are a finite set (`UploadsAssumption`), and numbers, sizes, settings and
  names of the right shape (`LimitsAssumption`, `SizeAssumption`, `SettingsAssumption`,
  `AlbumsAssumption`, `DerivedAssumption`).
* `Orders_proofs`, items. `SentOnce` says how an item that was not given another chance has
  been sent: a job or a document exists only after the callback's statement for it or
  after the submission the callback asked for, the item is then not in client-action, and
  no other submission is at it. OneWaybill alone does not exclude the job that is about
  to start.
* `Orders_proofs`, panel. `CallOK` says what a handler's findings are worth at each statement
  (a page at its snapshot query had an event that is closed by now, so its snapshot is
  there), `ResetOK` that an unbroken link is at one handler and its use is marked or about
  to be.
* `Shop_proofs`. `BuyOK` carries what was read from one statement of a purchase to the
  next; a percentage of an amount, rounded, is no more than the amount (`DiscountIsPart`).
  GalleryOutlivesUpload is inductive because days are checked on the copy that is then
  written as a whole.

Proved and not among the runs' properties: TypeOK of every module with proofs,
FinishedStays, AtMostOnce (which `JobQueue` contains), AssuredIsKept (which `Receipt`
contains), ReceivedLanded, ReceivedRowStays, NothingBeforePayment, WarnedOfTheDate,
DatesOnlyGrow and LinkWorksOnce.

Only model-checked: liveness under fairness (ClaimedEnds, QuietPickup, LandedIsSettled,
BuyerGetsEvent), which the prover does not reach. Every invariant and every action
property of the runs has a theorem.

## 7. What is not modelled

Components without a module are in the plan or have a reason in `PROJECT.json`.
Inside the modelled ones: what an export job does and how long it takes; mails
and wording; what an upgrade costs; extra gigabytes; queries that change nothing
(lists, filters, reports, `PurchaseStatus`, `GetMyOrder`, the products' list, `AdminCheck`);
the guests' gallery and zip, which read and sign; the signing of image and download URLs; the QR codes and covers of albums; `linkHandler`
and `ActivationLink`, which make links anew; signing in and cookies; export zips and
their hourly clean-up; the dry run of the storage cron; a host's own deletion of single
uploads while an event is purged (`UploadReceipt` has it for itself); the uploads of other
events that `adoptForeignUploads` moves; `event_cleanup/retry.go`, which nothing calls;
events without an admin's address, which are not mailed (to `EventCleanup` a mail
that fails); videos' and voice notes'
processing; the order of admins and an account that stands in it twice; several candidates' HEADs are one step; a notification channel holds a
set of rows rather than a list, since the callback ignores the payload. Amazon S3
and PostgreSQL are taken to be strongly consistent, each statement atomic.
`OrderItems`, `OrderPanel` and `Shop` rely on columns and a status that the handlers use and
the SQL in the repository does not create (cart_items.uid, buyer_config, the tracking
columns, and 'shipped', which is not in CART_ITEM_STATUS at
`src/db-shell/misc/create-tables.sql:165`); they follow the handlers.
