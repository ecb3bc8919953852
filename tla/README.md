# mos-sale-crm: TLA+ models and proofs

The repository is a Django/PostgreSQL CRM for telesales teams. Orders come in by
hand or by Excel import; each (team, customer) pair is a *lead*; a lead has a
*caretaker*, a follow-up cycle, contact attempts, appointments and notes; who
takes care of a lead follows from the orders and from the team's policy; import
batches are previewed, resolved, confirmed, committed in chunks and, if need be,
rolled back.

What is hard is not in any one function. Requests run in several web workers, each
in its own transaction at READ COMMITTED, and meet on the same lead rows; pages
carry versions; accounts change while transactions run; a batch commit is *many*
transactions that may fail, die, be retried or be taken back while users keep
editing; uploads of a second kind run in a worker that may be killed; a backfill command
walks the customers while everybody else adds leads. The modules here model that.

## 1. Inventory

All paths are below `src/crm/`. The same list, with the status of each part, is
`components` in `PROJECT.json`.

| component | state | operations | correct when |
|---|---|---|---|
| leads: ownership (`leads/services.py`, `domain/ownership.py`, `domain/access.py`) | `Lead.caretaker`, `routing_state`, `access_user_ids`, `ownership_started_at`, `version`; `OwnershipSegment` rows | `reassign_caretaker`, `apply_order_ownership`, `reconcile_lead_access` | the history tiles and agrees with the row; an order decides under the lock; a disabled account holds nothing |
| leads: order sync (`leads/sync.py`, `leads/recompute.py`, `orders/services.py`) | `Order`, customer rollups, `total_orders`, `last_order_at`, missed-channel counter | order form, add-order, `sync_leads_for_order`, recompute | rollups and counter are what a recompute gives; quantities add up; no request waits for ever |
| leads: lifecycle | `lifecycle_status`, `stopped_reason` | `stop_lead`, `reactivate_lead`, `set_lifecycle` | STOPPED has a reason and no active cycle and is left only by reactivation |
| leads: queues (`leads/selectors.py`, `leads/presenters.py`, `leadui/views.py`) | cursors in links | queue pages, filters, badges | paging shows each lead once; filter and badge agree; the query's scope is the predicate's |
| followcycles | `FollowupCycle`, `ContactAttempt`, `Appointment`, `Note`; `current_cycle_id`, `no_answer_streak`, `next_follow_at`, `latest_note` | open/end cycle, log attempt, book/close appointment, add note | the lead's copies agree with the rows; one active cycle; no lost count |
| importv2: batch | `ImportBatch` row, `RowPlan`, `Conflict`, migration decisions, `JournalEntry`, advisory lock | preview, resolve, confirm, cancel, commit, rollback, admin retry | the status says what is in the database; what is written was approved; a rollback takes back the import's writes and nobody else's |
| importv2: journal, row writes | before and after images, `LeadTracker` | order, customer and lead writes per chunk, undo | every write of the import is attributed to it, and no user's is |
| importv2: planning and merge (`preview.py`, `decision_gate.py`, `domain/order_merge.py`) | plans, conflicts, field provenance, migration decisions | preview, resolve, decide, reopen, commit | the newest file wins, ties are asked, a withdrawn decision is not applied |
| importv2: reading files | none | detect, map, validate | pure parsing |
| accounts | `User.is_active`, roles | deactivate/activate, user form, admin | switching an account off takes its leads away |
| customers | customer rows, denormalised owner | `assign_owner`, find-or-create | `assign_owner` moves all leads and orders or none; the oldest of a phone wins |
| imports (v1) and online_orders | `ImportJob`, staging rows, orders, online orders and lines | upload, worker job, MAIN/DETAIL files, row files, TRACKFLOW webhook | either file first gives the same row; the job's page is true; quantities are those of the rows |
| intake | queue of customers without a team | queue, resolve into a lead | an item is resolved once |
| backfill (`leads/management/commands/backfill_leads.py`) | none of its own | one lead or intake per customer, in chunks | complete, and a rerun adds nothing |
| teams | assignments with dates, `active` | assign, clear, close | intervals do not overlap, the past stands |
| core | none | permission predicates, row scoping, cursors, phone key | two forms of one rule agree |
| followups (legacy), catalog | their rows | save forms | single-row saves |
| matrix, reporting, settings | none | read, render | read-only |

Interactions: an order save (form, import, intake) calls `sync_leads_for_order`,
which for each of the customer's leads, in a savepoint of its own, applies the
ownership rule, refreshes the rollups and opens a cycle. Account deactivation calls the
reconciliation for every lead the account holds. `assign_owner` reassigns every lead of a
customer. The import commit writes orders, customers and leads through the same services, and
journals them. Version 1 uploads, the order form and the second importer find or add customers by
phone in one table; intakes, the second importer and the backfill give those customers leads.
Every lead service starts with `lock_lead`: `SELECT ... FOR UPDATE`, reload, compare
the version the page carried.

The hazards are listed with their lines in `PROJECT.json`: 40 of them, the ones no property
covers with the reason.

## 2. Modules

| module | models | state and actions against the code |
|---|---|---|
| `LeadRow` | the row lock and version of a lead (`lock_lead`) | `lock`, `version`; `Acquire`, `ReleaseAll`, `FormIsCurrent`. Extended by the next two. |
| `LeadOwnership` | every write of ownership, and the account switches | a service is `Begin... / LockLead / Decide / Commit`, or `Fail` at any point; `SkipLead` is the savepoint an order rolls back for one lead; accounts change between any two of these |
| `OwnershipHistory` | what the ownership services promise, with no locks, requests or accounts | one step: a lead changes hands; another: an account's name is taken out of the past |
| `FollowupWork` | cycles, attempts, appointments, notes, lifecycle | `Begin...` is what the view loads before it calls the service, `LockLead` the reload, then one action per service that writes and commits |
| `MissedChannel` | the missed-channel rule | pure operators, used by `OrderSync` |
| `OrderSync` | order form, add-order and `assign_owner` as transactions over one customer's rows | one action per statement that reads, locks or writes: the lock order is in the steps; `SkipLead` is a lead whose sync failed, `AbortVictim` PostgreSQL's deadlock detection |
| `ImportBatch` | the life of one batch | preview, resolve, confirm and cancel are one action each (one transaction under the batch row's lock); commit and rollback are step by step: read the status, save the instance, check the digest, load plans, one action per chunk, one per undo, end; `Crash` anywhere |
| `ImportJournal` | what a chunk writes and journals, and its undo | a row's content is the set of edits it contains; reading, locking and saving a row are separate, users edit in between |
| `ImportRows` | what a row of a file comes to: matching, merging, conflicts, decisions | preview, resolve, confirm and commit are one action each, of several batches over shared customers and orders |
| `LeadQueues` | queue pages | one action per page request, one for a change of a row, one for the clock; the cursor is what a page leaves behind |
| `Access` | permissions and row scope | operators over a user and a lead; used by `LeadQueues`, `ImportRows`, `Desk` |
| `Customers` | the customer table, phone keys, find-or-create | shared by the next two |
| `Uploads` | version 1 jobs and their worker, online files, row files, TRACKFLOW | `TakeJob`, then reading, linking and committing of an online file or a step per row; `JobFails`, `WorkerDies` anywhere; `ApplyTrackflowStatus` at any time the rows are not held |
| `Desk` | intake, importer version 2's leads and intakes, backfill, team assignments | opening a page and posting it are two actions; the backfill is a step per chunk and per customer, `BackfillDies` between any two |
| `Backoffice` | `Uploads` and `Desk` over one customer table | their steps interleave |
| `LeadOwnershipProofs`, `FollowupWorkProofs`, `OrderSyncProofs`, `ImportBatchProofs`, `ImportJournalProofs`, `ImportRowsProofs`, `LeadQueuesProofs`, `BackofficeProofs` | the theorems of section 5 | each extends the module it is about |
| `MC...` | TLC instances and symmetry sets | |

How the code maps to a transaction: the writes of a transaction are not visible
before its commit, so they are collected in `txn[w].writes` (ownership), in `req[w]` (order
sync) or made in the committing action (the others). Reads that happen before the lock
(`BeginCloseCycle`'s cycle, a reconciliation's list of leads, a page's version, an instance loaded by a
view, a chunk's existing leads, an online order read at the start of its file) are actions of their
own, because they are what can be stale.

Time in `LeadOwnership`, `OrderSync` and `LeadQueues` counts half days: an order carries a date
(a Bangkok midnight, even instants), everything else the clock. That is the least in which
"the same day, but before the ownership began" exists, the case that the clamp in
`_apply_caretaker` is for. `Desk` counts microseconds, because `assign_team` does.

### Abstractions worth knowing

* `LATEST_ORDER_WITH_LOCK` acts as `LATEST_ORDER`: nothing in production sets
  `lock_active`.
* In `LeadOwnership`, which statuses make an order count is left to the caller: `BeginOrder` is an
  order that does.
* `BUSY` and the other results reset the streak like `ORDERED`; the waiting
  statuses act as `FOLLOWING`; stop reason `OTHER` acts as `MANUAL_STOP`.
* Replaying an operation key returns the stored result and changes nothing: a
  stutter. `PAUSED_QUOTA` is left out, since no write path raises the quota error.
  Batches that validation blocks never get confirmed and are left out.
* In `ImportBatch` the database content is one contested lead (in chunk 1) and
  which chunks are written; the rows are `ImportJournal`'s, their data `ImportRows`'s. A chunk that
  an earlier attempt wrote is found unchanged and writes nothing.
* `ImportRows` keeps of an order's fields the date, a reference, a column and a part of
  the nested address, which is one of each kind the merge treats differently; status fields and their
  reversals are left out. Two names are similar when they are equal.
* `Uploads` keeps one field that both online files carry, one only MAIN has, and status and
  lines of DETAIL; `import_row` and a bulk write are one step each. There is one worker
  (`compose.yaml`).
* `OrderSync` has one customer, whom the order form finds by phone.
* A lead starts either without a segment (the import creates one like that) or
  with an open, unowned one (intake, backfill): `Init` of `LeadOwnership` takes both.

## 3. Runs

Symmetry sets permute workers, batches, users' edits, and users or leads only where the instance
treats them alike; no run with symmetry checks liveness.

| run | question | bounds |
|---|---|---|
| `own_orders` | orders, reassignments and reconciliations race for one `EXCLUSIVE` lead, accounts are switched and deleted; does it implement `OwnershipHistory` | 2 workers, 2 users, 3 instants (two half days and the next midnight, so an order can be backdated and stale), 2 segments and 3 versions: a lead without a segment moves twice, so a backdated handover meets a segment that began later; 1 account inactive at a time |
| `own_customer` | two `LATEST_ORDER` leads of one customer; `assign_owner` is all or nothing | 2 leads, so it can have moved one and fail on the other; 1 page; 1 account inactive at a time; no reassignment of a single lead without a page (`ScriptedPosts = FALSE`) |
| `work` | attempts, stops, reactivations, orders, cycles, appointments and notes, next to an open page | auto-stop at 2 of 3 rows: the threshold can be reached, passed after a reset, and met after a reactivation; 2 dates in either order |
| `order_sync` | orders and an assignment on one customer with a lead of each policy: rollups, counter, quantities, and does every request end | 2 requests at a time, 3 saves, 2 owners, 2 leads locked in either order: the shortest circle there is |
| `import_life` | one batch of two chunks: everything that can happen to it | 2 workers, 2 chunks (a failure between them), one user edit, one decision revision and one date change |
| `import_journal` | commit, retry, crash and rollback of one batch against users' edits of the same rows | chunks of one group and undo chunks of two entries, so both end between rows of one group; 3 edits, 2 attempts |
| `import_rows` | two batches of files that name the same orders and customers | files of three days about one order, a shared phone, a historical name, an unknown status, an invalid row; 2 changes of decisions or accounts |
| `lead_queues` | one walk through any queue while leads change and midnight passes | 3 leads, pages of one, so every page has a cursor; rows on both sides of each kind of cutoff; one change, one midnight |
| `desk` | uploads, webhook, intake, backfill and teams over one customer table | 3 operations between the two halves, each with all its steps and failures; 2 customers and a third phone, chunks of 2; one online order that three files name; 2 desks, 2 instants |
| `own_race`, `import_cancel`, `import_reopen` | section 4 | as their passing neighbours |

What they show: see the property comments in the modules, each stating the
behaviour it is about. Some properties of a run are conjunctions of named parts, the type invariant
among them, each with a comment of its own: `LeadIsConsistent` (`TypeOK`, `CurrentIsTheActiveCycle`,
`StoppedIsParked`, `NextFollowIsSoonest`, `StreakIsExact`, `SeenIsCurrent`), `BatchIsConsistent` (`TypeOK`,
`StatusTellsTheTruth`, `EffectIsJournalled`), `JournalIsComplete` (`TypeOK`, `ChangesAreJournalled`,
`NothingOfTheBatchIsLeft`), `CopiesAreExact` (`TypeOK`, `RollupsAreExact`, `MissedIsExact`), `FiltersAreTheBadges`
(`AgeFilterIsTheBadge`, `ReviewFilterIsTheBadge`), `UploadsAreTrue` (`CustomersOK`, `UploadsTypeOK`, `LinesAreTheRows`,
`JobsTellTheTruth`), `LeadsAreMadeOnce` (`DeskTypeOK`, `ConvertedOnce`, `OneOpenSegment`) and `TeamChangesHold`
(`PastTeamsStand`, `AloneIsInForce`). In short, on these instances

* the ownership segments of a lead tile its history and agree with the row, even when an order
  is dated before the segment it closes (`SegmentsTile`, `RowMatchesOpenSegment`), and all of it
  implements the abstract history, in which the baseline never moves back (`HistoryIsKept`; that
  much alone is `BaselineNeverMovesBack`);
* an order decides under the lock and what it decided still holds when it
  commits: no second closer on an exclusive lead, nothing moved by a stale order
  (`OrderDecisionStands`, `ExclusiveIsNeverStolen`, `StaleOrderMovesNothing`);
* routing and access follow the caretaker, `assign_owner` leaves no lead and no order behind
  (`RoutingFollowsCaretaker`, `AssignOwnerMovesEveryLead`, `AssignmentReachesEveryOrder`);
* a version identifies the owner and the status a page showed
  (`VersionIdentifiesOwner`, `VersionIdentifiesStatus`);
* the lead's copies of the follow-up rows are exact, a stopped lead is left alone
  by whatever was in flight, history is final, and auto-stop fires exactly at the
  threshold (`work`);
* a lead's rollups and missed-channel counter are those of the customer's orders unless its own
  sync failed, merged orders lose no quantity, and every request ends although locks are taken in
  circles (`order_sync`);
* the batch status tells the truth, what is written was approved, every effect
  is covered by a journal entry, a user's edit survives a rollback and no call writes
  without its turn (`import_life`); an edit is lost only in the window between a chunk's read and
  its lock, no row is deleted under a note, and a rolled-back batch leaves nothing (`import_journal`);
* the newest file wins in whatever order files come, two of one day are asked about, rows kept
  apart stay apart (`import_rows`);
* paging shows each lead once and none to the wrong person, filters select what the badges show
  (`lead_queues`);
* online files converge and their orders belong to the customer with their phone, a MAIN file leaves every status as it is when it lands, quantities are those of the
  recorded rows, the job page is true; an intake is converted once, editors and backfill make one
  lead with one segment, a rerun adds none, team changes leave the past alone (`desk`).

`own_*`, `work` and `order_sync` keep deadlock checking on. The others say
`CHECK_DEADLOCK FALSE`: a `CANCELLED` or `ROLLED_BACK` batch has no way on and a file, page or
operation that is used up is used up; the system really stops there.

### Fairness

Only `OrderSync` states any, for `EveryRequestEnds`: strong fairness of each request's next step
(`Advance`) and weak fairness of `AbortVictim`. A web worker runs its request to the end unless it waits for a row lock;
PostgreSQL queues waiters, so one that is free to go again and again is served; and its deadlock detector runs after
`deadlock_timeout` and aborts one transaction of the circle. Requests need not arrive, fail or skip.
Elsewhere nothing in the code schedules a retry: a failed commit waits for a person, a crashed `COMMITTING`
batch waits for somebody to call commit again, a killed job is not looked for. A "leads to" would be
a statement about people.

## 4. Findings

Three runs expect a violation: what a comment of the code says and the code does not do.

* `own_race` (`InactiveIsStoredAsNobody`). An order reads which accounts are
  active when it decides; a deactivation and its complete reconciliation can happen before it commits. The lead
  ends up with the disabled account, and no reconciliation is left to see it.
* `import_cancel` (`CancelledIsFinal`). `transition` reads the status without the row's
  lock and saves the whole instance; `cancel_batch` holds the row lock, `commit_batch` only
  the advisory lock. A cancel between a retry's read and its save is overwritten.
* `import_reopen` (`ReopenedIsStale`). `resolve_conflict` stores a digest of the live decisions without
  rebuilding the plans. A migration decision reopened after the preview makes the digest stale; resolving any other
  conflict of the batch makes it fit again, and the withdrawn decision is committed.

Also met, without a run of their own (the steps are in the models):

* The user form and the Django admin save `is_active` as an ordinary field, without
  `reconcile_lead_access`; deleting an account in the admin nulls `Lead.caretaker`
  and leaves `routing_state` and `access_user_ids`. `RoutingFollowsCaretaker` and
  `VersionIdentifiesOwner` are therefore checked and proved for `UserDeletion = FALSE`.
* A commit that failed after the chunk which reassigned a lead is refused on every retry as
  `STALE_RESOLUTION`, although only the batch moved the lead.
* `assign_team` moves a change within one microsecond on past the open row, but looks at no closed one: assigning right after
  clearing, in the same microsecond, meets the exclusion constraint (`AloneIsInForce` excepts it).
* A killed worker leaves its job `running` (`JobsTellTheTruth` excepts it).
* A DETAIL row without a status puts back the status it read, over a change of TRACKFLOW's in between.
* A file that repeats the stored value does not renew its provenance, so a file of a day in between
  still overwrites it (`NewestWins` is about files that change the value).

## 5. Proofs

The theorems hold for every value of the constants that meets the named `ASSUME`s, which TLC evaluates
in the runs. Each is what a run checks on its instance; the models and the proofs use the same definitions.

| module | theorem | states |
|---|---|---|
| `LeadOwnershipProofs` | `TypeCorrect`, `HistoryTiles`, `RowIsOpenSegment`, `OrderDecisionsStand` | `Spec => []` `TypeOK`, `SegmentsTile`, `RowMatchesOpenSegment`, `OrderDecisionStands` |
| | `BaselineAdvances`, `ExclusiveIsKept`, `StaleOrdersAreDropped`, `OwnersGetEveryLead` | the action properties, `AssignOwnerMovesEveryLead` among them |
| | `RoutingIsDerived`, `VersionsIdentifyOwners` | `RoutingFollowsCaretaker`, `VersionIdentifiesOwner`, assuming no account is deleted |
| | `HistoryIsImplemented` | `Spec => HistoryIsKept`: the refinement of `OwnershipHistory` |
| `FollowupWorkProofs` | `LeadsAreConsistent`, `VersionsIdentifyStatuses` | `[]LeadIsConsistent` (all six parts), `[]VersionIdentifiesStatus` |
| | `HistoryStays`, `StoppedStays`, `AutoStopIsSure` | `HistoryIsFinal`, `StoppedIsLeftAlone`, `AutoStopFires` |
| `OrderSyncProofs` | `CopiesStayExact`, `QuantitiesAddUp`, `AssignmentsReachAll` | `[]CopiesAreExact`, `[]NoQuantityLost`, `AssignmentReachesEveryOrder` |
| `ImportBatchProofs` | `BatchStaysConsistent`, `OnlyApprovedIsWritten`, `WritesHaveTheirStatus` | `[]BatchIsConsistent`, `[]WritesAreApproved`, `WritesNeedTheirStatus` |
| `ImportJournalProofs` | `JournalStaysComplete`, `UsersEditsStay` | `[]JournalIsComplete`, `[]EditsStay` |
| `ImportRowsProofs` | `RowsStayTyped`, `NewestAlwaysWins` | `[]TypeOK`, `[]NewestWins` |
| | `SameDayIsAlwaysAsked`, `ApartAlwaysStaysApart`, `DecisionsStand` | `SameDayIsAsked`, `ApartStaysApart`, `DecisionsStandAtCommit` |
| `LeadQueuesProofs` | `PagingStaysTyped`, `PagesMissNobody`, `BadgesStayTrue` | `[]TypeOK`, `[]EachIsListedOnce`, `[]FiltersAreTheBadges` |
| | `PagesShowOnlyTheWanted` | `OnlyWantedAreListed` |
| `BackofficeProofs` | `LeadsStayMadeOnce`, `BackfillMissesNobody` | `[]LeadsAreMadeOnce`, `[]BackfillCovers` |
| | `RerunsAddNoLead`, `TeamChangesStand`, `MainKeepsEveryStatus` | `RerunAddsNoLead`, `TeamChangesHold`, `MainKeepsStatus` |
| | `UploadsStayTrue`, `FilesAlwaysConverge` | `[]UploadsAreTrue` (all four parts), `[]FilesConverge` |

All have one layout. An inductive invariant (`IInv`; for uploads `LInv` and `CInv`, but for the parts that range over every sequence) is checked
by TLC on the run's instance first; a lemma per action shows that it is preserved, over a frame lemma
that says what one request, lead or row has to do with the others; the theorem joins them, and
the action properties follow from the invariant and one step.

### Ownership

`TypeOK`, `SegmentsTile`, `RowMatchesOpenSegment` and `OrderDecisionStands` are not inductive alone,
because a commit is only as good as what the transaction carries:

* `OrdersHaveTime`: an order's transaction carries an instant, so the segment it
  opens has a start;
* `DecidedUnderLock`: a lead with a pending write, or being decided, is locked by that
  transaction. This is what keeps anyone else from moving the lead between decision and
  commit;
* `DecidedOnce`: a lead is waiting, being decided or decided, never two of these, so a decision is
  not overwritten.

Three lemmas carry the data: `BoundaryIsClamped` (the instant of a handover is never
before the segment it closes), `OpenIsLast` and `HandoverTiles`
(handing over a tiling history at a clamped instant gives one).

The refinement maps the row to the present (`holder`, `since`) and all segments but the last to
the past. Initial states map to initial states; only `Commit` and `DeleteUser` change what is mapped. A commit is a
step of the history because the row is the open segment (`RowMatchesOpenSegment`): what the
handover appends to the past is the ownership the row showed; and its instant is clamped.

### Follow-up work

To the properties `IInv` adds `CallsAreSound`: what a call carries is what its form may carry, and the
cycle or appointment it names is a row of its lead. Rows are only added, so a name read before the lock
still names a row under it. `SeenIsCurrent` (what a call saw under the lock is still so) is inductive
because only the holder of the lock writes a lead. The lemmas about the data say what `_refresh_next_follow_at`, the trailing count,
`open_cycle`, `end_cycle` and `stop_lead` make of a lead's rows, each for sequences of any length.

### Order sync

A request is sound (`RequestIsSound`) when its steps come in order and it has visited, or is about to visit, every
lead; it holds the rows it has written; what it writes into is as it was read; and what it
has written for a lead is exact for the orders *as they will be when it commits* (`Seen`). The last is the point: between
its first lead and its commit a save computes with an order nobody else sees. It stays right
because a save holds the customer's row from the first lead on, so no other save commits in between, and
`MergesApart`: no two saves merge into one order. `NoQuantityLost` needs that, too.

### Import batch

`IInv` says which steps a call goes through (`StepSound`) and that a call under the
advisory lock is the only one (`lock = w`), that the batch's status is the one its last transition wrote, and that the
chunks before `next` are written (`HoldSound`). `Fits`, that what is staged is what was approved, holds from
the confirmation on; it is why a commit that waited cannot write something newer. `JournalIsSound` is what a rollback can take back.

### Import journal

What has to be carried is what the running transaction has read: `ReadsAreSound` says that a
content read before the lock is the row as it is, but for the edits counted in `raced` and the
group's own write. `Chained` says that what an entry restores came with older entries, so undoing from the
newest back (`UndoIsSound`) takes a group from a row only with the entry that brought it; without it, a
row restored to a before image could bring a group back that no entry is left for. `Sound` keeps users' edits in every
row and in the transaction's view of it.

### Import rows

`NewestWins` speaks of values alone, but what a patch does to a field depends on the date the field
bears. `HoldsNewest` says both: as long as the patches merged into an order tell different things on different
days, a field has value and date of the newest that says anything, or is undated as it started; `NewestIsHeld` is the
step. A commit writes row after row (`CommitIsWritten`, `Written` being defined from row to row), each into the world the
rows before left, which may have a customer the plan did not know of; `IsWritten` says what one row does, and the
action properties follow it through the rows: `ApartAlwaysStaysApart` from the row's own world on
(`Extends`: customers stay, and orders stay whose they are), `SameDayIsAlwaysAsked` over all of them.
What a plan carries from its preview to a commit much later is `PlanOK`: the customer it names is still there,
because customers are never taken away, and a match under review is answered `AUTO_MATCH` only if it has a candidate. `PlannedOnSettled` is
why `DecisionsStand` needs "nothing was asked": a row under an unsettled decision has a `mapping` conflict, so a
batch without conflicts was planned under settled ones; that is lost when a resolution renews the digest.

### Queues

A walk is sound (`WalkIsSound`) when, of the leads left alone, those it has listed are behind the cursor and those that
belonged to the queue at every page so far and are not listed are ahead of it. That a page keeps this
(`PageKeepsSound`) rests on two facts. The keyset predicate `Ahead` is the order of `ORDER BY` read backwards, nulls
and descending columns included (`BeforeIsFirstColumn`), and that order is total on leads, whose keys end in their
id (`KeysAreOrdered`, `LeadsHaveKeys`). And a cursor keeps its place (`CursorKeepsItsPlace`): the keys of a lead left alone are
those of the instant the cursor came from, because the work priority, the only column that depends on
the day, is computed at that instant. The invariant also counts: rows listed and leads ahead together are at most `Leads` and
one more for each change. That a sorted page exists is proved (`ListingExists`), not assumed.

`FilterIsWanted` needs no invariant: for whoever `MayUse` the page, scope and filters of the query admit exactly the rows
that the permission predicate and the badges do. The age presets partition the days (`PresetsPartition`) and the instants cut
where the days do (`CutoffsSelectAges`).

### Backoffice

For the desk, `LeadsAreSound` is stated with a `Grow` order on leads and intakes: nobody takes any away, so what a desk,
a row or the backfill knows of them stays. `RunIsSound` says that the backfill has served
everybody up to its position, or has them queued for the end of the chunk, and that who had a lead when the run
began and is in the chunk was found there. `DesksAreSound` is about two desks: one that has met nobody
knows the open assignment; one that saves has locked it, so no other closes it. Instants of
changes need that the clock never goes back and that a save ends the open row later than it began.

For uploads, `OnlineIsWhole` says that every online order has all columns and that, while a file is read, only what
TRACKFLOW writes can differ between an order and what the worker has read of it: nobody but the worker writes the rest. `MainKeepsStatus` and
the commit of either file (`MainIsCommitted`, `DetailIsCommitted`) rest on it. `JInv` says for each job what it has
recorded so far, next to what the worker is about. `Tables` adds what one table says of another: an order's customer is
there, a staged row names a sale there is, and customers only come, with phones that stay (`Extends`), so the table the worker
looked in before it made customers still tells the truth.

`LInv` adds the lines. A line exists exactly when a recorded row is about it, and is the sum of what these rows add
(`LineHolds`); a merged row adds to one line and leaves the rest (`LineGrows`, `LineStays`). The sum is a recursive function; that it
is defined, and that equal addends have equal sums, is `SumsRecur` and `SumsAgree`.

`CInv` adds that each order is what the landed files come to. Nothing else is needed, because both rules have a closed form:
filling a blank after overwriting is overwriting after filling a blank (`MainConverges`), overwriting twice is overwriting by what
the second overwrites (`DetailConverges`), and the first and the last word of a list grow with it (`SaidGrows`). An order no
file named is `NewOrder`, for which the same holds (`AbsentIsUnnamed`).

### Assumptions on the constants

Besides types and bounds: `SomeLead` (there is a lead to work on), `NullsAreNoValues`, `AbsentIsNoContent`, `BlankIsNull`,
`NoEditIsNoRow`, `NullsAreNull` (a null is none of the values it stands next to), `EditsAreNoGroups`
(users' and the import's writes are told apart), `StaffHaveIds` (user ids are unique), `ExistingFit` (the customers
there are at first are customer rows), `FilesAreWorkbooks`, `SheetsAreSequences` (a file's sheet is a finite list of rows,
whose phones, dates and quantities have their types),
`CountsAreNat` (an order can be saved at all), `PagesAreNotEmpty` (a page has a row),
`BlankIsNoNumber` (a missing date is no date), `SharedPhoneIsAPhone`, `FilesAreFiles` and `SeedsAreUnstamped` (a file is a finite list
of rows, and only imports date fields),
`RowsAreRows` and `RequestsAreQueries` (rows and queries are what the model and the form of the queue define).

### Only model-checked

* Liveness (`EveryRequestEnds`) and `ENABLED`: out of the prover's reach.

Every other property of a passing run is a theorem.

Induction over natural numbers was needed in a few places (a least element, the soonest appointment,
the longest run of results, a chunk's last position, sums); it is done there by the least counterexample (`NatLessThanWellFounded`
with `WFMin`), which takes no operator. `RECURSIVE` operators are used in no module of this project.

## 6. Not modelled, and why

* Reading files (`importv2/services/upload.py`, `domain/mapping.py`, `domain/tele_date.py`, header and cell parsing of the older
  importer): pure parsing; the models start from the rows.
* `restage_batch`: it cancels and creates another batch; operation keys, whose replay changes nothing.
* Status transitions and reversals of an imported order, an order's lines in the second importer:
  classification tables without coordination.
* Permission checks before the lock in `leads/views.py`: what a request may do is decided on the lead as loaded, and no document promises more.
* `Lead.version` restored by a rollback, which can fit a page opened before: a hazard without a property, planned.
* Owner-conflict lookup over other customers in the order form, creation of the customer there.
* Legacy follow-up markers, catalogue, `assign_url`: single-row saves.
* Reports, matrix, statistics, search, page layout, settings: they only read.

## 7. Plan

In this order; each step is a module, its proofs, or a property with its mutant.

1. Pages and rollback of one lead together (`Lead.version` restored).
2. Status transitions of an imported order, with reversals, in `ImportRows`.
