# Fantasy Command Center: TLA+ models and proofs

Fantasy Command Center drafts and manages one fantasy football team: a Streamlit
dashboard and a command line (`fcc`) over one database, and season jobs that
GitHub Actions runs on a schedule. This directory holds models of the parts of it
whose correctness depends on order, failure, time or an exact algorithm, the TLC
runs that check them on small instances, and TLAPS proofs for every instance.

Paths below are those of the repository (`src/draft/live.py` is the live draft).
`PROJECT.json` maps every definition to the lines it models.

    tlc -workers 2 -config MCDraftSolo.cfg MCDraftTracker     # one run
    tlapm DraftProofs.tla                                     # one set of proofs

## 1. Inventory

M: modelled; P: partly; -: not modelled (`PROJECT.json` says what is left out of each,
section 6 why).

| Component | State it keeps | Operations | Interacts with | What must be right |
|---|---|---|---|---|
| P Live draft tracker `src/draft/live.py` | `state.picks` in memory, `draft_picks`, `last_sync_ok` | open, record_pick, skip_to, undo_last, reset, sync_from_yahoo | dashboard, CLI, Yahoo client, shared connection | memory and table agree; a player repeats only across sources; a correction is atomic; placeholders claim nobody; a green sync is true; syncing ends at Yahoo's draft |
| P Draft order `live.py`, `src/draft/survival.py` | none | slot of a pick; picks of a slot; next pick | tracker, recommender | the two computations of the snake are inverse |
| P Dashboard draft page `dashboard.py` | pick box, `_fcc_pick_applied`, resume flag | the controls of the draft, reruns | tracker | a rerun repeats nothing; a number nobody set is not obeyed; "Gone" is never mine |
| P Database connection `src/storage.py` | one connection per process, pending statements | execute, commit, rollback, reconnect, two dialects | everything | what a lost connection or a refused statement takes with it |
| M Schema migrations `src/schema.py`, `src/migrations/` | `schema_version`, the tables | init_db, apply, enforce_rls | every start | a stamped version is true; a start that died is finished by the next; nobody works on an old schema |
| P Database helpers `src/db.py` | snapshots, cache, job_runs | snapshot_put, cache_get, record_job_run | everything | a row written last commits what was pending |
| P Manual roster `src/manual_roster.py`, wire `src/manual_wire.py` | `my_roster` | save_roster | connection, lineup job | a week's roster is one whole paste |
| M Yahoo purge `src/compliance.py` | Yahoo's rows | purge_yahoo | connection | a purge that commits left nothing |
| M Copy between databases `src/migrate.py` | rows of two databases | copy_table, row_is_allowed | hosted jobs | a second run tops up; each row of ours once, none of Yahoo's |
| P Injury monitor `src/season/injuries.py`, `src/sources/sleeper.py` | `injuries`, baseline in `snapshots` | sync_injuries, current_statuses, run, commit | notifier, job runner | every change is told before the baseline passes it; none stays pending |
| M Notifier `src/notify.py` | `recommendations`, keyed by `dedup_key` | already_sent, ever_sent, send, record | three channels, all jobs | the same fact is not told twice in the window; nothing is consumed untold |
| P Job runner `src/cli.py` | exit code, `job_runs` row | main, cmd_job, catch_up, announce_yahoo_scope, doctor, sync | everything | the order report, deliver, record, commit |
| P Schedule `src/schedule.py`, `.github/workflows/jobs.yml` | `job_runs`, GitHub's queue of one | due_on, overdue, job_for_cron, workflow steps | GitHub, job runner | what was due and did not happen is found and told |
| P Data sources `src/sources/` | `source_cache`, projections | get_json with retries and fallback, the legs of a sync | sync | an old answer is flagged; the blend is made of the rows beside it |
| P Yahoo client `src/yahoo_client.py`, `src/yahoo_snapshot.py` | memo of answers, tokens | gates, fetches, collect_league | tracker, jobs | one league per run; my own roster or an error; notes about the gates are true |
| M Identity map `src/idmap.py` | `players`, `player_id_map`, a run's memory | upsert_players, record_mappings, resolve | every source | an id Sleeper vouched for leads to its owner |
| P Lineup solver and job `src/lineup_solver.py`, `src/season/lineup.py` | none | best_lineup; starters, locks, swaps | notifier, all advice | legal, optimal, adds up; every swap possible and wanted |
| P Season advice `src/season/` | none but what was mailed | waivers, trades, offers, byes, streamers, recap, reminders | lineup solver, notifier | whom to claim, drop, offer, stream, blame; a reminder comes on its day |
| P Analytics `src/analytics/` | none | bids, grading of sources | waivers, sync | a bid in its bounds; no source graded on the week it predicts |
| P Value, projections, scoring `src/vorp.py`, `src/projections.py`, `src/scoring.py` | none | replacement levels, tiers, blend, scoring rules | draft board | the replacement is the first man off the bench; one bracket per number |
| - Recommender, mock draft `src/draft/recommender.py`, `mockdraft.py` | none | floating-point scores | dashboard | |
| - Season pages, rendering, e-mail, configuration, login, development tools | files | reading, printing | - | |

The behaviours that are hard, and that the models are for: several browser
sessions share one database connection, so one session's commit commits another's
half-done correction; a lost connection takes pending statements with it and only
the failing one is retried; a process dies between telling and recording, or between
two migrations, while another starts; GitHub delivers a cron hours late or never;
a message is suppressed as a duplicate of one sent too late; sources fail, go stale
and change while they are read; one memo serves every job of a process; and the
advice is computed in passes (sort, cut, fill, walk back) whose edges are ties,
byes, locks and empty slots. `PROJECT.json` lists them as hazards, each at its line.

## 2. The modules

    DraftOrder --- DraftSheet                  abstract: the sheet of picks
        |  |           :  (refined by)
        |  +------ DraftTracker --- MCDraftTracker, DraftProofs
        +--------- DraftPage ------------------------------------.
    Database - Session -+- SchemaUpgrade - YahooPurge -.         |
                        +- RosterStore ----------------+- Storage -+- MCStorage,
                                         CopyTables ---------------'  StorageProofs
    SourceCache, ProjectionSync, Identity, YahooAccess --.       |
        |  (SourcesProofs)                     MCSources-+       |
    LeagueFetch (LeagueFetchProofs) ---------------------'       |
    AlertPipeline --- MCAlertPipeline, AlertPipelineProofs - Reminders
    JobSchedule ----- MCJobSchedule, JobScheduleProofs           |
    LeagueSlots - Advice -+- WaiverAdvice, TradeAdvice - MarketAdvice -.
         :                |- LineupAdvice, CalendarAdvice, RecapAdvice -+- AdviceProofs
         :                |                             DraftPage ------+- MCAdvice
         :                '- BidAdvice, DraftValue, Scoring, Reminders -'
    LineupSolver --- MCLineupSolver, LineupSolverProofs

**DraftOrder** holds what a board is: picks, entries, the snake order computed both
from a pick (`live.py`) and from a slot (`survival.py`), next pick, rosters, and the
earlier picks a correction clears. A team key is a number: `"1"`..`"n"` are draft
slots, `0` is the `"?"` of the board, and Yahoo's own keys are n+1..2n, because
they are different strings and the code compares strings. **DraftSheet** is the
abstract specification: one sheet that changes by whole operations only.

**DraftTracker** is the class of that name. `mem` is each tracker's `state.picks`, `rows`
the table as the shared connection sees it, `disk` what is committed. Every operation
runs up to its call of `_store`, and `Store` is the upsert and commit: between the two
another session, a lost connection, a failed write or the death of the process may
come. `skip_to` and `sync_from_yahoo` are loops, one action per turn.

**DraftPage** is one event of `draft_view` per action (a tap, a change of the box, a new
session), each a whole rerun of the page. `box` is what the keyed number input holds,
`value` what the page last passed it; whether Streamlit keeps the number when `value`
changes depends on its release, so `keeps` is either. Its draft is DraftOrder's board;
the faults of the writes are DraftTracker's.

**AlertPipeline** follows a status from Sleeper's feed to a message, in the order
`cmd_job` runs the steps, with a death possible between any two. `inbox` and
`repeats` are history. **JobSchedule** is the clock (half hours, UTC), GitHub's late or
dropped crons and its queue of one, the steps of a workflow run with their `job_runs`
rows, `catch_up`, failures, lost rows, the time limit, and a person who stops a job.

**Database** says what `src/storage.py` promises: the stored facts, and for each client
what it has written and not committed. Postgres rolls a refused statement's
transaction back, and reopens a lost connection to retry one statement; SQLite keeps
the transaction open after an error and lets one writer in. **Session** is a process
on it: `main` (connect, one handler, the row of `job_runs`, close) or the dashboard
with its one connection for every page. **SchemaUpgrade** is `init_db`: the template,
the read of the version, the baseline, each script and its stamp, `enforce_rls`, one
statement at a time. **RosterStore** is `save_roster`, **YahooPurge** is `purge_yahoo`,
and **Storage** composes them: any number of clients connecting, upgrading, saving,
purging, dying and losing their connection on one database. **CopyTables** is
`fcc migrate` while the hosted jobs go on recording runs.

**SourceCache** is `get_json`: fresh cache, retries, and any cached payload when all fail.
**YahooAccess** is Yahoo's gates and what each runner notes, mails and diagnoses.
**LeagueFetch** is one process' memo and the snapshot each of its jobs is given:
live, typed in, or an exception. **ProjectionSync** is `cmd_sync`'s legs, which store,
blend, back-fill and blend again, each of which may raise. **Identity** is the players
table, the recorded ids and the guesses of a run.

**Advice** says what a job is: it is handed a case and reports. `BestLineups` there is the
relation LineupSolver is checked and proved to compute, so the jobs need not run its
table. **LineupAdvice**, **WaiverAdvice**, **TradeAdvice** (**MarketAdvice** is these two),
**CalendarAdvice** (byes and streamers), **RecapAdvice**, **BidAdvice**, **DraftValue** and
**Scoring** are the jobs' rules over integers, each with the reference it is compared
with. Where the code's answer hangs on an order it does not fix (equals under `ORDER BY`,
ties between lineups, the iteration of a set), a job may give any of the answers
(`Orders`, `BestLineups`); `Is...Case` says what a job can be handed. **Reminders** is the
season's deadlines against a run that comes late or not at all and a notifier that
suppresses what it sent within 72 hours.

**LineupSolver** is `best_lineup` step by step: the sort and cut, the table extended
candidate by candidate, the choice of the best mask, and the way back. A bit mask
is the set of its bits; `worth` is history.

## 3. The runs

| Run | Configuration | Question | States |
|---|---|---|---|
| `draft_solo` | MCDraftSolo | One tracker, Yahoo on, one death: type; repeats only mix a typed and a copied pick; memory is the table; skip claims nobody; the committed table implements DraftSheet | 125 k |
| `draft_shared` | MCDraftShared | Two sessions on one connection, one death, one lost connection or failed write: a green sync is true; syncing ends at Yahoo's draft | 139 k |
| `alerts` | MCAlerts | One runner, e-mail and desktop: nothing passes untold; repeats need a crash; the baseline catches up | 221 k |
| `jobs` | MCJobs | Thursday to Sunday with two faults: a green catch-up covered its day; only a late mail silences a lineup | 1.5 M |
| `lineup` | MCLineup | Every roster of up to four in five leagues: legal, adds up, optimal | 156 k |
| `storage` | MCStorage | A command and the dashboard, both dialects, four starting databases, one fault: versions true, handlers on the current schema, whole rosters, complete purges, the hosted database ends current; a copy cut short tops up, each row of ours once | 740 k |
| `sources` | MCSources | Cache flags, Yahoo's gates, one league per run, the typed roster only at a refusal, the whole wire, a sound blend, vouched ids | 555 k |
| `advice` | MCAdvice | Every advice job on the cases where its rules meet; the draft page; a season's end of reminders | 75 k |
| `draft_roster` | MCDraftRoster | A copied pick is on its slot's roster | violated |
| `alerts_recovery` | MCAlertsRecovery | A recovery is a change too | violated |
| `identity_join` | MCIdentityJoin | Yahoo's player is joined to the row the sources fill | violated |
| `page_phantom` | MCDraftPage | Only a number a person changed to move the draft moves it | violated |

The violated runs check what a comment or the README of the repository says;
section 5 says what each shows. `storage`, `sources` and `advice` each hold several
modules that share no state: a behaviour is of one of them (`part`), so the run is their
union and not their product.

Bounds, and why they are enough:

- Draft: two teams and three picks reach the second round, where the snake turns, and
  an undo, a correction and a skip over it; three players, one of whom has no key of
  ours; three hand operations, enough for a pick, a correction and an undo around a
  sync. With two sessions the board is two picks: what they can do to each other is
  lose or commit one pending correction, which needs two. Players with keys are
  interchangeable; the symmetry is used in `draft_solo` and `draft_roster`, never where
  liveness is checked. The page (in `advice`) has two players and four picks, three of
  them recorded, so that a box can lie ahead of, at and behind the draft.
- Alerts: one player with two tags and two changes shows a change, its reversal and a
  repetition; the clock has one tick and the window is one, so each message is once
  inside and once outside the window. One death may come anywhere.
- Jobs: the moments of a day are half hours chosen around the lines that matter
  (Thursday 14:00 and Sunday 14:30 lineups, injuries at 12:00) and one after them; the
  window is the real 72 hours. Two faults allow a failing job and a lost row, or a
  kill and a stopped job. GitHub delivers the crons named in the `.cfg`; every other
  line reaches a run only through catch-up, which is the path of interest.
- Lineup: six kinds of player (two values of one position, a tie, a negative score, a
  double position, a defence) in every list of up to four, and five leagues including
  none, overlapping flex and superflex slots; with `MinCandidates` 3 the cut is real.
- Storage: two processes are what it takes to meet each other's half-done upgrade, and
  the dashboard's shared connection is one of them; one fault may fall between any two
  statements, which is where all of them differ; the databases are empty, from before
  the version table, one migration behind, and current. A table stands for each group
  that a migration creates or drops together. The pastes are two good ones without a
  common player and one that names a player twice. Two copies (the second finds what the first left), three
  hosted runs, one row of ours and one of Yahoo's per kind of table.
- Sources: two callers and two versions of a payload within two hours; two runners, one
  of which never has a token; two teams, a wire of three read in pages of two, three
  jobs over two weeks and one claim at any point between two calls; two weeks of
  projections, three sources on or off, weights for all or for one; two people who
  change position, learn ids and have similar names, over two runs.
- Advice: each job is run on the product of the values that make its rules meet (about
  three thousand cases): ties, empty rosters, a full roster, byes, locks, injured and
  unknown players, negative points, equals on the wire, a duplicate in an offer. TLC
  checks that each is a case the proofs are about (`CasesAreCases`). Reminders run from week 13
  with runs on time, six hours late, or dropped, until the playoffs.

Deadlock is checked everywhere except in `jobs`, whose clock ends at `Horizon`, and in
`advice`, where a job ends with its report and the season with its last reminder.

Fairness is assumed in `draft_shared`, `alerts` and `storage`, where liveness is checked.
Draft: an open page runs its script again, and the script finishes what it began (weak
fairness of `Open` and `Carry`); Yahoo answers again and again when asked again and
again (strong fairness of `SyncFetch`: each page run asks anew, `dashboard.py`). Alerts:
each day has another sync and another injury run (strong fairness, the daily cron and
catch-up), a run that began ends, and a mail server that is asked again and again works
now and then. Storage: a process that runs goes on to its next statement, and a
command is started again and ends (weak fairness, the daily jobs); the dashboard is
under no obligation to be opened. Nowhere is there fairness on people, crashes or
faults, whose number is bounded.

## 4. What is proved

All theorems are about every value of the constants that the named assumptions
(`DraftAssumption`, `TrackerAssumption`, `AlertAssumption`, `ScheduleAssumption`,
`LineupAssumption`, `StartingAssumption`, `PastesAssumption`, `LaptopAssumption`,
`RosterAssumption`, `PageAssumption`, `WireAssumption`, `AgeAssumption`,
`ProjectionSyncAssumption`, `LivesAssumption`, `RemindersAssumption`, `HorizonAssumption`,
`TopNAssumption`, `NobodyAssumption`) allow; TLC
evaluates each of them on the values of its runs. They say what a constant is, and of
the databases and files a run starts from, that the program left them so. The theorems
about the advice are about every case of `IsLineupCase`, `IsRecapCase`, `IsByeCase`,
`IsStreamCase`, `IsWaiverCase`, `IsScoutCase` and `IsOfferCase`: finitely many players with
whole points, a list of slots, a waiver margin of at least one (25 as configured; at
zero a claim that gains nothing would be made and bid at nothing), and what the store and
the snapshot guarantee: a free agent is on nobody's roster, and a roster of the scout's
lists nobody twice.
What a theorem assumes beyond them is in its statement and in this table.

| Theorem | Says |
|---|---|
| `DraftProofs!PickIsOfItsSlot`, `SlotOwnsItsPicks`, `NextPickIsNext` | the two computations of the snake order agree, for every league and pick; the next pick of one is the first the other assigns |
| `DraftProofs!TypeCorrect` | type invariant, any number of sessions, deaths, faults |
| `DraftProofs!RepeatsOnlyMixSources`, `OnePlayerOnePickByHand`, `MemoryStaysStored` | with one tracker and a healthy database: repeats only mix a typed and a copied pick; none at all without Yahoo; memory is the committed table between operations |
| `DraftProofs!TrackerImplementsSheet`, `SkipsClaimNobody` | under the same assumptions `Spec` implements `DraftSheet`; no turn of a skip changes who is drafted, and it ends at its target |
| `DraftProofs!GreenMeansItIsCopied` | any number of sessions on one connection, deaths and lost connections: a sync that turns green holds in memory each result it fetched |
| `AdviceProofs!PageIsAlwaysSound` | any league, board and release of Streamlit: picks are skipped only for a number a person set; "Gone" takes nobody off my roster |
| `AlertPipelineProofs!TypeCorrect` | type invariant, any number of runners |
| `AlertPipelineProofs!NothingPassesUntoldSolo` | with one runner, e-mail on and the roster in every run, nothing passes untold |
| `AlertPipelineProofs!RepeatsAlwaysNeedCrashes` | with one runner: a channel is told a fact again within the window at most as often as a run died |
| `AlertPipelineProofs!DeadlinesAreToldThatDay` | any hours, lateness and dates, and a dedup window shorter than a week less a morning (it is 72 hours): what a run has to say of waivers, the Thursday lock or the lineup has been mailed that day |
| `JobScheduleProofs!TypeCorrect`, `GreenIsCovered` | type invariant; a green catch-up covered its day, for every clock, queue and number of faults |
| `JobScheduleProofs!OnlyLateLineupsSilence` | if a day's runs end on their day and the window is three days at most: only a lineup of the same day, or one mailed late, silences a lineup |
| `LineupSolverProofs!TypeCorrect`, `LineupIsLegalAndAddsUp`, `LineupIsTheBest` | for every roster and league: legal, adds up, optimal among the candidates |
| `AdviceProofs!SwapsCanAlwaysBeMade`, `LineupIsAlwaysSound` | any roster, slots and risk mode: the lineup job's swaps can be followed in order. Of a roster legal as it is set: whoever cannot play is taken out when a full lineup can be had, the lineup fits beside the locked starters, and in neutral mode it is never worth less than the one set |
| `AdviceProofs!RecapIsAlwaysSound` | any roster, slots and scores, in whatever order starters are displaced: each mistake of a legal lineup was one, nobody is blamed or benched twice, and a full lineup without a mistake lost nothing |
| `AdviceProofs!CalendarIsAlwaysSound` | any roster, wire, calendar and horizon: a covered week can be fielded, a gap cannot, each suggestion fills one slot more; my streamer is ranked in the whole field and called the best only if he is |
| `AdviceProofs!MarketIsAlwaysSound` | any roster, wire, budget and margin: no claim empties a position's own slots, no player is dropped twice, each bid brackets within the budget; every trade proposed helps both sides and takes nobody's best player; an offer is taken only if it can happen and makes the lineup better |
| `StorageProofs!VersionsAreTrue`, `HandlersFindTheSchema` | any number of processes, any starting databases, pastes and faults, both dialects: a stamped version is true, and no handler runs on an old schema |
| `StorageProofs!RosterIsAlwaysWhole`, `PurgeIsAlwaysComplete` | under the same: unless a transaction was cut in two (or two saves overlapped on Postgres) the stored roster is one whole paste or none, and a purge that commits left nothing of Yahoo's |
| `StorageProofs!CopyAlwaysTopsUp`, `CopyIsOnlyOursOnce` | any laptop's file, any number of copies cut short, jobs writing meanwhile: a finished copy has every row that may cross and lost none; nothing of Yahoo's crosses, no row twice |
| `SourcesProofs!OldIsAlwaysFlagged` | any callers, attempts and failures: a result past its lifetime is marked stale |
| `SourcesProofs!NotesAreAlwaysTrue`, `DoctorIsAlwaysRight` | any runners, any order of Yahoo's gates: nothing is announced before it has happened; `fcc doctor` names the gate that refused |
| `SourcesProofs!SyncIsAlwaysSound` | a season of any length, any failing legs: the blend is of exactly what is stored, no source graded on the week it is blended for |
| `SourcesProofs!VouchedIdsAlwaysResolve` | any people, dumps, guesses and failed runs: an id Sleeper vouched for is its player's, in the store, on disk and in the run, unless overridden |
| `LeagueFetchProofs!OneLeague`, `OwnRoster`, `ManualAtTheGate` | any league, jobs and claims: one roster per team and week in a process; a live league has the manager's players unless Yahoo said so; the typed roster only at a refusal |
| `LeagueFetchProofs!WireIsAlwaysWhole` | pages of any size, nobody moving: the wire a job reads is Yahoo's from its first player as far as asked, or empty because a page failed |

The arguments:

- *Draft.* The properties are not inductive: in the middle of a correction the table
  already lacks the earlier pick. `OneWriter` says that memory, table and commit
  differ only while an entry is being stored (`Storable`), and then by exactly that
  entry and the picks it clears; that copied picks are Yahoo's; and that repeats
  mix sources. Each action has a lemma. The refinement maps `Store`, `UndoLast` and
  `Reset` to a sheet step, all else to a stutter. `NextPickIsNext` needs no induction:
  the earliest later pick is in the round the draft has reached or in the next. A skip
  goes from next pick to next pick below its target (`SkipInv`), which memory that is the
  table makes the table's too. A green sync needs no such thing: `SyncInv` says that the
  memory of a tracker in its loop holds the results up to its place, and nobody else
  writes it, so sessions, deaths and lost connections are all allowed.
- *Draft page.* `PageInv`: a page nobody typed into is `Calm`: no run of it would skip
  picks whatever becomes of the board, because its box holds the number last applied,
  follows the draft, or is at the first pick. Both answers of `keeps` preserve it.
- *Alerts.* `HonestInv`: a logged fact reached somebody; a run about to commit told,
  or found told, exactly the difference between the baseline and what it will store.
  Repeats are counted, not excluded: `CountInv` says that repeats so far plus the facts a
  channel was told and no row records (`Lost`) are at most the crashes; a repeat uses up
  a lost fact, and only a crash makes one.
- *Reminders.* Whatever a message says was in season at the hour it was built
  (`RemindersInv`), and two hours of one deadline that lie within the window are hours of
  one day. Who leads a message and in what order it is read do not matter for that.
- *Jobs.* `CatchUpInv`: every line due when catch-up began is still missing, among its
  failures, or carried through or stopped since its time, and a row that counts is
  never newer than the history. For the lineups: a workflow run starts and ends on the
  day of its cron (`OnTheirDay`), so a lineup is mailed only on a day that has a lineup
  line and after its time (`LineupsOnTheirDay`); two such days lie so far apart that a
  mail sent by its time is outside the window when the next is due. That needs the
  lateness and two time limits to end before midnight, which the theorem states.
- *Lineup.* `SolverInv`: each table follows from the one before by its steps
  (`Explains`), is at least as good as any legal lineup of the candidates seen
  (`Covers`), and on the way back what is assigned and what is left of the mask make
  up the best value. `worth` is additive (`Additive`).
- *Lineup job.* A report is one the job can give of its case (`LineupIsAnswered`; the
  other jobs likewise), so the theorem is about the definitions. The walk that makes the
  swaps is a function of the slots done, and `SwapsWalk` says what holds at its end: who
  came in is wanted and was not starting, who went out started and is not wanted, and
  nobody is moved twice. That the lineup is never worse needs two facts about sets: a sum over a finite set is additive (`TotalAdds`, from
  which `TotalUnion`, `TotalGrows` and `TotalCompares` follow), and whoever can be placed
  together is worth no more than the best of the fullest lineups (`BestIsBest`, by the
  lineup that agrees most with that placement). In neutral mode `effective` is twice
  the points, so the best for the job is the best in points (`TotalScales`).
- *Recap.* Of a full lineup each of the first n slots can be given a starter of its name,
  another for each, so that whoever was displaced is given to one (`MatchGrows`); while
  no mistake is found he scored no less than the best lineup's player of that slot, so at
  the end nothing was lost.
- *Calendar.* A slot the fullest lineup leaves empty takes one player more, and no lineup
  has more than that (`FullestTakesAll`, `FixesDoFill`). Who projects more than a streamer
  stands before him in any order by points, so they are fewer than his rank (`FewAreBetter`).
- *Market.* `ClaimsMade` is a walk along the wire: each claim drops somebody not used and
  not protected, or nobody (`ClaimsAreMade`), and sorting and cutting only rename places
  (`ClaimsAreSound`). Rounding keeps its order, so the numbers of a bid do (`BidBrackets`).
  The job's rosters are lists: a lineup of places is worth what the players at them are
  (`LineupsMove`, `TotalMoves`), which makes a trade's gain a gain of lineups, and an
  offer's verdict one about sets of players. A candidate is not the first of a stable sort,
  so somebody else is at least as good as he (`CandidatesAre`).
- *Storage.* `StorageInv`. The schema only moves forward: tables in use are never
  dropped, retired ones never come back, so what a process has read stays true
  whatever the others do. `FactsAreSane` is what is committed: every stamp is true, and
  a database without players has no older tables. `ConnIsSane` is what a connection has
  pending: stamps that are already true, security on tables that exist, and no
  deletion of schema; so neither a commit, a rollback nor a reconnect can make a stamp
  false. `PlaceIsTrue` is what each label of `apply()` stands for: at `stamp`, migration
  n is done; at every label after it, all are. `RosterInv` adds the rows: who may have
  some pending, that no second client is at its rows (on Postgres, not in a save at all),
  and that what a saver reads and what it has left make up its paste; it is conditional
  on `disturbed`, the history of cut transactions. `PurgeInv` needs that the players'
  table is there for every handler (from `StorageInv`), so that only a fault can skip
  it, and that nobody adds to Yahoo's rows.
- *Copy.* The strengthening says where the copy is in the laptop's file, and that a
  hosted row was recorded there or may cross.
- *Sources.* `BlendKeepsUp` says at each leg after the blend of which sources it is
  current, the consensus excepted while its own leg is open or has raised. `IdentityInv`
  says that an id Sleeper's last dump gave leads to its player in the store, on disk, and
  in the run's memory once that has loaded ESPN's ids; recording a mapping keeps it,
  because what is recorded agrees with the dump or does not speak of the id.
- *Yahoo's gates.* The gates only open; `PlacesAreTrue` says which of them a runner's
  place in its check has found open.
- *League.* The memo only grows. `LeagueInv`: every roster given, kept or being collected
  is what the memo holds for its team and week; an empty answer in the memo is one
  Yahoo gave; and once the teams are in the memo no fetch is refused, so a typed
  roster never follows a live league. `WireInv` says that a wire being read, kept or
  given is a beginning of Yahoo's as long as nobody moved.

Only model-checked: liveness (`YahooWins`, `BaselineCatchesUp`, `EndsCurrent`), which the
prover does not reach; and `ValuesAreSound` (the draft board, the scoring rules, the learnt
bid). Its rules sort, select and fold over data (`SortSeq`, `SelectSeq`, `FoldLeft`, `@@`),
of which the provers have no definition, and what it compares them with is the result of
the whole fold, which is an induction over data. The theorems about one tracker or one runner say so in their hypotheses: with two,
and no fault at all, TLC finds each of those properties violated (two sessions commit
each other's half-done correction, two runs both find a fact not yet recorded), so they
are what these parts promise to a user who opens one page and to a schedule that does not
overlap itself.

## 5. Findings

Each is a run that TLC finds violated; the quotation is in `PROJECT.json`.

- A copied pick carries Yahoo's team key and is on no slot's roster, so my roster is
  empty after a sync (`draft_roster`, `src/draft/live.py:221`).
- A player who loses his status keeps the old one for ever (`alerts_recovery`,
  `src/sources/sleeper.py:208`).
- A player listed at a new position leaves a row behind under the same Yahoo id, and
  Yahoo's roster may be joined to that one (`identity_join`,
  `src/yahoo_snapshot.py:239`).
- A number set in the box only to match the draft is not remembered as applied; after an
  undo it lies ahead and fills the undone pick with a placeholder, where Streamlit
  keeps a keyed number (`page_phantom`, `dashboard.py:363`).

Seen while modelling and held to what remains true, or out of the runs' questions:

- Draft: a player typed at one pick and copied at another holds both (`live.py:225`;
  `RepeatsMixSources` says that is the only way). The pick box gets a number past its
  maximum after the last pick (`dashboard.py:341`).
- Alerts and jobs: a failed mail beside a desktop notice that worked is never sent again
  (`notify.py:168`); a run without a league snapshot stores the baseline over changes it
  did not look at (`cli.py:1366`); a slot after which no run comes that day waits a
  week (`schedule.py:118`); a job stopped with Ctrl-C leaves a row that says ok
  (`cli.py:2976`); a job that raises inside `catch_up` ends it without a notice; the
  notice names no date, so a second day's failure within 72 hours is a duplicate;
  two runners may announce a gate twice (`cli.py:517`); a reminder whose text changes
  daily is mailed daily (`reminders.py:11`).
- Database: save_roster's reconnect commits half a roster, and two saves that overlap on
  Postgres can commit the union of two pastes, because the DELETE of the second does not
  see the first one's rows, though `manual_roster.py:360` says "Replaces rather than
  appends" (`WholeRoster` is conditional on `disturbed`, which records both; on SQLite
  the DELETE takes the file's lock first); a pasted duplicate is a key error; a copy
  repeats the rows of `recommendations` on a rerun, leaves the id sequence behind
  (`migrate.py:45`), and carries Yahoo's draft picks, which `YAHOO_ROWS` lists and
  `row_is_allowed` omits.
- Sync: on a second run the consensus is calibrated against a blend that already holds
  it (`weekly_consensus.py:10`); a source with no weight returns once weights are
  earned (`projections.py:124`).
- Advice: `fcc faab` and the waiver job value the same player differently
  (`cli.py:2305`); the recap blames starts that were locked (`recap.py:179`); a back
  with nobody behind him on a synced depth chart is backed up by projection, though
  `waivers.py:291` says only without a chart; a swap may send out a starter the slot does
  not accept, when none it accepts is free (`season/lineup.py`).

## 6. What is not modelled

- Wording, rendering, parsing of feeds and pasted text, and floating point: blends,
  survival and win probabilities, regressions, simulations, the recommender's scores.
  Points are integers; names are model values; similarity of names is a relation.
- Draft: `poll`, which nothing calls; the search of a player by name.
- Alerts: the replacement hint. Two runners at once are in the module and proved about
  (type invariant), but in no run.
- Jobs: runs a person dispatches from GitHub, `fcc daily` as a schedule, the trade
  scout's own schedule; a job's effects, apart from whether it was said.
- Storage: the translation of SQL between dialects; a third process.
- Sources: OAuth's token refresh, which is the library's; one source's cache stands for
  all; the season's projections share the weekly legs' order.
- The season pages, charts, configuration, login, e-mail layout and the development tools
  hold no state that interacts (`PROJECT.json` says so of each).

## 7. What is left

1. Alerts with two runners, composed with JobSchedule, which decides when they overlap.
2. The draft board, scoring and the learnt bid with recursive functions for their folds,
   so that `ValuesAreSound` can be reasoned about for every board, as the other advice is.
3. LineupAdvice as an instance of LineupSolver, so that the swaps are checked against the
   table and not only against the relation it is proved to compute.
4. The composition of LeagueFetch with JobSchedule: which jobs share a process.
