# Verification of pgsql-toolbox in TLA+

pgsql-toolbox manages PostgreSQL development worktrees: `pg_init` builds one and gives it a
port, a running cluster and a Claude Code session in tmux, `pg_archive` takes it away, a Flask
dashboard (`app.py`) does both from a browser, a daily batch downloads mailing-list archives and
ingests them into PostgreSQL, where an MCP server lets an agent read them, and a second Flask
server (`internals/app.py`) lists and serves documents, some of them generated, from the
checkout and updates them from origin.  All of it is shell commands, small files, git refs and
rows, driven by CLI processes, request threads, background threads and two schedulers at once,
and any of them can be killed at any moment.  That is what is modelled here.

Paths below are relative to the repository root (`src/` in `PROJECT.json`).

## Inventory

| Part | State | Operations | What is hard |
|---|---|---|---|
| Port registry (`lib/init.py` `allocate_port`, `lib/operations.py` `atomic_write`, `remove_port_lock_entry`) | the file `port_lock`, its inode, the flock on an inode, the project directories | allocate, prune, append, remove | the lock is on an inode, the data under a name that moves to new inodes; the directory that keeps an entry alive is made after the lock is dropped |
| Branch lifecycle (`app.py`, `init_branch`, `archive_branch`, `lib/db.py`) | directories, binaries, port entries, rows in `branches` and `standbys`, the in-memory task table | `pg_init` (a thread), archive, delete row, list and synchronize | seven steps that may each raise, a push that times out after the move, threads nobody stops, a task table that dies with the process |
| Clusters (`lib/replication.py`, `bin/pg_cluster`) | data directories, running servers, ports | create standby, start, stop, restart, reload | servers outlive the dashboard; what is stopped is what the rows list |
| Worktrees (`lib/init.py` `update_base_repo`, `cleanup_branches`, `setup_worktree`, `_align_teleport_branch`; git in `archive_branch`) | branches of origin, remote-tracking branches, local branches, registered worktrees | fetch, clean up, add a worktree, rename after a teleport, delete on archive | one base repository for all calls and no lock; three lists read one after the other and acted on later; users commit and switch branches meanwhile |
| Claude Code session driver (`lib/init.py`, `app.py` `api_claude_resume`) | a tmux pane, the session URL of the row | create the session, start Claude Code, accept dialogs, `/rename`, `/rc`, read the URL | a screen is polled and keys are sent to it later: to a dialog, another program, a scrolled view; old URLs stay visible |
| MCP batch (`lib/mcp_status.py`, `mcp/scripts/download_mbox.sh`) | batch status of each process, threads, `.partial` and published files | trigger, scheduled run, download, ingest | one status word for several threads, one `.partial` name for several downloads, the Flask reloader's second process |
| Ingester, with parser, thread resolver and classifier (`mcp/ingester/src`) | `ingestion_log`, `threads`, `messages`, `patches`; the connection's transaction | one run over the files that are new or newer | swallowed errors inside a transaction, savepoints, crashes between commits, files replaced while a run reads them, reply chains and cycles, the half of a thread that is searched |
| MCP query server (`mcp/mcp-server/src`) | none of its own | search page by page, `get_thread`, `get_message` | two queries of one answer with a commit in between, paging over a table that grows, bodies cut at several limits |
| Documentation update (`internals/app.py` `api_pull`) | HEAD, index, working tree, origin | fetch, fast-forward, or refresh of the document directories | edits at the same time, diverged histories, git commands that fail or time out half-way |
| Generated guides (`internals/docs`, `internals/user_docs`, `internals/app.py` `_scan_docs`) | `chNN.html`, `index.html` of each guide | `build.py`, listing | tables, bodies and links are written apart; files are written one after the other where the server reads them |
| Front end, compose files and schema, status and log views | none of their own | display, deployment | - |

How they meet: the dashboard and the CLIs share `port_lock`, the directories, the base
repository's refs and SQLite; the dashboard starts the batch, the batch runs the download script
and the ingester container; the ingester reads what the script publishes, the query server what
the ingester commits; servers are only known through rows and `pg_ctl`, a Claude Code session
only through its pane; the documentation server lists what the builds leave in the checkout it
updates itself.

### What makes each part correct

* Registry: two directories never have one port; PRIMARY_PORT_MIN is master's; every directory
  is listed; the lock never leaks and everybody who waits gets it.
* Lifecycle and clusters: archiving leaves no server behind that it knows of and can stop;
  none but those left behind sits on a port of another branch's cluster; a directory is always registered and appears
  only where `pg_init` makes it; one creation thread per branch, truthfully reported.
* Worktrees: what a user committed stays on the project's branch (`WorkKept`); a new worktree
  starts from all the server has, or all the local branch had (`StartsWhole`); what is checked
  out changes under nobody's hands (`CheckedOutStands`).
* Claude driver: keys land where they are meant (`KeysLand`); no permission dialog is answered
  on the user's behalf (`NoBlindApproval`); the recorded URL is of a session that was not dead
  already (`RecordedFresh`); every call returns (`CallEnds`).
* Batch: one at a time; what is published is a whole month (but for what a killed batch leaves
  behind); nothing is ingested after a failed download; the status is "running" exactly while a
  batch thread runs, and it ends.
* Ingester: a file that is logged is stored; rows are consistent over reruns and cross-posts;
  threads, their statuses and counts are right; everything is stored in the end.
* Query server: a walk through a search skips nothing that was there (`WalkSkipsNothing`);
  counts, cuts and thread ids are what the agent is told they are (`AnswersAreTrue`).
* Documentation update: nothing local is lost; the index is left alone; untouched documents
  become origin's.
* Guides: a listed guide has every page its index announces, also while it is rebuilt
  (`ListedHasPages`); after a build its cards, pagers, sidebars and bodies lead to pages and
  headings of that build (`LinksLead`).

The hazards behind these, each at its line, are in `PROJECT.json` under "hazards".

## Modules

| Module | Models | Composition |
|---|---|---|
| `PortRegistry` | what the registry promises: an atomic map from directories to distinct legal ports | abstract specification |
| `PortLock` | `allocate_port`, `init_branch`'s mkdir, the archive's use of the registry, one system call per action | implements `PortRegistry` (`RefinesPortRegistry`) |
| `Lifecycle` | `init_branch`, `archive_branch`, cluster actions, and the handlers of `app.py` | takes the registry as one atomic step; its inside is `PortLock` |
| `Worktrees` | the git side of `init_branch` and `archive_branch` | `Lifecycle`'s "worktree" step seen from inside |
| `ClaudeSession` | `setup_tmux_claude`, `resume_claude_session` and all they call | the last step of `init_branch`, and a handler of `app.py` |
| `McpBatch` | batch, scheduler, reloader, `download_mbox.sh` | publishes the files `Ingester` reads |
| `ThreadResolver` | `_find_thread_root` | operators of `Ingester` |
| `Ingester` | `main.py`, `db.py`, `thread_classifier.py` on PostgreSQL's transactions | its `Download` is `McpBatch`'s `Move` |
| `McpServer` | `search_messages`, `get_thread`, `get_message` and an agent | extends `Ingester`: both run over the same tables (`ArchiveSpec`) |
| `DocPull` | `api_pull` and its git helpers | |
| `GuideData`, `DocGuides` | what the seven guides contain; how they are built, listed and read | |
| `PortLock_proofs`, `Lifecycle_proofs`, `Worktrees_proofs`, `ClaudeSession_proofs`, `McpBatch_proofs`, `Ingester_proofs`, `DocPull_proofs`, `DocGuides_proofs` | theorems | each extends its module, `Ingester_proofs` also `McpServer` |
| `MC...` | values of the constants for TLC | |

Most modules have a variable `setting` that `Init` fixes: which calls, faults and environment
steps are considered together.  One run then covers several settings, and a property names in
its premise the ones it is a promise for.

### PortLock

A registry file is a function from projects to ports: every reader lets the last line of a
project win, so line order and duplicates do not matter.  `path` is the inode the name denotes,
`file` its content (other inodes can never be read again), `flock` the lock of each inode, `fd`
and `afd` the inodes a call has open for locking and for appending, `view` the registry it has
read.  Each action is one system call of `allocate_port` (open, flock, read and prune, atomic
rewrite, decide, open for append, write, unlock), of `init_branch` (mkdir; the rest of it
succeeds or raises), or of `archive_branch` (move, push, read, atomic rewrite without the lock).
`Crash` ends a call anywhere; the kernel drops its lock.  `setting.overlap` says whether a call
may start while another is under way, `setting.projects` which projects calls name.

### Lifecycle

A call `r` is a `pg_init` thread or a request, one action per step of `init_branch`
(allocate, mkdir, worktree, build, initdb, each standby and its row, tmux) and of
`archive_branch` (stop the standbys the rows list, stop the primary, move, push, port entry,
rows, status).  `servers` are processes that survive everything but the host; `here` says
whether their data directory is still in place, and `listed`, history, whether the last archive
of their branch had them on its list and no stop of them failed unnoticed.  A step that raises
may have started its server before: `pg_ctl start` passes its time limit, or
`CREATE SUBSCRIPTION` fails after it (`InitRaises`, `ClusterRaises`); then no row is written.
`SyncBranches`, `DeleteRow`, `PgStart`,
`PgStop` and the cluster actions are the other handlers.  `Restart` ends all threads and the
task table, and with the host the servers too.  `setting` holds the branches, the calls, whether
rows are deleted, and the faults.  Notes, URLs and logs are left out.

### Worktrees

A commit is the set of changes it contains, so that "is an ancestor of" is inclusion and
"nothing is lost" can be said; a ref maps to a commit.  Git is modelled by what the code relies
on: what `worktree add`, `branch -D`, `branch -M` and `pull --ff-only` refuse, and what they
reset.  The three lists `cleanup_branches` reads (worktrees, branches, `port_lock`), the test of
each branch's directory and the `branch -D` that follows are steps of their own, since other
calls and users come between them.  A user commits, pushes and switches branches in a project no
`pg_init` is working on.  `made`, `work`, `asked` and `crossed` are history: changes so far, the
work of each project, what a `pg_init` could find (on the server when it began, of its own branch
when its directory was made; what others delete on the server since is taken out of it), and the
projects two calls worked on at once.  Master, whose worktree is the base repository itself, is left out.

### ClaudeSession

The pane is external and modelled by what the code's comments and checks say of it: what runs in
it (`screen`, with the startup dialogs and a live conversation's permission dialog), `copy` mode,
the last frame an ended Claude Code leaves (`ghost`), the input line, Remote Control (`live`,
`connecting`) and the URLs that are visible (`urls`, which scroll off).  Each action of a call is
one tmux command: a capture, a query, or keys.  What it captured is kept in `seen`, what it
decided in `pc`; between two of its actions the user, Claude Code and other programs move on.
`changed`, `moved`, `stale` and `lost` are history.

### McpBatch

`pc` follows each batch thread through `run_batch` and the script it runs.  A month has a
published inode and a `.partial` inode; `writer` says which transfer truncated an inode last, so
that a month is whole exactly when that transfer finished (transfers of a month write the same
bytes at the same places; curl opens, and truncates, its file at the first byte it gets, and
truncates it again for every retry).  `setting` fixes which threads are started, what a run
downloads, and how much can be left behind at a time.  `subprocess.run` kills bash at the 600 s
limit and the compose command at the 1800 s limit, not the curl or the container they started,
and a dashboard that ends kills none of them: they stay in `left`.  A bash left by a restart
finishes its transfer, validates and moves it, and dies of its next `echo`, whose pipe nobody
reads.  `touched` is history: the inodes that something left behind had open or published, until
they are truncated by a transfer that has them to itself.

### Ingester

`db` is what is committed, `work` what the open transaction sees, `tx` the connection's state.
The model follows psycopg: the first statement opens a transaction, `conn.transaction()` is a
savepoint inside an open one and a transaction otherwise; a rejected statement aborts it, COMMIT
then rolls back without an error and RELEASE raises.  Each message may have one fault, in every
run: a header that raises out of the parse; a value psycopg refuses to send (of the message, of
its id, of one of its patches), so that the statement never starts; a value the server rejects
(again of the message, its id or a patch).  Threads are upserted before and outside the `try` of
the messages, so an id that cannot be sent or stored ends the run when it names a thread
(`UpsertRaises`).  A message and its patches are one step, whose number of patches is free up to
the first that cannot be sent (`PatchesSent`): nothing is committed between those statements.
Downloads replace files at any time; `mtime` is read when a run lists the files and
written to the log when the file is done.  Threads come from `ThreadResolver`'s walk over the
headers of the file; statuses from `Classify`, which follows the order and the half of a thread
the classifier searches, over what each body concludes; among messages of one date the database
may use any order.  Authors, subjects and bodies are left
out.

### McpServer

The agent walks through a search with limits of its choice, page after page, to an empty page,
or opens a thread, whose header and whose messages are two queries, or a message it was shown.
Every query sees what is committed when it runs.  The order is nondeterministic among results
that tie in rank and date, as SQL's is.  `MaxPage` and `Budget` stand for 50 and 30000, the
limits of bodies are the code's.

### DocPull

Per file, the content in HEAD, merge base, fetched target, index and working tree.  The commit
graph is two facts: HEAD has commits the target lacks, and the reverse.  `git status`,
`merge --ff-only`, `checkout TREE -- PATHS` and `reset -- PATHS` are modelled by what the code
relies on.  Any git command may fail (another git holds `index.lock`, a time limit, an unreadable
file) and the code goes on as it does: a failed `status`, `merge-base` or `diff` reports nothing
(`DirtyPaths`, `LocalEdits` and `Incoming` take the set of those that failed), a failed
`merge-base --is-ancestor` says no, a failed `ls-files` makes a tracked copy an untracked one, a
failed `reset` is not noticed, a checkout may be cut short between the files and the index.
`Misread` is what `_git`'s `strip()` does to the first line.  The checkout takes chunks of
`ChunkSize` paths (100 in the code, 1 in the runs so that two documents make two chunks).

History: `published`, the contents each file has had on origin; `own` and `during`, the files
edited here at all and while this pull runs; `overlooked`, the documents of which a failed or
misread command said nothing; `leftStaged`, those whose reset did not happen, until a commit takes
them.  The properties except exactly these files, so that every failure and every edit at any
time is among the behaviours they are checked and proved for.  One file's `hash-object`,
`ls-files` and `checkout` are one step; an edit between them can lose that file only, which is
then in `during`.

### GuideData and DocGuides

`GuideData` says of each guide what a link can tell: the sections its tables announce, the
headings its bodies have, the links and citations in them, the marks its renderer must replace,
and how its pages are numbered (`paging`): rows with a number and a body, of which two guides
look for the numbers on both sides and three take the neighbouring rows, or rows whose position
is the number and the index of the body (two guides).  `DocGuides` builds a guide file by file, as
`build.py` does, and may die between any two of them; an author leaves a chapter out of the tables
or puts it back, the bodies stay as they are; `ScanDocs` is the server's listing.  A page that is
opened for writing is empty until it is written, and one that no build writes any more stays.  An
edition is named by the chapter its tables leave out, 0 for none.

## Runs

| Run | Expect | Shows | Distinct states and bounds |
|---|---|---|---|
| `port` | pass | one call at a time: distinct, listed ports and the refinement of `PortRegistry`, with crashes and failed archives; overlapping: master's port is nobody else's, every waiter gets the lock | 407k: two callers; four projects on ports 50000..50002, so that the range runs out, or two projects with calls that overlap; five inodes, all two callers can refer to |
| `port_overlap` | violation of `UniquePorts` | two overlapping `pg_init` share a port | three projects |
| `lifecycle` | pass | one call at a time: no server left behind that is listed, no port taken, directories registered; two overlapping calls: one creation thread per branch and a truthful task table | 2.4M: two branches with one call, or one branch with two, deleted rows and every fault; one standby, four inits or archives |
| `worktrees` | pass | work kept, worktrees that lack nothing, checked-out branches that stand, under `pg_init`, archive and users at once | 4.8M: two projects, a branch of a cloud session that is also the user's, two calls at once; three settings: users who switch branches; local branches nobody pushed, a tag, failing fetch, push and build; branches of the server and teleports |
| `claude_session` | pass | the driver's four properties | 311k: one call, two attempts, two URLs, one act of the user; a resume of any screen, with the prompt recognised or not, a fresh session, a teleport, a ghost frame |
| `batches` | pass | the batch properties, triggered and scheduled | 139k: two button threads over two lists of two months; a button thread with the scheduler over one month; two button threads over one month and one process left behind at a time; four inodes, one more than can be held when a new one is opened |
| `batch_torn` | violation of `PublishedWhole` | both schedulers of the reloader publish a torn month | two processes, one month |
| `ingest` | pass | ingester, resolver, classifier and query server together | 317k: two files with two and three versions, four messages, one of them faulty in each of seven ways, two crashes (one with a fault); one file with every In-Reply-To and References of three messages, or every conclusion; an agent beside the growing lists |
| `ingest_rejected` | violation of `RecordedIsStored` | a rejected message costs its whole file | one rejected message |
| `pulls` | pass | nothing local lost, index untouched, documents delivered | 9.5M: three files of which two are documents, the first commit with one document or with the other and the file; two edits before or during pulls, commits, two upstream commits, two pulls, any command failing |
| `pull_strip` | violation of `NothingLocalLost` | the first unstaged change is overwritten | one edit |
| `guides` | pass | listed guides have their pages; after a build cards, pagers, sidebars and bodies lead to pages and headings of it | 2.6M: all seven guides as they are, with and without their second chapter or their last |

Why the bounds are enough: each violated property needs at most two actors and the passing
properties relate pairs of directories, calls, batches, files or messages; the bounds give every
pair, one bystander, and each counter or pool at its limit.  What grows without bound in the
program (crashes, inits, pulls, edits, commits, acts of a user) is cut by a constant or a field of
`setting` named in the module.  The guides are no instance at all: they are
the repository's own.
`worktrees` is symmetric in its two calls.

`CHECK_DEADLOCK FALSE` is set for `claude_session`, the two `pull` runs and `worktrees`, whose
environments and calls are bounded; all other systems must never be stuck, and are checked for it.

### Fairness

* `port`: weak fairness of each call's next step (a running process runs on, or crashes) and
  strong fairness of `Flock`, since the kernel queues waiters of a flock.  Starting, and
  crashing, are not fair.
* `claude_session`: weak fairness of each call's steps, and strong fairness of its time limits:
  they are absolute deadlines (`time.time() + timeout`) which pass however often the screen
  changes.  Neither Claude Code nor its user is fair.
* `batches`: weak fairness of each batch thread's steps, since every subprocess it waits for has
  a time limit (`timeout=` in `_run_download`, `_run_ingest`).  Triggers and restarts are not fair.
* `ingest`: weak fairness of a run's steps and of starting runs, since the batch starts the
  ingester daily.  Crashes are bounded; downloads and the agent are not fair.

## What the code does not keep

Recorded under "findings", each with a run: overlapping `pg_init` calls share a port; two
schedulers publish a torn month; a rejected message loses its file's messages; a document with
an unstaged change is overwritten.

Found the same way and not given a run of their own.  Where a formula is named, giving the
constants the values named and checking it shows the case:

* `PortLock!LockExcludes`, `Registered` with `overlap`: two calls are in `allocate_port`'s
  section at once, because `atomic_write` moves the name to an inode the first call has not
  locked.
* `Lifecycle!ServersReachable` and `PortsNotTaken` for servers that are not `listed`: deleting a
  branch's row before archiving leaves its standby running in the archived directory, on a port
  that is given out again (`app.py:187`), and so do a restart between `create_standby` and
  `add_standby` (`lib/init.py:1122`), a `create_standby` that raises after the server started
  (`lib/replication.py:221`), and a stop whose failure is not looked at (`lib/operations.py:228`).
* `Lifecycle!OnlyMkdirCreates` and `DirRegistered` without `Serial`, two calls: a branch archived
  while its `pg_init` runs comes back without a port entry (`lib/init.py:313`).
* `Lifecycle!ArchivedIsGone`: a branch created again keeps the status "archived" (`app.py:72`).
* `Lifecycle!StandbyRowsReal` with the fault "push": a push that times out leaves standby rows,
  which the next branch of that name inherits (`lib/operations.py:287`).
* `Worktrees!WorkKept` and `StartsWhole` without `crossed`: two calls that work on one project at
  a time, of which one has tested `is_dir` before the other's `mkdir`, delete the branch the new
  worktree is to adopt (`lib/init.py:264`).  Meant by the code, and not forbidden by the
  properties: every cleanup deletes the local branches that have no directory, also the one given
  as base, whose work then exists nowhere if it was not pushed; `worktree add -B` resets a local
  branch to origin's of the same name (`lib/init.py:295`).
* `_align_teleport_branch` "force-replaces the unused placeholder" (`lib/init.py:801`), but
  `setup_worktree` may have adopted a local branch with unpushed work under that name; the
  rename at line 820 drops it.  `WorkKept` speaks of work done in the project's directory only.
  A name that is both a tag and a local branch is ambiguous to `git worktree add`, which fails.
* `ClaudeSession!KeysLand` with two calls (two clicks on resume, `app.py:359`): their keystrokes
  mix.  Without `changed`, `moved` and `ghosts`: a user who acts between a look and a key, a
  program that ends there, and the last frame of an ended Claude Code get keys where they are not
  meant.
* `ClaudeSession!RecordedIsNew`: an old URL that scrolls off between the two counts makes the rest
  of the list look new (`lib/init.py:739`), and the URL of a dropped session is recorded.
* `McpBatch!StatusTruth` and `TriggeredWhole` without `TriggeredOnly`: the scheduler starts a
  batch while another runs, and the first to end shows "idle" for both (`lib/mcp_status.py:218`).
  `PublishedWhole` with the button only and one slot in `setting.slots`: after the 600 s limit
  (`lib/mcp_status.py:137`) the curl left behind retries, and truncates a month that the next
  batch has published, or writes beside it into the same `.partial`; a container left by the
  1800 s limit ingests while "idle" is shown.
* `Ingester!EventuallyStored` with a rejected message: it ends every run at the same file
  (`db.py:109`, the savepoint's RELEASE raises); with an undecodable header the files behind
  wait as long.  `RowsConsistent`'s count with a rejected message: messages that are rolled back
  are counted.  An id that cannot be sent is worse than the comment of `_strip_nul` expects: it
  ends every run in the upsert of its thread, outside the `try` (`db.py:132`), and the files
  behind wait for good.  A message whose patch could not be sent is stored without it, and later
  runs find the message known (`db.py:199`): `RowsConsistent` and `ConclusionsShow` except it.
  `StatusCurrent` with crashes: one between `record_ingestion` and
  `classify_threads` leaves statuses old for good (`main.py:118`).
* `Ingester!ConclusionsShow` for all messages of a thread of three or four: the comment at
  `thread_classifier.py:81` says short threads are searched whole, the code takes the last two.
* `McpServer!WalkSkipsNothing` for ties: nothing orders results of one rank and date, so a page
  may repeat one and lose another.  `get_thread` shortens the old messages once and sends the
  result even if it is still over its budget (`server.py:351`).
* `DocPull!NothingLost` without its exceptions: a document saved between `git status` and
  `git checkout` is overwritten (`app.py:268`), and one that a failed `git status` or
  `git merge-base` did not name is, too (`app.py:207`, `267`).  `PullDelivers` for later pulls, or
  with a refused checkout: refreshed documents count as local changes next time, and one document
  deleted upstream stops all others; a failed `git diff` is reported as "Already up to date".
  `NothingSneaksIn` without its exceptions: when the reset is refused (its return code is ignored,
  `app.py:278`) or times out the refreshed documents stay staged, and a commit made between the
  checkout of a chunk and its reset takes the chunk.

* `DocGuides!LinksLead` for chapters the tables leave out, and without `Aligned`: nothing looks at
  what bodies name, so they go on naming a chapter that has no page, or whose page is of an
  earlier build, which removes none.  In the two guides that number by position, leaving out a
  chapter before the last in the tables alone shifts titles and sections away from their bodies.
  In the two whose pager looks for the number on either side it ends at the gap
  (`compute_xid_horizons/build.py:103`); `LinksLead` says where a pager leads, not that it walks
  every chapter.

So the passing properties say exactly where the promises end: `Serial`, `listed`,
`TriggeredOnly`, `crossed`, `changed`, `lost`, `touched`, `during`, `overlooked`, `leftStaged`,
`crashes = 0`, `pulls = 1`, `Aligned` and "no rejected message" in their premises are these cases.

## Proofs

Checked by TLAPS for every value of the constants that satisfies the assumptions named: any
number of callers, projects, ports, branches, threads, messages and files, and no bound on
crashes.

1. `PortLock_proofs`, from: the ports are a range of naturals, the null values are outside their
   types, there are at least `2 * |Procs| + 1` inodes, so that a free one always exists.
   `TypeCorrect`, `LockHeldByOpener` and `MasterPortSafe` hold under every interleaving and
   crash.  `TypeOK` alone is not inductive: a call between its open and its unlock must have a
   project and an open inode, and an inode under the name (`CallOK`).  `ConcInv` is the two
   together; `LockHeld` and `MasterInv` are inductive relative to it.  `MasterInv` adds that a
   call that carries the master port works for master; `MasterPortReserved` speaks of every
   stale copy (`view`) because such copies are written back.
   `UniquePortsWhenSerial`, `RegisteredWhenSerial`, `SerialStrengthening` and `SerialRefines`
   are the promise the code keeps when calls do not overlap, and fail as soon as two do
   (`port_overlap`).  The strengthening is `SerialInv`: the one call under way carries a view
   that agrees with the directories, a port that is free and legal, and after the append the
   file has its entry.  The refinement maps `assigned` to `home`: `Mkdir` is `Assign`,
   `MoveToArchive` is `Release`, all else stutters.
2. `Lifecycle_proofs`, from: the range is narrower than the standby stride (1000 ports,
   50000..50999, stride 1000 in `lib/config.py`).  `TypeCorrect`: the list of standbys a
   `pg_init` has yet to make is not in `TypeOK` and has to be typed with it (`QueueTyped`).
   `StandbyPortInjective`: `standby_port` never maps two (primary, index) pairs to one port.
   `RegisteredWhenSerial`, `OnlyMkdirWhenSerial`: `RegInv` adds to `DirRegistered` what
   `init_branch` and `archive_branch` know of their branch at each step.  `TasksAreTrue` holds
   under every overlap, since `_pg_init_lock` covers the test and the set of the task:
   `OneThread` ties each `pg_init` thread and each running entry of the task table together, one
   to one.  `ReachableWhenSerial` and `PortsFreeWhenSerial` follow from `ServInv`: every server
   whose directory is in place has a port that is its branch's, and one whose directory was moved
   is not listed (`Placed`); an archive under way still has in its list every listed server it
   has yet to stop (`CallKnows`); and registered ports are distinct (`Distinct`), so that by
   `StandbyPortInjective` all ports are.  `StandbysInOrder` shows that the sorted list of rows
   has every row, which `Ranking` and the library's facts on injections of finite sets give.
3. `Worktrees_proofs`, from: the names of projects, of other branches and the null values are
   apart, and every setting starts from refs that hold changes made so far.  `WorkIsKept`,
   `CheckedOutIsSafe` and `BranchesInOneWorktree` follow from `WorkInv`.  Whether a branch is
   about to be deleted, reset or renamed is known only from what the calls have read, so
   `CallsKnown` relates every call's next step to directories, worktrees and `crossed`: the
   branch `branch -D` is called for is of no project that has a directory, or of a crossed one,
   and so on.  `RefsTypeCorrect` and `WorktreesStartWhole` follow from `WholeInv`: what the server
   had when a call began is still there, and known here once the call has fetched
   (`ServerKept`), and the local branch of its project survives until its worktree is made and is
   chosen if there is no other (`LocalKept`).  The attempt to prove it showed what the promise
   cannot include: when an archive elsewhere deletes the branch on the server that a `pg_init`
   has read as its base, the worktree starts without it; so `asked` drops what is deleted there.
4. `ClaudeSession_proofs`, from: at least one attempt, and settings of their types.  `TypeCorrect`
   needs to know what a pane without Claude Code can show (`PaneInv`).  `FoundIsFresh`, for any
   number of calls on one pane, from `FreshInv`: until the screen scrolls, the list of URLs a call
   read is an initial part of the one it reads later, and none after it was dead then (`Since`).
   `NoBlindAnswer` and `ResumesLand`, for one call at a time, from `KeysInv`: what each step of a
   call may conclude about the screen from its last look (`SafePane`, `Looked`, `Resumes`), as
   long as the user has not acted since.
5. `McpBatch_proofs`, from: schedulers, button threads and places for what is left behind are
   apart, and the null values are none of theirs.  `TypeCorrect` and `IngestsWholeDownloads` for
   all threads; `BatchesOneAtATime` and `PublishesWholeMonths` when only the button starts
   batches.  `OneBusyWhenTriggered` says that two busy threads are one; with it `PublishedApart`
   (the published inode is never the one under `.partial`) and `TransferWrites` (the transfer under
   way writes the `.partial`, which is moved only when it ended) are inductive, for files that no
   curl left behind writes to: `LeftTouched` says that what is left behind writes to no other.
6. `Ingester_proofs`.  `ThreadsExist` and `StoredStays` from `RowsInv`: what is committed is part
   of what the transaction sees (`Extends`), and the threads of a batch are there before its
   messages (`Upserted`).  They hold whatever thread the resolver finds.  The others are for
   finitely many messages.

   The resolver's walk is a recursive function over the messages it has visited.  That the
   recursion has a solution (`WalkUnfolds`), ends at a message (`RootsAreMessages`) and ends at
   the oldest ancestor when there is no cycle (`OldestAncestor`) is shown by induction on the
   messages not visited.  The library's induction theorems take an operator as a parameter,
   which the provers cannot instantiate; the induction is therefore stated about sets (`LeastSet`:
   a collection of finite sets that is not empty has a least one; `AllNaturals`,
   `WalkInduction`).  `ThreadsAreOldestAncestors` adds that what this batch inserted hangs where
   the walk ended (`InsertedHere`).

   `GoodFilesAreStored`, when downloads of a file are at least two seconds apart (mtimes are
   compared with a second's tolerance), from `FilesInv`: what the list of a run, the batch it
   read, the rows it inserted and the log entry it writes say of the version of the file they
   are about (`Reads`, `Inserts`, `Records`, `Logged`).  `RowsAreConsistent` from `CountInv`: a
   message has as many patches as could be sent with it exactly when it is there (`PatchesOnce`),
   and the count never passes the messages done (`Counted`).  `StatusesAreCurrent` and `ConclusionsAreShown` from
   `StatusInv`: what differs between the transaction and the committed tables is in affected
   threads (`OnlyAffected`), and only a thread that is about to be classified has a status of an
   earlier state (`Current`); the second also needs that in every chronological order of a
   thread a message with at most one newer or equal one is among the last two.

   `ArchiveTyped`, `WalkShowsAll` and `AnswersHold` are about the query server while the ingester
   runs (`ArchiveSpec`), for any ranks, lengths and limits.  Results come best first, and a page
   is cut at an offset: `WalkInv` says that a message the agent has not been shown, found when it
   began and tied with no other, has at least as many results above it as the offset, which stays
   true as rows are added.  `AnswersInv` says that the thread whose header was read has not lost a
   message by the time its messages are.
7. `DocPull_proofs`, for any files, edits at any time and failing commands, from the numbering of
   the files alone: `TypeCorrect`; `NothingIsLost` from `LossInv`: what is still to be refreshed,
   but for files edited meanwhile and documents a command said nothing of, is not committed here,
   not staged, and holds what HEAD or origin has; `NothingIsStaged` from `IndexInv`: the index
   differs from HEAD only where somebody edited, in the chunk of the moment and where a reset did
   not happen; `FirstPullDelivers` from `DeliverInv`: what nobody edited is in HEAD, merge base,
   index and working tree alike until it is refreshed, so it is neither dropped nor blocked.
8. `DocGuides_proofs`, for any guides whose chapters are a sequence and whose tables leave out a
   chapter of theirs: `ListedGuidesHavePages` and `GuidesTypeCorrect`, since the index is written
   last, pages are never removed and the rows of an edition have numbers of their own (`Numbers`).
   `LinksOfWholeBuildsLead` from `WholeInv` (after a whole build the index and the page of every
   row are of one edition), for guides whose authors kept `TargetsThere`, `MarksReplaced` and
   `TablesMatch`: what is linked to exists in the guide, every mark is replaced, tables and bodies
   have the same sections.  That the repository's seven guides do is `GuidesAreWhole` in
   `MCDocGuides`, which TLC evaluates.

With these every invariant and every action property of the passing runs is a theorem.
Model-checked only: liveness (`LockGranted`, `CallEnds`, `BatchEnds`, `EventuallyStored`), which
rests on fairness and ENABLED and is out of this prover's reach, and the facts about the guides'
data just named.

## Not modelled

* `api_update_branch` (notes and URLs), the diff and log endpoints: no invariant relates what
  they touch.
* `search_patches`, which pages as `search_messages` does, `get_patch` and `list_mailing_lists`,
  which are single reads.  SQL errors of a search and its fallback query (`db.py:90`):
  `websearch_to_tsquery` accepts any text.
* Copied settings, `.envrc`, git excludes and memo files of a new worktree; master, whose
  worktree is the base repository; names with "/"; `index.lock` left by a killed git; log file
  names; tmux's prefix matching of session names.
* The decoding of mail formats, the extraction of patches, the rows of authors and patches beyond
  their number.
* Prose and markup of documents, and hand-written pages, which no program makes.
* Front end (browser code that polls the API and keeps no record), compose files and schema
  (deployment data; the keys the ingester relies on are in `Ingester`), status and log views
  (read-only).

## Plan

Done: every module above, in the order PortRegistry, PortLock, ThreadResolver, Ingester,
Lifecycle, McpBatch, DocPull, ClaudeSession, McpServer, Worktrees, DocGuides, each with its
theorems where the prover reaches.

What remains worth doing:

1. A composition of `Lifecycle` and `Worktrees` in which a failed step leaves both the directory
   and the refs as the other module's next call finds them.
2. A composition of `McpBatch` and `Ingester`, so that the files a run reads are those the
   batches published, torn months included.
3. The decoding of headers in `mbox_parser.py`, of which only the outcome is modelled.
