# A TLA+ model of AWS Connect

AWS Connect is a Windows desktop program, and a command line on the same services, that
signs a user in to AWS with MFA, opens SSM terminals to EC2 instances and SSM tunnels to RDS
databases, moves files to and from S3, mounts S3 prefixes as drives and reads secrets. This
directory is its formal model: TLA+ modules translated from the Python under
`src/src/aws_connect`, the TLC configurations that check them on small instances, and proofs
that TLAPS checks for every instance. Paths below are relative to `src/src/aws_connect`
unless they start with `src/`. `PROJECT.json` maps every definition to the lines it models.

## 1. The system and its parts

The program is layered: presentation (PySide6 pages, a CLI) calls application services, and
those call infrastructure adapters (SQLite, boto3, the Session Manager Plugin, rclone, WinFsp)
through ports. There is one process per GUI or CLI invocation. In the GUI every blocking call
is an `ApplicationTask` on the Qt thread pool, and its result comes back as a callback on the
GUI thread, so application services run on several threads at once; what they share is guarded
by `threading.Lock`s of their own.

| Part | State it keeps | Operations | Where it is hard |
|---|---|---|---|
| MFA recovery coordinators: `AuthenticatedOperationCoordinator`, `OperationCoordinator` | two tables of pending operations, each under its own lock, at most 128 entries, each entry with an expiry of five minutes | start, resume, cancel, sweep | one request lives in two tables; calls on other threads sweep, cancel and resume it meanwhile |
| Session guard and refresh: `SessionGuard`, `AuthenticationService` | per-profile refresh locks | verify a cached session, status, discard, refresh through STS | session rows are read before an AWS call and deleted after it; two stores must agree |
| Credential stores: `sqlite_profile_store`, `aws_shared_credentials` | profiles, one session row per profile, the user's shared credentials file | transactions; read, replace and rename a file | two stores, several processes, crashes between them |
| Profile service | profiles | create, update, default, delete | an update invalidates a session that a refresh may be about to write |
| SSM runners: `ManagedSsmSessionRunner`, `ForegroundSsmSessionRunner` | owned processes and AWS sessions | start, status, stop | everything may fail half way; what was started must be ended, once |
| RDS tunnels: `RdsTunnelService` | table of managed tunnels, expiry of each | start, poll, stop, stop all | a second table over the runner's; expiry, natural exit and stop race |
| EC2 terminals: `Ec2Service` | table of external terminals | connect, reap, stop | reaps overlap and are not under one lock |
| Profile connection lifecycle | one lock | count connections, delete a profile with them | deletion spans all the tables above |
| GUI task runner, RDS page, EC2 page, mounts page, window | flags, timers, tasks in flight, editors | start, poll, stop, save, change profile, quit | callbacks in any order, one flag for several tasks, chains of tasks that overlap |
| Session host and its pipe | a process and a pipe | start, terminate, kill, exit | lost messages, console closed, ten-second handshake |
| S3 drives: `S3DriveService`, `rclone_drive_mount` | mounts, leases, a cache directory and its marker on disk | connect, disconnect with drain, recover, delete, shutdown | dirty cache across crashes; connect gate; half-failed connects |
| S3 transfers: `S3Service`, `aws_s3_gateway`, the S3 page | a queue of uploads, plans, multipart uploads | plan, upload, download, rename, delete | conflict checks that age, cancellation, multipart abort |
| Secrets and Run Command | saved secrets; a result and its reveal; a remote command | look up, test a relay, save, reveal | consent for one command, timers, answers of another profile |
| WinFsp installation | installed version, reboot marker | inspect, install, repair | two installers, reboot |
| Execution log, settings, log files, legacy import, diagnostics | rows and files | record, query, retain, reconfigure, import | retention and bounds |
| Dashboard, system information, endpoint catalogue, gateways, styling | none | read-only projections | - |

Interaction: a page calls a feature service through `AuthenticatedOperationCoordinator.start_long`;
the service asks `SessionGuard` for credentials; if there are none the coordinator discards the
cached session, asks `OperationCoordinator` for a refresh and, for an MFA profile, parks the
action and returns a challenge; the page's dialog resumes it with a code, and the refresh runs
under the profile's lock, writes both credential stores and runs the action. Connecting features
go on to `ManagedSsmSessionRunner`, which owns the process and the AWS session; the tunnel and
terminal services keep tables on top of it that the pages poll every two seconds. Deletion of a
profile observes and stops what those tables hold; complete quit does so for all profiles.

What makes each part correct is listed as properties in section 3, and what can go wrong, line
by line, under `hazards` in `PROJECT.json`. What is not modelled is in section 7.

## 2. The modules

| Module | Models | Proofs |
|---|---|---|
| `Authentication` | coordinators, guard, refresh, the two stores, profile update | yes |
| `OneShot` | what the two coordinators promise together (abstract) | refinement proved |
| `Connections` | runners, tunnels, terminals, foreground sessions, profile deletion | yes |
| `RdsPage`, which extends `RdsEditor` | the RDS page: flags, timer, tasks, complete quit; the editor of saved tunnels | yes |
| `DriveMount` | the drive service and the mounts of all applications on one cache: leases, binding, drain, shutdown | yes |
| `S3Page` | the S3 page, `S3Service` and the gateway: queue, transfers, rename, delete, listings, quit | yes |
| `Secrets` | the Secrets page, `SecretsService` and Run Command: lookups, relays, saved secrets, reveals | yes |
| `Terminal` | the GUI's launcher, the host in the terminal's window, the plugin and their pipe | yes |
| `SessionProcess` | the process port the runners were written for (abstract) | refinement proved |
| `Ec2Page` | the EC2 page: listings, power actions, started instances, terminals, timers | yes |
| `WinFsp` | inspection and installation of the driver by two widgets and another process | with `Window` |
| `DrivesPage`, which extends `WinFsp` | the page of the mounts over `S3DriveService` | with `Window` |
| `Window`, which extends `DrivesPage` | the window: the active profile and the chains of tasks that choose, check, refresh, save, clone and delete one; quit | yes |
| `Store` | the SQLite store and the credentials file as several processes share them: migrations, the default, sessions, import | yes |
| `...Proofs` | the theorems of section 4; `SsmProofs` those of `Connections` and `Secrets`, `Ec2PageProofs` those of `Ec2Page` and `Terminal` | - |
| `MC...` | model values, scenarios and symmetry for TLC, one module per run | - |

Two compositions are modules of their own: `RdsPage` puts the connections beside the editor, which
share the busy flag and the list of relays, and `Window` puts the profiles, the mounts and the
driver under one quit. Elsewhere the parts are joined by reduction: a page calls a service whose
effect is a step that has one of the results the page tells apart, and what the call does below is
the other module (`Connections` below `RdsPage` and `Ec2Page`, `DriveMount` below `DrivesPage`,
`Authentication` below all of them, `Terminal` below the runner of `Connections`).

`Authentication`, `Connections`, `DriveMount` and `Store` model threads or processes: `pc[c]`,
`label[a]` or `proc[q].at` is where a caller is, and its local variables stand beside it. A step is
one critical section, one store transaction or one call to the outside, so that whatever the code
reads before such a point and uses after it is stale in the model exactly as it is in the code.

The modules of the GUI have one GUI thread. A task is a worker's step (`Work`, `Serve`) and a later
callback (`Deliver...`, `Got...`), and callbacks of different tasks come in any order, which is what
the thread pool and queued signals allow. A modal dialog is a stage of its task: other callbacks run
while it is open.

`Terminal` and `Secrets` name their specifications after themselves (`TerminalSpec`, `SecretsSpec`), so
that one module of proofs can extend either of them together with another component.

Definitions named `X_something` before a definition `X` are wrong variants of `X`, each a plausible
mistake in that code; they are used only to show that a property notices it, and the comment says
what the mistake is.

### Authentication

`parked` and `waiting` are the two `_pending` tables, `deadline` the `expires_at` both share,
`session` the `session_credentials` rows, `shared` the profile's section of the shared file
(the serial number of the session it holds), `lock` the refresh locks. A session row is a serial
number, the revision of the identity it was made for, and the time until which it can be reused.
`fate` and `runs` are history: what became of each request.

A request is one operation id. The code mints one id when the call comes in and rebinds it to the
id of the refresh; the model uses one for both, since the first is known to nobody when it is
dropped. `Resume` merges the sweep, the pop of the action and the look at the clock: nothing
else can touch the popped entry in between, and the clock is only compared. A nested sweep
(`_sweep_expired` cancels in the other coordinator while it holds its own lock) is one step, as
the outer lock keeps the two coordinators' views together for every other sweep, resume and park.
`Publish` may fail before or after the file was replaced, since `restrict` runs after the rename.
`Enrol` comes after the choice between a refresh without MFA and a challenge, so that the profile
may change in between, and the table is swept and measured in the critical section that adds.

### Connections

`owned`, `managed` and `external` are the tables of the runner, the tunnel service and the EC2
service; `aws` and `proc` are the session in AWS and the plugin process of each operation id;
`ends` counts the `TerminateSession` requests. The runner holds its lock for the whole of `status`
and `stop`, which are therefore one step; the tunnel service holds an `RLock` around whole polls,
stops and stop-alls, modelled as `tunnelLock` with one step per tunnel visited; the EC2 service
holds its lock only around accesses of the table, so reaping and stopping are several steps.
Deletion is its own sequence of those loops under `deleteLock`. Operation ids are used once, as
uuids are. `scenario` bounds what one behaviour uses: which ids and which faults.

### RdsPage and RdsEditor

`busy`, `starting`, `polling` and `quitting` are the page's flags, `timer` whether the two-second
timer is active, `tasks` the tasks submitted and not yet delivered, `table` the tunnels the service
owns. What a service call does below the page is `Connections`; here it opens or closes tunnels and
returns one of the results the page tells apart.

In the editor `fields` is `_editor_values()`, `base` the baseline that unsaved changes are measured
against, `verdict` what is known of the local port and of which port, `due` the timer that will ask,
`rows` the table `tunnel_sessions` and `open` the tunnels that run. A call carries the profile and
the session the page named when it was submitted, except where the code reads them on the worker
(`Deletes` and `Reads` use `shown`). `mistaken` is history: a tunnel was opened to a host or port
other than the page showed when the user pressed Connect. A session is its host, port and relay;
its name and its duration are stored and shown as the host is.

### DriveMount

Several applications use one cache (the GUI, CLI sessions). What they share is `row` (`s3_drives`),
`marker` (`pending.json`), `unsent` (the files of the cache that were not sent, by the target they
were written for), `lease` (`owner.lock`) and `seen` (the cache directory exists); what each has is
`mount` (`_mounts`), its `rclone` child, the file system `volume` that child serves, and `closing`.
An application does one call at a time, as `S3DriveService._lock` is held for the whole of it;
`list` takes no such lock, and its look at a drive nobody has mounted (`Look`, `Looked`) comes
between any two steps. A target stands for the profile, the bucket and the two prefixes of the
binding. `write_text` truncates and then writes, so a binding is `"torn"` in between, and stays so
if the application dies.

What the letters of `available_letters` are is computed from the file systems that are visible
(`Busy`), whoever serves them; two drives may have one letter. A lost answer of `mount/mount`
leaves the file system `"asked"`, and it may come up at any time as long as its rclone lives. An
end of an application, wanted or not, closes its handles: leases are free, and the job object kills
rclone, whose file system goes away later (`VolumeGone`). Writers write whenever the file system is
visible and rclone lives, also between the drain and the unmount.

All drives belong to one profile, a save keeps the letter, and `clone` and `rename` are saves. A
second `disconnect` in the same application waits for the lock, as everything else does.
`acted` is history: which applications have done anything, so that a property can speak of one that
has the cache and the table to itself.

### S3Page

`up`, `down` and `job` are the upload, the download and the change of an object that are under way:
the stage says which worker step, dialog or callback is next, the plan is what preflight found of
each key. `obj` and `disk` are the bucket and the download directory, which other programs write
between any two steps; contents are numbered, so that what was replaced can be told from what was
planned. `parts` are the multipart uploads nobody has tried to abort, `temps` the temporary files of
downloads. Progress reaches the queue in the step that reports it, as nothing else reads the queue
meanwhile. One batch of every kind runs at a time, as the page's flags see to; a batch of other
keys is not a state the page can be in.

### Secrets

A task is a call with the profile, the secret, the relay and the generation it was made for;
`gen` is `_result_generation`, `rev` `_relay_revision`. A lookup through a relay is submitted, polls
its command `MaxPolls` times and answers. `agreed` is history: what the user's last unused tick
of the consent box was given for. `timers` are the single shots of the reveals with the generation
they captured. Equal listings in flight are one task; which widget holds the identifier is left out.

### Terminal and SessionProcess

`gui`, `host` and `window` are the three actors, `guiEnd` and `hostEnd` the two ends of the pipe,
`toHost` and `toGui` what is under way in it. An end that is closed leaves what was written before
to be read, and then its reader sees the end of the file. Closing the window reaches each process in
it in any order, and a host without a handler dies with it. The ten-second waits are guesses that may
come at any time. `SessionProcess` is the port as `ssm_session` uses it: a start that is refused or
hands a process over, one exit code, success only for an end that was one; `Terminal` implements it
with a refinement mapping on where the launcher is.

### Ec2Page

`view` is what the page keeps of a scope, which is a profile and a region: the rows, the instances
it has started (`starting`, `pending`) and how long it has followed them. `cloud` is the true state
of an instance, which AWS moves on its own. The region is typed, and applied by a reload; `busy`
covers power actions and terminals. Tasks carry the scope they were submitted for.

### WinFsp, DrivesPage and Window

`WinFsp` has the registry's state, the marker file of a due reboot and the machine-wide mutex of
installers; its two widgets inspect and install in `checks`. `DrivesPage` has the page's rows and
flags, the handle of a connection that can be cancelled, and `jobs`, the calls that wait on workers
for the lock of the service. `Window` has `active`, what the `header` says of whose session, and the
profile the feature pages work with (`feature`); `tasks` are the links of its chains, each submitted
by the callback of the one before; `stage` and `closing` are the quit chain, from the mounts through
the transfers to the tunnels. Every call of a chain may fail (`Fails`), whoever the profile is: the
store may be locked, STS may refuse or not be reached, another process may have deleted the row; a
failure shows an error and nothing else. The menu with the refresh action is built anew each time it
is shown, so the action is not locked by a refresh under way. `overlap` and `missed` are history: a
second choice of a profile was made while one was under way; what has failed since header and active
profile were last set together.

### Store

A call of a process is a sequence of short transactions, with its reads outside of the transaction
that follows them, as the driver begins one at the first statement that writes. `applied[v]` counts
the statements of a migration that have run, `recorded` is `schema_migrations`: a DDL statement
commits by itself, and the record is the last step. `session[i]` is the keys a stored session was
issued for, `file` the sections of the credentials file. `torn`, `raced` and `mixed` are history:
what the properties except. Every transaction of a call may find the database locked, which ends the
call where it is (`Locked`); a start that finds it locked in a migration ends as `Crash` does. The
threads of one process are the subject of `Authentication`.

## 3. What the runs check

| Run | Instance | Shows |
|---|---|---|
| `auth` | 2 threads, 1 feature operation, 1 sign-in, tables of one place, all faults, one profile update, with fairness | `ResumesOnce`: the coordinators implement `OneShot`. `TablesAgree`: an action that can still be resumed has its challenge, a challenge has its action or is in a thread's hands, and the bound holds although callers enrol at once. `KeepsDialogs`: a full table refuses the newcomer and never gives up a dialog. `StoresAgree`: outside a refresh a stored session is the one in the shared file. `WorksAsCurrentIdentity`: no feature works with an identity given up before its call came in. `CallsReturn`: every call returns |
| `connections` | 2 threads; a tunnel and a terminal, a tunnel and a foreground session with refused ends, or one connection and all faults; with fairness | `EndedOnce`: the end of a session is requested, and the end of a terminal recorded, at most once, whoever ends it. `NothingLeaks`: a session nobody has tried to end and a process whose stop did not fail are always in somebody's care, what the runner owns is in a service's table or about to be, and the two tables of tunnels agree when their lock is free. `DeletesWhenClean`: what was tracked when a deletion began is down when the profile goes, but for a plugin that survived a stop. `CallsReturn`: the lock of deletions and the lock of tunnels never block each other |
| `rds_page` | 2 tunnels with starts that fail after registering; 1 tunnel while other tasks fail; the editor for two presses of a patient and of an impatient user; with fairness | `QuitIsComplete`: one poll is in flight at most, one connection is made at a time and the flags cover all of it, and a window that closes leaves no tunnel behind. `ConnectsAsShown`: the answer about a port, however late, is never taken for another one's, and a user who waits for the answers gets tunnels to what the page showed. `QuitCompletes`: complete quit ends from every state of the page |
| `drive_mount` | 2 applications with 1 drive, or 1 application with 2 drives that want one letter, all faults | `DrivesOfOneApplication`: with one application, a drive with unsent files is neither edited nor deleted, one that is shown as connected is there with the saved target, and an application ready to exit has stopped every connection. `OneOwner`: two rclone processes never work on one cache. `UnsentStaysBound`: unsent files keep their binding, unless a crash tore it, and are sent only where they were written for. `LeavesNoVolume`: a stop that found the drive mounted keeps the lease until the file system is gone |
| `s3_page` | 2 keys (one multipart), 3 places of 2 profiles, one change of profile, one foreign write; uploads, downloads, or changes and navigation; with fairness | `NothingHalfDone`: open multipart uploads and temporary files belong to a transfer that runs. `QueueIsTrue`: success is shown only for what was sent where it is shown, and no entry stays running. `LosesOnlyWhatWasAsked`: a download replaces only what the user agreed to, a rename loses no content, a delete removes what its dialog named. `ListedIsHere`: what is listed is of the place the page shows. `QuitGoesOn`: shutdown ends |
| `secrets` | 2 profiles, 1 secret, 2 relays of one profile; relayed lookups and tests, or saved secrets and reveals | `PageIsOfItsProfile`: no value, list, relay or offer of an earlier profile appears. `SendsWhatWasAgreed`: a tick sends one command, to the relay it was given for. `RevealsExpire`: what is revealed has a timer that will hide it. `FlagsAreBacked`: a flag that shuts a button has a call whose callback will open it |
| `terminal` | one terminal, unbounded, with fairness | `SuccessIsTrue`: no lost pipe, killed host or terminated plugin is taken for a success. `LeftPluginsEnd`: after a failed launch and after a stop that gave up, the plugin ends, unless its host was killed. `ImplementsPort`: the three processes implement `SessionProcess` |
| `ec2_page` | 2 profiles, 2 regions, 2 instances, 1 terminal, 2 changes of scope, 2 tasks in flight, with fairness | `RowsAreOfTheScope`: every row is of the profile and region its buttons work with. `BusyEnds`: nothing leaves the page locked. `StartedIsSeen`: an instance that becomes ready is shown so, or the page has said why it stopped looking |
| `window` | 2 profiles, 2 drives; chains of profiles (2 presses), the mounts (2) or the driver (1), with fairness | `QuitReleasesDrives`: a window that closes leaves no drive mounted and none being mounted. `SettledAgrees`: when everything has answered and no two choices overlapped, header and active profile are of one profile, and the pages have followed a header that shows a session; only a failed `use` leaves the header on another profile, which it shows as being checked, and only a failed `validate` leaves the pages behind. `QuitEnds`, `RowsCatchUp`: quit ends, and the rows show what is mounted again and again |
| `store` | 2 processes, migrations of 2 and 1 statements, 3 profile ids, 2 names, 2 keys, 2 calls, 3 starts; deaths, a database locked at any call and a refused file | `SchemaIsComplete`: no start leaves a part of the schema out. `OpensAgain`: a start fails on the schema only after a death inside a migration or two at once. `DefaultStands`: one default among the profiles, unless two calls that move it overlapped. `SessionFollowsEdit`: a stored session was issued for the keys the profile has now, unless two calls were about the profile or an edit was cut short before it came to the session |
| `connections_record`, `rds_page_quit` | the smallest instances that show it | findings, section 6 |

`rds_page` says of quit what holds while no page task other than start, stop and quit fails;
`rds_page_quit` shows that without that it does not hold, and how.

`CHECK_DEADLOCK` is off where the system really stops: the pages stop for good when their window is
closed and are idle when nobody presses anything (and presses are bounded), a terminal ends, and
`store` makes a bounded number of calls.

### Bounds, and why they are enough

* Tables of one place (`MaxPending = 1`) make two requests compete for it; that is the situation
  of the 128th and 129th.
* Two threads are enough for the properties of `Connections`, which relate one loop to one other
  call. A tunnel, a terminal and a foreground session exercise every path; a second of a kind
  adds iterations of loops that only repeat a step. Deletion of one profile is checked against
  connections of that profile; connections of others are skipped by the same filter (`Of`).
  A scenario has two connections and few faults, or one connection and all of them: what needs two
  connections is about the loops, what needs a fault is about one connection.
* Time: `MaxClock = 1` with lives of 1 lets every deadline pass once, before, between and after
  any two steps. `MaxRevision = 2` is one profile update.
* `DriveMount`: two targets are enough to tell a binding from another one, two applications for a
  lease, two drives for one letter. An application that ended starts again with nothing but the
  cache, so one application stands for any number of runs of it. The constraint `Mix` keeps
  the states where one application has acted, or only one drive is saved. Symmetry is over
  applications and targets.
* `RdsPage` uses every operation id once; two tunnels let a start meet another one, a poll, a stop
  and quit. Two presses in the editor (an edit and a connection, two edits, a change of profile and a
  deletion) meet every order of the calls they submit; timers, polls and answers are not bounded.
* `S3Page`: two keys let one transfer be part done, and one of them is sent in parts. One foreign
  write can come before, between and after the look and the act of any operation; two listings let a
  stale one meet a fresh one. A session has one use, because the page keeps uploads, downloads and
  changes apart by flags that the model has in all of them.
* `Secrets`: two profiles and two relays are what a stale answer needs to be of another one; three
  generations let a timer meet the generation before its own and after it.
* `Ec2Page`: two changes leave a scope and come back to it; two tasks in flight overtake each other.
* `Window`: an area is what one behaviour is about; the areas share the quit, which is in all of
  them. Two presses let a chain be overtaken by a second one.
* `Store`: two calls by two processes overlap in every way; three starts let a death in a migration
  be followed by two that find it. Three ids are two profiles and a new one.

### Fairness, and why the code justifies it

* A thread that is running goes on, and calls to AWS and waits for processes return: boto3 calls have
  timeouts and every wait in the runner is bounded by five seconds. Threads are never assumed to
  start a call, and a foreground session may last for ever. In `Connections` fairness is strong for
  the step a caller is at, which matters only where it waits for the lock of the tunnels: it gets it
  in the end although others take it again and again. Python's lock does not promise this; it
  follows from polls being two seconds apart while a released lock wakes its waiter.
* `RdsPage`, `Ec2Page`, `Window`: weak fairness for each kind of task (the pool runs it, the queued
  callback is run, the modal dialog is answered), and for the timers that run. In `RdsPage` it is stated
  for the kinds of tasks that make, stop and end connections, and strong fairness for the 50 ms retry of
  `shutdown` when the page is not busy: a user would have to keep it busy in every single instant at
  which the timer fires.
* `S3Page`: the steps of a transfer under way, which run on a worker without waiting for anyone.
* `Terminal`: the launcher, the host and the closing window go on; the plugin and the user never have to.

## 4. What is proved

Everything here holds for every value of the constants under the named assumption of its module,
which TLC checks on the instances too.

`Authentication`: any number of threads, profiles and requests, every table size, every life of a
challenge or session and every set of faults, under `AuthenticationAssumption` (the two kinds of
requests are disjoint, bounds are positive, there is a profile, `Nobody` is no thread and no request).

| Theorem | Statement | Argument |
|---|---|---|
| `TypeCorrect` | `Spec => []TypeOK` | `Typed` = `TypeOK` and `StageOK`: which labels a call can be at in each stage, and what kind of request it works on. Without `StageOK`, `AfterStatus` could deliver a request that is none |
| `ImplementsOneShot` | `Spec => ResumesOnce` | `Hist`: the tables hold exactly the requests that are on offer, every other open request is in the hands of at most one thread, and what was delivered ran once. One lemma per kind of step shows that it keeps `Hist` and is a step of `OneShot` or none |
| `RunsAtMostOnce` | `Spec => []Promise!AtMostOnce` | the last conjunct of `Hist` |
| `RefreshesExclude` | `Spec => []RefreshIsExclusive` | `Guarded`: who is inside a refresh holds the profile's lock |
| `StoresStayEqual` | `Spec => []StoresAgree` | `Guarded`: and what it is about to publish is still its own row or has been deleted, so nothing else can make the stores differ |
| `FeaturesWorkAsCurrent` | `Spec => []WorksAsCurrentIdentity` | `AllCurrent`: revisions only grow, so what a call has seen and checked is at least what the profile had when it came in |
| `DialogsStayWhole` | `Spec => []TablesAgree` | `Dialogs`: a parked action has its challenge (`Answerable`), a challenge has its action or a caller at work on the pair (`Owned`), only what is over is dropped (`Dropped`), and both tables keep their bound |
| `DialogsAreKept` | `Spec => KeepsDialogs` | the same invariant: whoever takes an entry that has not expired works on that request |

`TypeOK` alone is not inductive, nor are the properties: `RefreshIsExclusive` needs to know who
holds the lock, `StoresAgree` needs to know what a publishing thread has put, and the refinement
needs to know that no two threads work on one request, which follows from the tables being emptied
by whoever takes an entry. `TablesAgree` needs to know of the caller between the two tables, who has
put one half or taken one, and that what it drops can never be offered again; this is why
`Dialogs` stands on the refinement.

`DriveMount`: any number of applications, drives, targets and letters and every set of faults, under
`DriveMountAssumption` (`None` is none of the values it stands beside, and a target is none of the
strings that mark an unsaved or deleted row and a torn binding).

| Theorem | Statement | Argument |
|---|---|---|
| `DriveTypeCorrect` | `Spec => []TypeOK` | the first conjunct of `Inv` |
| `CacheHasOneOwner` | `Spec => []OneOwner` | `Serves`: a child belongs to a mount, a mount holds the lease, and a lease has one holder |
| `BindingSurvives` | `Spec => []BoundOrTorn` | conjunct of `Inv`; inductive only with what a call knows (`Knows`): between taking the lease and starting rclone, the cache is empty or its files were written for the target of this call |
| `SendsWhereWritten` | `Spec => []UploadsWhereWritten` | a child serves what the marker says, and the marker says what the files were written for |
| `UnsentFilesSurvive` | `Spec => []UnsentStaysBound` | the two theorems before it together |
| `StopsLeaveNoVolume` | `Spec => LeavesNoVolume` | `Steady`: a call that makes or unmakes a mount finds it in the state it has put it in, and a file system that was told to go does not come back |
| `OneApplicationIsSafe` | `Spec => []DrivesOfOneApplication` | `Lonely`: who has not acted has nothing, and who alone has acted is `Sole`: its mounts and unsent files are of the rows as they are saved, what an edit or a deletion has checked is still clean, and a shutdown has still to visit what is mounted or has failed |

`Inv` has to say what a call that is under way has taken and checked, label by label, because the
target is read before the lease is taken and used long after. One lemma (`StepKeeps`) says what a
step of one application must leave alone for the calls of all others to stay right, a second one
(`QuietKeeps`) does it for the many steps that do not touch the cache, and then there is one lemma
per action. The edit that overtakes a connection (section 6) is one of these actions: it breaks
the agreement of row and cache, and nothing of this. `Steady` and `Lonely` are proved on top of
`Inv`, again with one lemma per action, each of which shows the same thing (`Held`): every mount
stays steady, the acting application stays sole if it was, and nobody else moves.

`Terminal`: the module has no constants; the pipe is unbounded.

| Theorem | Statement | Argument |
|---|---|---|
| `TerminalSuccess` | `TerminalSpec => []SuccessIsTrue` | `Truthful`: every event under way tells of something that has happened (`EventsHonest`), a host starts the plugin once and reports only one that has ended, and the launcher has no exit code before it owns a session |
| `TerminalIsAProcess` | `TerminalSpec => Port!Steps` | under `Truthful` every step is a step of `SessionProcess` or none. The fairness of the port (`ImplementsPort`) stays with TLC |

`Secrets`: any number of profiles, secrets and relays and any bound, under `SecretsAssumption` (the first
profile exists and has a relay, `None` is none of the values, bounds are numbers).

| Theorem | Statement | Argument |
|---|---|---|
| `SecretsPage` | `SecretsSpec => []PageIsOfItsProfile` | `Aimed`, `Listed`: a task of the current generation is of the profile of the page, and a listing has found what is of its own |
| `SecretsAgreed` | `SecretsSpec => []SendsWhatWasAgreed` | `Agreed`, `Ticked`: a ticked box was ticked for the relay and profile on the page, and a relayed lookup carries what it was ticked for |
| `SecretsHidden` | `SecretsSpec => []RevealsExpire` | conjunct of `Sound`: a new generation hides what an old timer can no longer hide |
| `SecretsBusy` | `SecretsSpec => []FlagsAreBacked` | `Aimed`: a current snapshot finds no lookup under way, so no flag loses its task to a callback that is ignored |

`Store`: any number of processes and profiles, any migrations and any number of calls, under
`StoreAssumption` (names and lengths of migrations are numbers, `None` is no key).

| Theorem | Statement | Argument |
|---|---|---|
| `StoreSchema` | `Spec => []SchemaIsComplete` | `Recorded`: a migrating process is never further in a script than the schema is, and only a script that has run to its end is recorded |
| `StoreOpens` | `Spec => []OpensAgain` | `Whole`: as long as none died in a migration and none overlapped, a script that has begun is the one being run |
| `StoreDefault` | `Spec => []DefaultStands` | `Single`, `Fresh`: one call at a time moves the default, and what it has read before its transaction is still so when it writes |
| `StoreSession` | `Spec => []SessionFollowsEdit` | `Alone`, `Keyed`, `Issued`: a refresh that is alone has the keys its profile has, and a session is for those, or an edit is about to forget it |

`SchemaIsComplete` is a fact about processes that have read `schema_migrations` at different times; it is
inductive only with the relation of each one's `step` to what has been applied. The other three except
what their history says (`torn`, `raced`, `mixed`); the invariants state what holds of the calls under
way as long as the exception has not happened. `InOrder` ties the label of a call to its operation.

`Connections`: any number of threads, connections and profiles, and every set of faults, under
`ConnectionsAssumption` (the three kinds of operation ids are disjoint, and `Nobody` is none of them, no
thread and no profile).

| Theorem | Statement | Argument |
|---|---|---|
| `SessionsEndOnce` | `Spec => []EndedOnce` | `Once`: and a terminal that is in the table has no record yet |
| `NoSessionIsLost` | `Spec => []NothingLeaks` | `Cared` and `Tracked`: what runs is in somebody's care, what is owned in a table or on its way there |
| `DeletionIsClean` | `Spec => DeletesWhenClean` | `Fate`: at each step of a deletion, what each connection it knows still may be |

None is inductive. That a start may end the session it made, once, needs `Stage`: until the runner
owns it nobody else has ended it. That a reap writes one record needs that the one who takes the entry
found it without one. And all need `Past`: the loops of polls, reaps and deletions visit only
operations that nobody is still connecting, so that no stop comes between two steps of a start; this
follows from the tables, into which an operation comes with the last step of its caller.

`DeletionIsClean` goes on from there. A deletion reads the tables again and again, and in between other
threads take operations out of them and stop them. `Fate` says what may be true of a connection the
deletion knows: it is still to be visited, or was seen active, or is down; one that is no longer in a
table when the deletion looks must be down, which is `Tracked` and `Cared` once more. `Stays`, which
every step of the base proof also shows, is what the deletion may rely on between its own steps: a
connection that is past its start keeps its profile, and one that is down stays down.

`Ec2Page`: any number of profiles, regions, instances and terminals and any bounds, under
`Ec2PageAssumption` (every instance is of a profile and a region, `None` is none of the values).

| Theorem | Statement | Argument |
|---|---|---|
| `RowsStayInScope` | `Spec => []RowsAreOfTheScope` | `Honest`: the load whose answer will be taken is of the scope that is shown and its answer is of its own scope, and a start is of the scope of its instance |

The property alone is not inductive: what a callback shows was asked for in another state of the page.
`ReloadKeeps` is the lemma of all callbacks that reload: the view of the same scope stays, or none does.

`S3Page`: any keys, places and owners, every set of uses and faults and any bounds, under
`S3PageAssumption` (the page starts at a place, `None` is none of the values).

| Theorem | Statement | Argument |
|---|---|---|
| `TransfersCleanUp` | `Spec => []NothingHalfDone` | `Upload`, `Download`: before and after an item nothing is open; a second transfer cannot begin while one sends, because the flag it holds stays |
| `QueueTellsTheTruth` | `Spec => []QueueIsTrue` | `Upload`: the one running entry is the one that is sent, or the one at which the upload has ended, which the callback then clears |
| `ListingIsCurrent` | `Spec => []ListedIsHere` | `Listing`: generations only grow, and the call of the current one is of the place the page is at |
| `NothingElseIsLost` | `Spec => LosesOnlyWhatWasAsked` | `Change`: what a rename drops was copied with the same content, and what a delete removes was chosen at the place of its dialog; `Download`: the file that is fetched is in the plan |

`Inv` of `S3Page` is the conjunction of five parts that share few variables; for each there is a lemma
that every step keeps it, and the lemmas named `...Frame` say which steps leave which part alone. TLC
has checked the five parts on the instance of the run `s3_page`.

`RdsPage` with `RdsEditor`: any tunnels, hosts, ports, profiles, stored sessions, presses and faults, under
`RdsPageAssumption` (`None` is no tunnel) and `RdsEditorAssumption` (the stored rows have the ids that
`AUTOINCREMENT` gave them, and `Blank` is none of the answers).

| Theorem | Statement | Argument |
|---|---|---|
| `QuitStopsEverything` | `Spec => []QuitIsComplete` | `PageInv`: `polling` says that one poll is in flight (`OnePoll`), and `Orderly`: two tasks that make or end connections are one, it holds its flags, and beside the last stop of a quit there is none that could open a tunnel |
| `EditorConnectsAsShown` | `Spec => []ConnectsAsShown` | `EditorInv`: ids are used once and the answer about a port is the port's (`Consistent`); of a patient user's calls one is awaited, what it carries is what is stored or what the fields say (`Sound`), and the baseline and the list are what is stored unless that call has written and not yet answered (`BaseIsCurrent`, `ListIsCurrent`) |

`ConnectsAsShown` speaks of history (`mistaken`), so the invariant has to say what Connect will read: the
baseline when nothing was changed, the fields when they are saved first. Both can be older than the
table only between the store's answer and its callback, which is what `Ahead` names. That a failure
of another task clears the flags of a start (section 6) is why `Orderly` is stated without that fault.
TLC has checked both invariants on the instance of the run `rds_page`.

`Window` with `DrivesPage` and `WinFsp`: any profiles, drives and numbers of presses; no assumption is used.

| Theorem | Statement | Argument |
|---|---|---|
| `QuitLeavesNoMount` | `Spec => []QuitReleasesDrives` | `QuitInv`: only a connection runs in the service or waits in a dialog; as long as the gate is closed nothing is mounted and no call is held, and a quit is past the page of the mounts only with the gate closed, which no step opens again then |
| `ChoiceSettles` | `Spec => []SettledAgrees` | `SettleInv`: until a second choice overlaps, the chain has one link at most, and `Chained` says of that link for whom it works and what is left for its callback to bring in line, be it an answer or a failure; without a link, header, active profile and pages agree but for what has failed (`Agree`) |

`SettledAgrees` says something only of a window in which every task has answered; the invariant says it of
all the states on the way. A link that is the list or a refresh finds agreement and leaves it when it
fails; one that is a use, a status or a validation stands between two settings of the header, and its
failure is what `missed` remembers. Saves, clones and deletions go beside the chain, and the list they
ask for begins one. TLC has checked both invariants on the instance of the run `window` (714 916
states); without the exception for `use`, or the one for `validate`, it finds `SettledAgrees` violated.

With these every safety invariant and every action property that a passing run checks is a theorem.
Liveness is out of the prover's reach and stays with TLC: the `CallsReturn`,
`QuitCompletes`, `QuitGoesOn`, `LeftPluginsEnd`, `BusyEnds`, `StartedIsSeen`, `QuitEnds` and `RowsCatchUp` of
the runs, and the fairness of `ImplementsPort`.

## 5. The plan

The order in which the modules were written is the order of what can go wrong: first what the
services share between threads (`Authentication`, `Connections`), then what processes share
(`DriveMount`, `Store`), then the pages whose callbacks are in any order (`RdsPage`, `S3Page`,
`Secrets`, `Ec2Page`, `Window`), with the one protocol between processes (`Terminal`).

What is left and worth doing:

1. `RdsPage`'s abstract `table` as a refinement of `managed` of `Connections`, and the `mounted` of
   `DrivesPage` of the `mount` of `DriveMount`; both are argued in section 2 only.
2. The GUI and the CLI on the shared credentials file with refreshes in both, which needs `Store` and
   `Authentication` together.
3. The log page and the settings of the cache, S3's saved locations and search.

## 6. Findings

Where the code does not do what its documents say, as runs that TLC finds violated:

* `connections_record` - of two overlapping reaps, the one that finds the operation gone at the
  runner may be the one that writes the record, and records a failure for a terminal that ended well.
* `rds_page_quit` - the failure of an unrelated task clears the busy flag under a start in flight;
  a second start may follow, and quit does not wait for it.

Met while modelling; the properties that hold are stated around them, and no run is kept for them:

* Authentication. `start_long` discards the profile's session whatever it is by then, one refreshed by
  another request included (`authenticated_operation.py:66`), so two concurrent requests may issue
  STS twice; `src/docs/RELIABILITY.md:17` says at most once.
* Connections. A connection that is in no table yet when a deletion looks is registered after the profile
  is gone.
* Drives in two applications. An edit looks at the cache and stores the row with the lease given back in
  between (`s3_drive_service.py:50`), and a connection elsewhere reads the row before it takes the
  lease: files written through the mount are unsent for a target the drive no longer has, and from
  then on the drive can be neither connected nor edited. A drive whose row another application
  deleted is no longer listed, and stays mounted (`s3_drive_service.py:108`).
* Drives page. `_finish_shutdown` submits the service's shutdown each time a task ends under a quit
  (`s3_drives.py:789`); a second one that fails reports an error after the first has let quit go on.
* S3. An upload has no condition on its target: a key that appeared after the plan is replaced without a
  further question (`s3_service.py:696`), where `src/docs/SECURITY.md:63` requires consent for an
  existing key.
* Terminal. Closing the window reaches the plugin too; when the plugin dies of it before the host's
  handler has sent `console_closed`, the host reports the plugin's exit code
  (`session_host.py:101`) and an orderly close is a failure; `src/docs/RELIABILITY.md:130` promises
  the report before the console closes.
* EC2. The answer of a reap that was asked before a terminal was opened stops the timer of the reaps
  (`gui/ec2_rds.py:738`); the end of that terminal is seen only when something else starts it again.
* RDS editor. What counts as saved is set by callbacks from the fields as they are by then: typed values
  of a new session become the baseline when relays are listed (`gui/ec2_rds.py:1287`), and edits made
  while a save is in flight when it answers (`gui/ec2_rds.py:1538`), so that Connect uses older
  stored values. A session selected before the relays are listed gets the first relay, and Connect
  saves that over the stored one (`gui/ec2_rds.py:1270`). A rename that overlaps a save writes the
  older values back (`rds_tunnel_service.py:125`). Lists of the previous profile may answer late.
* Window. An installation pressed after the look of `request_quit` (`window.py:1459`) is not waited for.
  When two choices of a profile overlap, header and pages may differ until the next choice. A `use`
  that fails leaves the header checking a profile that is not the active one (`window.py:1196`). After
  a reload for another profile the header shows its stored session before it is validated
  (`window.py:1112`); when the validation then fails, at STS for instance
  (`authentication_service.py:104`), the pages stay on the profile before under a header that names
  the new one. The lock of the refresh action is gone with the next menu (`window.py:1051`).
* Stores. Two processes that rewrite the shared credentials file may each lose the other's section
  (`aws_shared_credentials.py:55`), and two that move the default profile may leave none
  (`sqlite_profile_store.py:560`). A death inside a migration leaves a schema no later start accepts
  (`sqlite_profile_store.py:330`). An edit whose second transaction finds the database locked leaves a
  session of the old keys (`profile_service.py:115`). The import's compensation covers application errors only
  (`legacy_import.py:130`).

## 7. What is not modelled

Left out: the gateways' request and error translation (they are steps that succeed or fail), masking and
data protection, diagnostics, settings and log files, read-only projections (dashboard, system
information, endpoint catalogue, execution-log queries), the command line's parsing and output,
notices and the tray, styling and layout, and construction at start (`bootstrap`).

Inside the modelled parts: wording; logging except the end records of terminals; validation of the
contents of profiles and tunnels; favourites and saved locations, which are single statements; search
and paging of S3 listings; folders, which are many keys; the parsing of secrets and the clipboard;
what `status` says of a full or failing cache of a drive. None of them decides anything the
properties are about.
