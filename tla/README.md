# Cyferio: a TLA+ verification development

Cyferio is a web portal (FastAPI, SQLAlchemy) around an OpenVPN server: it
issues and revokes client certificates through `openvpn-install.sh`, ties them
to portal accounts, restricts who may connect from where and how much, watches
devices, audits its host and serves tickets. The modules here model the parts of
it whose correctness depends on the order in which several programs or threads
act on shared state, check them with TLC on small instances, and prove the
central results with TLAPS for every value of the constants.

## 1. Inventory

State lives in six places, and no transaction spans two of them.

| Place | Written by | Lock |
|---|---|---|
| `client_usage.json` | disconnect script (nobody), portal reset (root) | flock on `.lock` |
| `client_policy.json`, `global_defaults.json` | portal, `client_policy_cli.py` | flock for the first, none for the second |
| EasyRSA PKI, installed `crl.pem`, `.ovpn` files, `openvpn_db.txt` | `openvpn-install.sh`, started by the portal or in a shell | the portal's `_script_lock`, nothing for a shell |
| the database (users, roles, links, tickets, settings, audits) | portal handlers, background loops, the recovery tool | transactions and unique columns |
| memory of the portal: settings, answers, snapshot, lists of places | handlers, loops | one lock around each access, none around a sequence of them |
| files and firewall of the host | fixes of the audit over SSH, administrators | none |

The portal is one uvicorn process. `async` handlers run on its event loop, the
others in threads; a session is a signed cookie, so the server keeps none.

| Component | State | Operations | What is hard | What makes it correct | Module |
|---|---|---|---|---|---|
| Quota (host-scripts) | usage rows, policy, sessions | connect gate, disconnect charge, poller, reset, set policy | four writers, reads at different moments, lazy month, failing files, dying server | nobody over quota is admitted, each session is charged once, a hard quota cuts in the end and only when it should | `VpnQuota` |
| Certificates (`openvpn-install.sh`) | index.txt, issued files, two CRLs, registrations | add, revoke, restore, purge, clean, add and remove MAC | scripts of many commands, killed half-way, two runners | a revocation lasts, an issued file is valid, one MAC has one owner, no registration is lost | `ClientPki` |
| Identity (`routes/users.py`, `routes/clients.py`, `vpn_identity_sync.py`) | users, links | suspend, reactivate, delete, erase, link, unlink, create; add, revoke, restore, purge | commit first and script later, failures only logged, concurrent handlers | one to one links, protected clients untouched, no access without an owner | `VpnIdentity` |
| Device monitoring (`device_monitoring.py`) | status, outages | tick, maintenance, settings | commits inside a tick, ticks cut short, edits during a tick | outages and status agree, alerts come after the threshold and as often as the mode says, a lasting outage is reported | `DeviceMonitor` |
| Login and MFA (`routes/auth.py`, `routes/mfa.py`, `auth.py`, `mfa.py`) | counters and locks, links, secret, codes, trusted devices, cookies | login, second factor, enrolment, reset, change of password, edits by managers, recovery | counters read, raised and written back; cookies that outlive what they say; overlapping requests | guessing is slow, a code lets in once, no half of a second factor, no session before it | `PortalLogin` |
| Roles and groups (`permissions.py`, `routes/roles.py`, `routes/groups.py`) | roles, permission rows, groups, members, default | create, edit, delete, move, deactivate; migrations of every start | guard and commit apart, legacy tables read again | somebody can manage users, the bootstrap admin stays, edits survive a start | `PortalAccess` |
| Tickets (`routes/tickets.py`, `routes/me_tickets.py`, `support_tickets.py`) | tickets, reviews, counted actions | file, answer, change, assign, mark, reopen, escalate, bulk | handlers that read an older row, limits that count late | status and stamps agree, no loop of duplicates, the limit holds | `SupportTickets` |
| System audit (`system_audit/`, `audit_remediate.py`) | runs, findings, files and firewall of the host | run, compare, alert, fix, roll back | overlapping runs, failures after the commit, a host that goes on after a time out | a rise is told, a resolution is told once, a fix holds or leaves no trace, ssh is let in | `SystemAudit` |
| Settings (`routes/settings.py`, `app_settings.py`) | the row, its copy, the file of defaults | save | overlapping saves | the copies follow the row | `PortalSettings` |
| Quota notifications (`main.py`) | a row for each crossing of a month | tick, mail, Slack | ticks that fail, abort or are cut | each crossing is noticed, and told once | `QuotaNotices` |
| Mail profiles (`routes/email_providers.py`) | profiles, the default | create, change, promote, delete; adoption of older settings | the flag moves by two statements | one default | `EmailProviders` |
| Policy store, command line (`policy_store.py`, `client_policy_cli.py`) | restrictions, legacy `country` | set, clear, normalise, copy at an upgrade | two programs, two shapes, failing writes | nothing asked for is lost, nothing lifted comes back | `PolicyFile` |
| Script runner (`cli_wrapper.py`) | answers kept, snapshot | ask, store, invalidate, refresh | an answer that crosses a change | no answer older than its time or the portal's own change; the snapshot catches up | `ScriptAnswers` |
| Lists of places (`geo_lists.py`) | lists in memory and on disk | page, build, store | two builders, a database that is replaced | a list is of the database it claims; it catches up | `GeoLists` |
| The process (`main.py`) | how far a start is | start, restart, loops | a start cut between its steps | the six parts above together | `PortalService` |
| Upgrade scripts | containers, volumes | switch, roll back | failure at any step | the old version comes back | - |
| Reports, status, health | read-only | - | - | - | - |
| `app/services/openvpn`, installers | files of the host | one-shot commands | - | - | - |

The components interact by files (quota, policy, defaults), by starting scripts
(identity on certificates, audit on the host), by the database (identity on
accounts, monitoring on links, notifications on settings) and by callbacks from
OpenVPN (the connect and disconnect scripts).

## 2. Modules

| Module | Models | Proofs |
|---|---|---|
| `QuotaLedger` | what the usage file promises: an abstract ledger | |
| `VpnQuota` | OpenVPN's sessions, both scripts, the poller, the shared files, the portal's writes | `VpnQuota_proofs` |
| `ClientCommands` | what the commands of `openvpn-install.sh` promise: each one step, cut short or not | |
| `ClientPki` | `openvpn-install.sh`, command by command, for several runners | `ClientPki_proofs` |
| `ClientScripts` | the scripts as the portal's handlers see them, implementing `ClientCommands` | `ClientPki_proofs` |
| `VpnIdentity` | the handlers of users and clients with the hooks between them, on `ClientCommands` | `VpnIdentity_proofs` |
| `DeviceMonitor` | the tick of the monitoring and the managers who edit what it watches | `DeviceMonitor_proofs` |
| `PortalLogin` | everything that reads or writes an account's credentials, and the cookies | `PortalLogin_proofs` |
| `PortalAccess` | roles, groups, members, permissions, and the migrations of a start | `PortalAccess_proofs` |
| `SupportTickets` | the requests that change tickets, the limit, the reviews, the upgrade tickets | `AuditTickets_proofs` |
| `SystemAudit` | runs of the audit, their comparison and alerts, the fixes on the host | `AuditTickets_proofs` |
| `PortalSettings`, `QuotaNotices`, `EmailProviders`, `PolicyFile`, `ScriptAnswers`, `GeoLists` | one component each | by the next |
| `PortalService` | the process that has these six: starts, restarts, loops | `PortalService_proofs` |
| `MC...` | the instances for TLC | |

### VpnQuota

OpenVPN runs its connect and disconnect scripts on its only thread. So there is
one variable `script`, and while it is not idle there is no traffic, no other
admission and no answer on the management socket; the poller, the portal and
the calendar go on between any two steps of a script. Each read and each write
of a file is a step, because each takes and drops the lock. `usage` is the file
as written, with the row's period; a row of another month reads as zero
(`MonthUsage`), which is `get_usage`. An eviction (a client connects while its
name has a session) runs the disconnect script first, then the connect script
(`reconnect`). Gates 2 to 6 and the MAC gate are one nondeterministic refusal.
Two history variables, `clean` and `soft`, say which admissions worked with
real and unedited data and which clients have been soft all through a run of
the poller; no action reads them.

`VpnQuota` implements `QuotaLedger` under the mapping `owed <- Used`,
`meter <- bytes`: what the file answers, not what it stores, is the ledger.

### ClientPki

A runner is in at most one command script (`job`), and each command of it that
changes a file is a step. Certificates are serials: a name may have many, one
is issued at a time. `sed -i` and the loop of `do_remove_mac` read the database
in one step and replace it in another, appends are one step. `easyrsa gen-crl`
is two: it lists the R rows of the index (`ListRevoked`, kept in `listed`), then
puts its list in the place of `pki/crl.pem` (`GenCrl`); nothing locks the two
together. `Kill` ends a script after any command. The portal's time limit kills
bash only: a command that has started completes, here before the next script
starts; where the subshell that holds `revoke` and `gen-crl` outlives bash and
meets the next script, it is a second runner. Names are compared letter by
letter, but for the lines that `--add-mac` and `--remove-mac` look for, which are
compared in lower case (`Lower`, `LinesLike`). EasyRSA is external:
`build-client-full` refuses a name with files, `revoke` marks the row and moves
the files away, each in one step. The server's own certificate and the first
client of the installation are left out.

### ClientCommands and ClientScripts

`ClientCommands` is the contract between the scripts and the portal: for each
command the check on its client (`Accepts`), what it leaves when it ends by itself
(`Results`) and what it may leave when it is cut short (`Halfway`). It speaks of
the four things of a client that the handlers can tell apart: files issued, a
valid certificate that lost its files (`stray`), an R row (`past`), a registered
address (`mac`). `ClientScripts` adds one history variable to `ClientPki`,
`seen`: these four, read off the real files whenever no script is running, which
is when a handler goes on after its script. `ScriptsAreCommands` says that `seen`
changes as `ClientCommands` has it, one client and one command at a time. On the
other side `VpnIdentity` extends `ClientCommands` and changes `pki` by commands
of it (`HandlersRunCommands`). So whatever a script really leaves behind is among
what the handlers are checked against. With a shell beside the portal the
contract does not hold: two interleaved scripts are not one after the other.
Of `--remove-mac` the contract says what the script does: it may take the named
address of other clients whose names differ in nothing but case.

### VpnIdentity

Each manager has one request running. A step is a commit, a script, or the read
that precedes one; requests of different managers interleave at steps. A script
is one step, of `ClientCommands`; one that fails may not have run, or may have been
killed at the time limit and have left anything the contract allows.
Names: an account that is made for a client has the client's name (the code
lower-cases it; two clients that differ only in case share one account name,
and the second is then left unlinked as in `AutoLink`). A link row whose user
vanished is refused by the foreign key, which PostgreSQL enforces; SQLite, the
test backend, does not, and there `OneToOne`'s second part relies on timing.
`calm` is a history field: no other request ran and no script failed or was killed
since the request began.

### DeviceMonitor

One process runs one loop (`uvicorn` with a single worker), so that there is one
tick at a time. Its steps are bounded by what another transaction can see or a
failure can separate: the commits, and the deliveries that may commit (`_notify`
writes a Slack log or an audit record, each with a commit of its own). `sess` is
what the session would commit, `db` what it has; `CutTick`, an exception or the
end of the process, throws the difference away. A commit expires what the session
has read of the links, so that `view` is empty until the next use (`Read`): the
tick works on the settings of its start until its first commit. A notice counts
as sent when `_notify` is called, since the code counts it so, delivered or not.
`story` is history, per device and episode. The link is never removed here:
`VpnIdentity` has that, and a tick that meets a removed link is one that is cut
short. Minutes are the unit of `now`.

### PortalLogin

`async` handlers that do not wait for anything inside run one at a time on the
event loop, the others in threads; a request (`job`) reads the account, works,
and commits the columns it has changed, as SQLAlchemy does (`Merge`): the
columns are written from what was read, the others keep what another request has
written since. Those two moments are the two steps of a request. Its cookie is a
copy too, and the last response wins. Passwords are right or wrong; secrets,
codes, links and device tokens are numbers drawn in order (`ids`), of which a
browser may show any. `MFA_ENCRYPTION_KEY` unset means a new key at each start,
after which stored secrets cannot be read (`lost`). The captcha, restrictions
of address and country and the maintenance mode are one refusal at the door.
An enrolment, a renewal of the codes and what ends an enrolment (one's own
disabling, a manager's reset) are requests in threads like the others: the DELETE
of the recovery codes may take effect at any moment between read and commit, and
the commit writes only the columns that differ from what was read (`Disabled`).
The recovery tool and a manager's PATCH of one column are one step each.
`story`, `opened` and `shown` are history: wrong guesses since the counter was
last zero, how many requests committed over a row that had changed meanwhile in
what they change (`late`), whether a reset that had read the account before it
enrolled took its codes (`bared`), how often a code let in, who showed a second
factor. No action reads them.

### PortalAccess

A permission is one bit per role and object, `can_manage`, which all the guards
of the handlers modelled here ask for. A handler checks (`Begins`) and commits
later (`Commits`), or does both at once where nothing is read between. A foreign
key that no longer holds makes the commit fail. A start is a step for each of
its commits, in their order (`stage`), and may stop after any of them: system
roles and missing permission rows (`Seed`), the bootstrap admin's role (`Promote`),
the super group (`Pin`), then the migration of the former release's tables, which
stay where they are and are read again by each start. That migration works on a
session without autoflush: an audit record commits, in its middle, what was
placed up to there (`Reduce`), and its last query sees the table and not the rest,
so that those placed since count as homeless and get the fallback group over what
was chosen for them (`Fallback`). `loose` is history: the bootstrap admin is
suspended, and somebody has since lost access in a way that no guard looks at.

### SupportTickets

A handler's step reads the tickets it is about and checks them, its next one
commits the columns it changed, and a counted action of an owner is logged by a
third. Bulk requests are the same over a set of tickets and skip what they may
not change. Messages, attachments and notifications have no effect on the state
and are left out. A handler has the rows as it read them (`view`) and as it wants
them (`change`, with "now" for a time stamp it sets); its commit writes only the
columns in which the two differ, as the ORM does. `raced` is history: tickets
that changed between a handler's read and its commit. What an older version left
(`Legacy`) is assumed to be in order (`LegacyAssumption`), since its code stamped
and marked in the same way.

### SystemAudit

A run reads the previous complete run, the files, then the firewall, commits
findings and status, then alerts and audit record; an error after the commit
makes it failed. A fix is a process on the host (`fix`): it edits the last
occurrence of a directive, validates, reloads or puts the backup back; or sets a
mode; or lets ssh in and switches a firewall on. The portal stops waiting after
a time, the host goes on. A missing or timed out `sshd -t` or reload raises past
the roll-back. The firewall is either of ufw and firewalld, sshd's main file names a
port that administrators may change (`EditPort`), and sshd listens on the port it
has last read (`live`). What sshd does with a directive given twice is not
part of this: the audit and the fix agree on the last one, sshd takes the first
(see the list below). `held`, `touched`, `overlap` and `lost` are history.

### PortalService and its parts

Each part has its variables, its `Init` with the bound of its work and its steps;
`PortalService` runs them in one process and adds the start: the older mail
settings are adopted, the restrictions of the upgrade are copied client by
client, the marker is set, then the portal serves. A restart ends the threads
anywhere and starts again with the settings, answers and lists of the files and
the database; shells and the month go on. `QuotaNotices` extends
`PortalSettings`, whose copy it reads: the thresholds of a tick are those of the
copy at its start.

`PortalSettings`: a save reads the row, checks the row as it would become,
commits the columns that differ, reads again, rewrites the copy and then the
file of defaults, which may fail unnoticed, as at a start (`behind`).
`EmailProviders`: a request is split where its session talks to the database.
`PolicyFile`: a writer takes the lock, reads, and replaces; the death of its
process frees the lock; a file that cannot be read counts as empty (`blind`), so
that the write after it leaves one entry (`gone`: whose went). An entry has the
list, the single country of older versions and the rest. `due` is what the
writes asked for make one after the other. `ScriptAnswers`: the files' contents
are the number of changes they have seen, and `over` counts how long each
contents have been out of date, up to `Ttl`. `GeoLists`: a database is the
number of its release.

## 3. Runs and what they show

| Run | Instance | Shows |
|---|---|---|
| `quota` | 1 client, quotas 0 and 2, 3 units of traffic, 2 months, 3 edits, failing writes and crashes | soft clients are spared; a hard quota cuts in the end |
| `quota_shared` | 2 clients, quotas 0 and 1, every fault | admission under quota; the ledger is implemented |
| `pki` | portal alone, 3 names of which 2 differ in case only, 2 addresses, 3 certificates, kills | one owner per address, reported revocations are on the CRL, registrations kept; each script is a command of the contract |
| `pki_shell` | portal (allowed duplicates) and a shell, 2 names, 1 address, 2 certificates, kills | violated: finding 1 |
| `identity` | 2 managers with a client each (one the bootstrap admin), one migrated, revocations and purges that fail or are cut short | links one to one, protected clients untouched, no orphan access |
| `monitor` | 1 device, thresholds 1 and 2, both modes, 2 edits, 2 changes of the snapshot, 1 tick cut short, time 0 to 2 | history agrees, one alert per outage, recoveries answer alerts, alerts after the threshold, a lasting outage is reported |
| `login` | 1 account, 1 browser, 2 requests at a time and 4 in all, threshold 2, 4 random values, 1 edit, reset by a manager or restart, time 0 to 2, a key of the process only | guessing is slow, codes let in once, a second factor is whole, no session without it |
| `access` | bootstrap admin, 2 users, VPN clients of the bootstrap admin and of one of them, 2 requests at a time, 3 requests and restarts, 1 own role, 4 groups and the super group, 4 objects, 2 legacy groups with members in both | somebody manages, the root is pinned, edits survive |
| `tickets` | 2 tickets left by an older version and 1 more, 1 assignee, 2 requests at a time, 3 in all, limit 1, time 0 to 1 | stamps agree with the status, no loop of duplicates, the limit holds |
| `audit` | 1 directive, ufw and firewalld, 2 ports, up to 3 runs, 2 at once, or 2 fixes and an edit, every fault | rises are told, resolutions told once, fixes hold or are rolled back, ssh is let in |
| `service` | one kind of work a behaviour: 2 saves by 2 threads, 3 requests for 2 mail profiles, 2 writes by portal and shell with a file that cannot be read or written, 2 users over a month's end with a failing database, 1 change of a client with a failing script, 2 pages and 2 builders with a release or a failure; 1 restart where it can disturb | copies follow, one default, noticed once and always, restrictions kept, answers fresh, snapshot and lists catch up |
| `service_mail` | the same, quotas being used up | violated: finding 2 |

Every run also counts on the ASSUMEs of its modules, which TLC evaluates.

Why the bounds are enough. Quota: the comparisons are with the quota alone, so
that one unit below, at and above it are all there is; two months show a charge
that is late, on time and on top of an old row; three edits let the enforcement
be switched on, off and on during one run of the poller, one edit is enough for
any pair of reads. Two clients are needed for a rewrite that loses the other's
row. PKI: three certificates let a name be revoked, issued again and revoked
again while another name has one; three names let one client's command meet
another's lines in another spelling and leave a third alone. With a shell two
certificates are enough for two lists that differ. Identity: a second manager is
needed for every race of handlers; races about links need two clients. What a
PATCH asks for (`Patches`) is one change of the account; restores and adds that
are cut short are left to the proofs, which hold for every `Faults`. Monitoring:
devices meet only in the moments of the commits, which one device has at every
place already (`MayCommit`); two changes of the snapshot are an outage before
and after a reconnection, two units of time an alert and its repetition. Login:
accounts share only browsers, and a browser matters to its own cookie; two
threads are one on the loop and one beside it; with a threshold of 2 and a lock
of 1, three wrong guesses must have waited, and the fourth request overtakes; a
reset, an enrolment and a renewal of codes are within the four. Access: a check
and a commit of two handlers with a restart between are three requests, as are
the revocation of the bootstrap admin's client and two removals after it; the
group ids are the two legacy ones, the fallback and a new one, the members are
one with several legacy groups (an audit record, a commit) before whom comes one
with a single group. Tickets: a loop of duplicates needs two marks, an overtaken
stamp two handlers on one ticket, the limit two requests. Audit: a resolution
told twice needs three runs, a rise missed needs two; a port that is moved needs
one edit before, or between rule and switch. Service: the parts share the
process only, so that what a restart cuts is one part's work at a time
(`Works`); a pair of overlapping requests and one restart are what each property
can meet in a part, and the users of a tick are two so that one can be told and
the other not. The bounds are constants in every module, and the proofs do not
depend on their values.

Deadlock is looked for in `quota`, `quota_shared`, `pki`, `pki_shell` and
`service`; in `service` it says nothing, since time can always pass. The
other runs may stop: the requests and the time are spent, or two managers have
locked each other out.

Fairness. In `VpnQuota`, `FairSpec` has weak fairness for the scripts (OpenVPN
waits for them, and they end), for the poller's own steps, and strong fairness
for its use of the management socket, because the timer starts a run every 45
seconds for ever and some run finds OpenVPN between two scripts with a socket
that answers. Clients, administrators, faults and the calendar owe nothing.
`HardCutoff` is checked with every read reliable, since a policy that can never
be read is never enforced; failing charges, sockets and servers are part of the
run. In `DeviceMonitor` the loop is weakly fair (`while True`, every exception of
a tick is caught, main.py:211-219) and so is time; managers, the snapshot and
failures owe nothing, and only finitely many ticks are cut short, without which
no tick need ever end. In `PortalService` the steps of a start, the loops of the
notifications and of the snapshot (each `while True` with its exceptions caught),
the threads that serve pages and build lists, the writers that wait for a file
lock and time are weakly fair; whoever asks for something is not, nor are
restarts and failures, of which there are finitely many. The three liveness
properties say what they assume of the environment in their premise: that a quota
stays crossed, that the loop goes on, that pages are opened.

Symmetry is used in `pki` (the two names alike, the addresses), `pki_shell`,
`login`, `access`, `tickets` and `audit`, runs of invariants and action
properties without liveness.

The abstract specifications: `QuotaLedger`, which `VpnQuota` implements under
`owed <- Used`, `meter <- bytes` (run `quota_shared`, theorem `LedgerRefined`);
`ClientCommands`, which the scripts implement under `pki <- seen` (run `pki`,
theorem `ScriptsRefineCommands`) and the handlers use (`HandlersRunCommands`);
in `PolicyFile` the variable `due` plays that part for the restrictions, the
result of the same writes done in one step each.

## 4. Findings

1. Two revocations at once can lose one from the installed CRL (run `pki_shell`,
   property `ReportedRevoked`): `easyrsa gen-crl` (openvpn-install.sh:320) reads
   the index and replaces `pki/crl.pem` at two moments, and the script locks
   nothing, so that of the portal and a shell the one with the older list may be
   the last to put it there. Both have reported success, and the certificate that
   is missing connects again until the next revocation makes a new list;
   openvpn-install.sh:427 says "a revoked cert must stay revoked forever". The
   portal by itself runs one script at a time, for which the property holds.
2. The mail of a critical crossing is never sent (run `service_mail`, property
   `CriticalMailed`): main.py:170 calls `mailer.send_admin_notification` without
   its required keyword `db` (mailer.py:365), so that with this mail switched on
   a critical crossing raises TypeError after its row was committed. Neither the
   mail nor the Slack message of that crossing goes out, and the other users wait
   for the next tick; models.py:1061-1066 promises the mail.

Disagreements between a text and the code that were met while modelling and have
no run of their own. Those that end in a name in brackets are behaviours of the
models which a property names as its exception: the property holds for
everything else and does not catch these. The others show in the models and no
property is about them. What follows an "outside" concerns wording or parts that
are left out, up to the end of its item.

Quota and certificates
- The poller adds `get_usage`, read after the session list, to the bytes of that
  list: a session that ended in between counts twice, and the kill, by name,
  hits the session the client has meanwhile.
- Outside: `do_set_bandwidth` says the quota is weekly; it is monthly. The
  disconnect script's header says that there is no polling daemon and that it
  alone writes the usage; there is `quota_enforcer.py`, and the portal's reset
  writes too.
- Names are case-sensitive (openvpn-install.sh:230-231), but `--add-mac` and
  `--remove-mac` compare the whole line without regard to case (643, 679, 705):
  `--remove-mac Bob` takes the address of `bob`, and `--add-mac` refuses it to
  `Bob` as already his (hence `Alike` in `RegistrationsKept`).
- Purge and restore ask whether some certificate of the name was revoked; a
  revoked name that was added again loses the files of its valid certificate
  (openvpn-install.sh:376 against 364).
- Unlinking and linking again loses the protection of a migrated client; a
  suspended and reactivated account does not get its VPN back, since the
  suspension removed the address that the reactivation looks for; revoking the
  bootstrap admin's own client deactivates the account nobody may deactivate
  (vpn_identity_sync.py:125 against users.py:1243-1246).
- models.py:1227-1229 says that the status of a device is reset when its
  monitoring is disabled; `update_client_monitoring` leaves it alone, so that a
  device watched again later continues the outage it left.

Login
- `mfa_setup_required` (models.py:386-389) is set by three writers and read by
  no login: enrolment is not forced (routes/auth.py:258-269). A user whose
  secret cannot be decrypted is stuck on failing codes, though mfa.py:58-60 says
  that it "just needs to re-enroll".
- models.py:251-252 says that `must_reset_password` is cleared by
  `update_my_profile` only; auth.py:426 and users.py:1318 clear it as well.
- "Reset MFA" says that it clears the enrolment "entirely (secret + recovery
  codes)" (users.py:1484-1485). A reset that has read the account before it
  enrolled deletes the codes of the enrolment, and writes none of the columns,
  which it found as it would have them: the account is enrolled without codes
  (hence `bared` in `EnrolmentWhole`).
- Trusted devices survive a reset of MFA. A reset link can be used twice at once.
- A reset of the password that a wrong guess has overtaken leaves a lock with
  the counter at 0, and a second one may take a lock and leave the counter
  (hence `late` in `GuessRate`). Two late enrolments can leave an account
  enrolled without a secret (hence `late` in `EnrolmentWhole`).

Access
- The bootstrap admin "can never be demoted, deactivated, or (soft-)deleted, by
  anyone" (users.py:1243-1249), but the revocation of its own VPN client suspends
  it (vpn_identity_sync.py:117-126). From then on two removals at once, the
  revocation of another manager's client, or an edit of roles and groups can
  leave nobody who manages users (hence `loose` in `SomeoneManages`).
- The migration says that it is idempotent, "a true no-op" the second time, and
  skips groups and users that were handled (permissions.py:440-454, 469): a role
  taken from a group or a member removed looks unhandled, and the next start
  gives it back from the legacy tables.
- The session of the migration does not flush before its last query, so that whom
  step 2 has just placed (permissions.py:505-515) counts as homeless and gets the
  fallback group in step 3 (531-556), unless an audit record, which is written for
  a user with several groups, has committed the placement: a legacy member of one
  group, after whom no such user comes, ends in the fallback group.
- `_role_rank(None)` is 2, which prefers a group without a role to the roles user
  and viewer (permissions.py:401; the text at 449-452 says otherwise).
- Deleting a group clears the group of the members it
  read, also of one that has moved meanwhile.

Tickets
- tickets.py:705-707 speaks of a flat tree; only the parent's own mark is
  checked, so that a ticket with duplicates may become one, and two concurrent
  marks may lock both tickets (hence `raced` in `NoDuplicateLoop`).
- A reply moves a finished upgrade ticket to `waiting_for_user`, though "a
  terminal status can only move to open" (support_tickets.py:101-103). Reopening,
  escalating and claiming ignore `locked` (models.py:1356-1361).
- Two concurrent review requests of one rejection file two tickets
  (me_connection_issues.py:255-258). Bulk assignment does not move an upgrade
  ticket to `assigned`. Outside: notifications go to the assigned admin only, also
  when deactivated; the owner of a duplicate is told to continue on a parent it
  may not open.

Settings, mail, policies, answers, lists
- The first mail profile becomes the default even when it is created disabled,
  against models.py:856-859. Two promotions at once leave two defaults, a
  promotion next to a delete none, though email_providers.py:207-210 says
  "even under a concurrent request" (hence `clash` in `OneDefault`). A restart
  after all profiles were deleted makes one from the legacy settings again.
- Two saves that change one threshold each pass the check and leave the warning
  above the critical level, after which every save is refused. Overlapping
  refreshes leave an older copy until the next save or start (hence `mixed`).
- A restriction whose copy fails during the upgrade is skipped and the marker set
  all the same: it is lost. policy_store's header calls PUT /{name}/policy the
  sole write path; users.py:1007, 1173 and 1446 call `set_policy` too. A file
  that cannot be read counts as empty (policy_store.py:83-91), and the next write
  drops its entries (hence `gone` in `PoliciesKept`).
- `write_global_defaults` says that the file is "always kept in sync" and that
  its failure only brings the enforcer's built-in default; it is swallowed
  (policy_store.py:371-374) and leaves the enforcer with the former value until
  the next save or start that succeeds (hence `behind` in `CacheFollows`).
- The command line writes the legacy country, which is ignored once a list is
  there, and its "-" does not clear a list, though its usage says so.
- An answer read before a change and stored after its invalidation is given for
  up to three seconds, against cli_wrapper.py:211-214 (hence `crossed`). The
  first of two builders to end clears the mark that the other still builds.
- Outside: `bell_enabled` is said to be asked before a row is written
  (notification_prefs.py); it filters what is shown. Reading all notices marks
  the hidden ones too. Two first requests can make two default workspaces.

Audit
- Every severe finding of the first run is alerted though its counts say that
  nothing is new. Overlapping runs tell a resolution twice (hence `InTurn` in
  `ResolvedOnce`). A module of checks
  that raises, or a probe that fails, makes findings resolved and then new.
- A run that fails after its commit keeps its findings, and a run that has read
  it keeps it as its baseline; a crash leaves it running for ever and loses its
  alerts (hence `lost` in `NoSilentRise`).
- An `sshd -t` or a reload that is missing or takes too long (audit_remediate.py:
  195-197, 255) raises without restoring the backup, though "the previous,
  known-working config stays live the whole time" (213-216): the edited file
  stays for the next reload, whoever does it (hence the exception in
  `RollbackWhole`). A mode is shown as fixed without a look at it. Outside: two
  backups of one second collide.
- Outside: sshd takes the first occurrence of a directive, audit and fix the last.
- With firewalld the rule is for the service ssh, port 22: a moved port is cut
  off, against audit_remediate.py:294-297 (hence `StdPort` in `SshLetIn`). After
  a time out the portal answers 502 and the host goes on.

## 5. Proofs

Assumptions are the named ASSUMEs of the modules (`QuotaAssumption`,
`PkiAssumption`, `IdentityAssumption`, `MonitorAssumption`, `LoginAssumption`,
`AccessAssumption`, `AuditAssumption`, `TicketAssumption`, `LegacyAssumption` and
those of the seven modules of the service): constants have their types,
sentinels are none of the values, and each behaviour's work is within the bounds.
Nothing else is assumed, no set of actors or values has to be finite unless an
ASSUME says so.

`VpnQuota_proofs`. `IInv` is inductive: besides the types it says that the
client of a running script has no session (`WhoIsKnown`), that periods never
run ahead of the calendar and a late charge never goes below its row's period
(`PeriodsOrdered`), that the quota a connect script holds is the one in force
while it is marked as read (`GateCurrent`), and that a client counted as soft
is soft now and is never the one the poller is about to check or kill
(`SoftHistory`). `AdmissionSound` and `SoftSpared` follow. `PeriodsOrdered` is
also what `LedgerRefined` needs: a charge for an ended month lands on a row that
reads as zero before and after, so that the step is a loss and not a bill.
`ConnectedUnderQuota` is inductive only because a charge goes to the client of
the script, who has no session.

`ClientPki_proofs`. `IInv` adds to the types what holds for any number of runners
interleaved: an issued file is a valid certificate of its name, and the serial of
a running revocation is revoked from its second step on (`RowsRevoked`). The CRLs
are another matter, as finding 1 shows: `RevocationHolds` is about one runner at a
time (`Alone`), as the portal's lock has it. `CrlInv` says that whatever was
reported is in both CRLs and that these list revoked rows only (`CrlsGrow`), and
how far each revocation has come (`RevokeProgress`): the list that it has read
holds `pki/crl.pem` and its own serial, which is in `pki/crl.pem` from the next
step and in the installed one from the copy on. A kill between any two of these
leaves `CrlsGrow`. `OwnersDiffer` and `OwnRegistrations` are about one runner too:
then the rows that a rewrite read are still the rows it
replaces (`SnapInv`), and the address that a command checked is still free when it
is registered (`ClaimInv`). Kills between the check and the write are allowed.
With two runners, a shell and the portal, both are false, as is the first where
a command may allow duplicates (`AllowDup`). That `--remove-mac` looks at names
without regard to case takes addresses away and gives none, so that `OwnersDiffer`
does not depend on it, and `OwnRegistrations` names it.

`ScriptsRefineCommands` is about one runner too. `WayInv` says of the script that
runs how far it has come: at each of its steps, which part of its command its own
client's files show, from their state at its start (`Way`), while those of every
other client are as they were. One lemma a file operation says what it makes of
the four fields (`ClearView` to `RewriteView`), one a step that it goes on along
`Way` or ends in a step of the contract (`ClearWay` to `KillWay`): a kill at any
place of `Way` is in `Halfway` or `Results`. `IssuedIsValid` is needed for a
certificate that is revoked to be the only one with files, `SnapInv` for a
rewrite to take off what the file holds then, and the checks at the start
(`Accepts`) for `build-client-full` and `revoke` not to be refused half-way.

`VpnIdentity_proofs`. A step is the start of a request (`Opens`), a step of one
that runs (`Goes`) or an unlink, and a step of a request ends it or continues it
in a few ways (`Continues`). `IInv` adds to the types what a handler holds at
each of its steps (`Shapes`), that an undisturbed request is alone (`CalmAlone`),
that files are lost only under a name that was revoked (`StrayPast`), how far a
permanent delete has come (`EraseProgress`) and that a handler of the Users page
that is about to run a script has seen a link without protection, while no link
gains protection (`Spared`). `OneToOne` is needed for `Spared`: the link that was
looked at is the only one the client has. `NoOrphanAccess` follows from
`EraseProgress`, which needs `StrayPast` for the purge that is refused: no
revoked row means no stray certificate. `HandlersRunCommands` goes through the
steps that run a script and names the command of the contract and what it leaves.

`DeviceMonitor_proofs`. `IInv` is per device, and its point is what a tick that
is cut short can lose. The step into offline is committed by its own audit
record, so that an open outage and the time it began with are never lost; what
can be lost is the end of an outage, or the mark that an alert was sent, whose
message is out already (`Episode`). The session of a tick that does not run is
what is committed (`AtWork`). So an outage is announced once, and once more for
each tick cut short at most (`AlertedOnce`); the end is told only of an outage
whose beginning was (`RecoveryJustified`), and an alert is sent only when the
device has been dark for the threshold that the tick read (`AlertsDeserved`),
because the start on the row is the first sight of the outage.

`PortalLogin_proofs`. Types first (`TypeInv`); then every step is sorted by what
it does to rows, and four invariants that build on the types. `LockInv`: the
loop has one login or verification at a time (`OneLoop`), a counter is never
below the guesses that were counted, and a lock was set for as many full lock
times as there were guesses above the threshold (`Paced`); what a login has read
is not behind, because whoever else writes the counter resets it. `BarInv` is
the same for codes. `GuessingIsSlow` follows from both; its part about passwords
holds while at most one reset was late, and TLC finds the counterexample for
two, just beyond the bounds of the run. `SpentInv`: a code that opened a session
is gone or marked, the code under verification has opened none
(`CodesAreSpentOnce`). `EnrolInv`: who is enrolled has codes, or was `bared` of
them by a reset that had read the account before; enrolled and having a secret
are the same until a request is late, and a second late one is needed to lose
the secret (`EnrolmentsAreWhole`). Its steps are the deletions of codes, which
may come before or after a request's commit. `TrustInv`: a device that an
account trusts has shown it the second factor, since tokens are drawn once
(`PasswordIsNotEnough`).

`PortalAccess_proofs`. `IInv`: once a start has put the bootstrap admin into its
place it stays there (`Pinned`), because a request that was let through names no
row of the system and never the bootstrap admin (`Harmless`), whatever happens
between its check and its commit, and each stage of a start has done what the
stages before it do; ids are given in order and a portal that is not up has no
requests (`Orderly`). `EditsStay` goes through the commits of a start, each of
which only fills what is empty, also over what an earlier start has left when it
was cut. `RootManages` assumes nothing about who owns a VPN client. While the
bootstrap admin is active it manages; `Guarded` adds that while it is not, and
nothing unguarded has happened (`loose`), somebody manages, and for each removal
that is under way somebody else than its target does.

`AuditTickets_proofs`, the audit. `RunsInv` is about a chain: the severe
findings of a complete run were sent, or will be, by that run or by one that was
its baseline (`Chained`), as long as no baseline was lost. `NoRiseIsSilent` and
`ResolutionIsOnce` (for runs that do not overlap, `InTurn`) follow, with the
well-foundedness of the ids for the latest run. `FixInv` has the rows of a fix
at each step (`WorkRow`, `CleanRow`) and that what is shown as fixed is so
(`HeldInv`) until two fixes overlap. `FixesHold` follows; so do
`RollbackIsWhole`, with the two steps a missing or slow tool may end at, and
`SshIsLetIn`, for ufw and for firewalld on the standard port, both in one system
with a port that is edited.

`AuditTickets_proofs`, the tickets (in one module with the audit, with which they
share nothing). `TicketInv` adds to the types what a thread has in hand
(`HandlerInv`): each draft is sound against the row that was read (`Sound`: who
writes a status writes its time with it, and clears times only when it leaves
the states they belong to), and a reference is written only to a ticket that was
read and found to be no duplicate (`Marks`). The commit writes single columns
over a row that others may have changed meanwhile, and `UpdatedStamps` shows
that soundness is enough for `StampsHold`. For `DuplicatesEnd` a commit over
an unchanged table closes no loop (`NoLoopMade`), because whoever is marked gets a
parent that is no duplicate. `RateHolds` needs to count what is not yet in the
log: audit rows in the window, plus requests in progress that will be counted,
are at most the limit and the threads less one (`LimitInv`). A request that is let
through saw fewer rows than the limit, and no more than the threads are in
progress; a commit moves a request to its audit row and the row moves it into the
log.

`PortalService_proofs`. Each part has an invariant and a lemma that says which
steps touch the part at all (`SettingsFrame` and the like), so that a part is
proved as if it were alone with the start and the restarts. `SettingsInv`: without
overlap there is one save, it holds the row, and the copies differ from the row
only between its commit and its writing of them, or by a file that could not be
written (`behind`). `ProfilesInv`: without overlap
what a request read is still so. `NoticesInv`: the row stands before the message.
`PoliciesInv`: who has read the file holds the lock, so that the file is as it was
read, and the file is always what the writes asked for have made, but for the
entries that went with an unreadable file (`gone`); a start copies nothing once
the marker is set. `ListsInv`: a list carries the time of the
database before the walk, so that it is as new as its stamp, or newer, in all the
places a list can be in. `AnswersInv`: an answer is of the contents at its
reading, or of contents that have been out of date for no longer than the answer
is old, through `run`, `put` and the cache.

Only model-checked: `HardCutoff`, `EventuallyReported`, `EveryCrossingNoticed`,
`SnapshotCatchesUp` and `ListsCatchUp` (liveness under fairness is out of the
prover's reach), and what the two violated runs show, whose counterexamples are
TLC's. Every invariant and every action property of the passing runs has a
theorem. The `TypeOK` of a module is proved (`TypeCorrect`, `TicketTypes`)
instead of run; the types of `SystemAudit` and of the service are parts of their
invariants.

## 6. Not modelled, and the plan

In the order of their weight:

1. `UpgradeSwitch`: the upgrade's steps with a failure at each of them.
2. The rollback of `app/services/openvpn/client_manager.py`'s add, a Python port
   of the script that the portal's handlers do not call.
3. `DeviceMonitor`: a link removed while it is watched.
4. `PolicyFile`: `remove_policy`, the check of each field; `PortalLogin`: the
   password history, the two restrictions at the door; `PortalAccess`: the five
   weaker permissions and the scopes.
5. Requests of `PortalLogin` that are one step: a manager's PATCH of one column
   and each act of the recovery tool, whose read and commit are taken together.
6. `ClientPki`: the update of the index by `openssl ca` is one step; two at once
   are not interleaved inside it, nor is its lock file modelled.

Left out for good: rendering, mail and Slack transports, GeoIP look-ups, log
parsing and reports, the probes of the audit, the address mirror, the audit log
(append-only) and the installers, which are input and output without a protocol
of their own; floating-point quotas, which TLA+ has no numbers for.
