# A TLA+ model of vt-yubi

vt-yubi keeps secrets and SSH keys encrypted on disk, under a passphrase that
only a YubiKey can open, and asks for a touch of the YubiKey before it signs,
decrypts or approves a `sudo`. This directory holds TLA+ modules that model the
program in `src/`, configurations that check them with TLC, and proofs that the
TLA+ proof system checks. `PROJECT.json` lists for every definition the source
lines it stands for, the runs, the theorems and the hazards.

Run a check with `tlc -config agent.cfg MC_SshAgent.tla` (every `.cfg`
belongs to the `MC_` module the table of runs names), a proof with
`tlapm SshAgentProofs.tla`.

## 1. The system

| Component | State | Operations | What makes it correct |
|---|---|---|---|
| SSH agent, `ssh_agent.rs` | `keys`, `locked`, `lock_passphrase`, `idle_cleared`, `last_activity`, `auth_cache`, each behind an `RwLock` of its own | `request_identities`, `sign`, `extension` (`encrypt@vt`, `decrypt@vt`, `auth@vt`), `add_identity`, `remove_identity`, `remove_all_identities`, `lock`, `unlock`; the idle sweeper, the cache sweeper | every approval is touched for, or covered by a grant to the same caller for the same key; a locked agent gives nothing away and gains nothing; keys, lock state and file agree; every request is answered |
| Approval cache, `AuthCache` in `ssh_agent.rs` | expiry per caller and fingerprint | `is_authorized`, `grant`, `clear`, `sweep_expired` | a grant lasts for the configured time from the last touch, and no longer |
| Key file, `yk_backend.rs` 510-533 | `ssh_keys.enc` | load, save | what was acknowledged is in the file |
| SSH key commands, `ssh_cli.rs` | none of their own | `ssh add`, `list`, `remove`, `remove-all`, `comment`, `show` | they change the file the agent works on |
| Secrets index, `cli.rs` | `secrets.json` | `create`, `list`, `delete`, `read` | a number means the entry the listing shows |
| Inject, `cli.rs` 504-717 | a file, its backup `<file>.vt`, an output file, a sleeping child | `inject` | decrypted files go away, references are not lost |
| Provisioning, `yk_backend.rs` 202-400, `cli.rs` 746-784 | slot 9d, `passphrase.enc`, `auth_token.enc`, `config.toml` | `init`, `init --pubkey`, `secret import`, `secret export` | a setup that is there works, whenever a command died |
| Caller contexts, `proc_info` and `get_peer_pid` in `ssh_agent.rs` | the process table | `get_tty_dev`, `find_app_pid`, `describe_caller` | one context, one terminal or application |
| Agent socket, `run_ssh_agent_inner` | `~/.ssh/vt-yubi.sock` | start, stop | an agent that runs alone can be reached |
| HTTP server, `serve.rs` | copies of passphrase and PIN | `/encrypt`, `/decrypt` | no decryption without a touch |
| Client, `VTClient` in `cli.rs` | none | `encrypt`, `decrypt`, `auth`: agent first, HTTP as fallback | a request is made once, of one of them |
| Secret strings, `core.rs`, `security.rs` | none | `do_encrypt`, `do_decrypt`, AES-GCM, the double hash; the substitution in `cli.rs` | a reference stands for its own secret |
| Audit log, `audit.rs`; command line, `main.rs`; installation scripts | files that only people read | | |

How they interact. Clients reach the agent over its socket; tokio runs one task
per connection, and the tasks and the two sweepers share the agent's state.
Agent and commands share `ssh_keys.enc` without any lock. The client commands
ask the agent (or the HTTP server) to encrypt and decrypt, and share
`secrets.json` and the files of `inject` among themselves. `serve` runs agent and
HTTP server in one process with the same secrets.

What is hard here: an approval that is checked, waited for and recorded in
three steps while the agent is locked, unlocked, swept and restarted around it;
locks that are held across a touch of many seconds; files that are loaded,
changed, truncated and written by several processes that may die at any point;
a cleanup child that races with its parent and with other injections; a process
table that changes while the agent reads from it whom an approval is for; servers
that take socket and port from each other while a client waits. The list
`hazards` of `PROJECT.json` has them line by line with the properties that would
notice them go wrong, or with a note that says why none does.

## 2. The modules

| Module | Models |
|---|---|
| `SshAgent` | the agent, the SSH key commands and `ssh_keys.enc` |
| `TouchGate` | what the agent promises about approvals (abstract) |
| `AuthCache` | the approval cache with its clock |
| `TouchWindow` | what the cache promises (abstract) |
| `Callers` | the process table, the context of a request, and the cache below it (extends `AuthCache`) |
| `SecretStrings` | secrets as text, `do_encrypt`, `do_decrypt`, the substitution of `inject` |
| `Remote` | servers on socket and port, `VTClient`, the commands that use it (extends `SecretStrings`) |
| `OneShot` | what a client command promises (abstract) |
| `SecretsIndex` | `create`, `list`, `delete`, `read` and `secrets.json` |
| `Injection` | `inject`, its files and its child |
| `Provision` | `init`, `init --pubkey`, `secret import` |
| `MC_*` | constants of the instances that are checked |
| `SshAgentProofs`, `SshAgentRefinement`, `CallersProofs`, `SecretStringsProofs`, `RemoteProofs`, `SecretsIndexProofs`, `InjectionProofs`, `ProvisionProofs` | theorems |

In the modules, a definition whose comment begins with *Fault:* is a mistake the
code could have made. No action uses it; replacing the correct definition by it
must make TLC report the property, which is how each property is shown to speak
about the code. The pairs are under `mutants` in `PROJECT.json`.

### SshAgent

A step runs from one point at which a task can be overtaken to the next, that
is from one `await` (or one file operation) to the next. `pc[s]` says where the
handler of connection `s` is; `req[s]` is the request, `snap[s]` the entries it
has loaded and not yet stored, `reply[s]` the last answer.

| Handler | Steps |
|---|---|
| all: `if *locked` | `RefuseLocked`, or `KeysStart`, `ExtensionStart`, `AddStart` |
| `ensure_keys_loaded` | `PeekKeys`, `ReadIdleFlag`, `LoadKeys`, `StoreReloaded` |
| `request_identities` | `KeysStart`, ensure, `ListKeys` |
| `sign` | `KeysStart`, ensure, `FindKey`, then the approval |
| `extension` | `ExtensionStart`, then the approval (`encrypt@vt` has none) |
| `check_or_prompt_auth` | `CheckCache`, `Touch`, `GrantAuth`, `Answer` |
| `add_identity`, `remove_identity`, `remove_all_identities` | `LoadEntries`, `TruncateFile`, `WriteFile` or `SaveFails`, `WriteKeys` |
| `lock`, `unlock` | `Lock`, `LockKeys`; `Unlock`, `UnlockKeys` |
| idle sweeper | `SweepCheck`, `SweepClear` |
| cache sweeper and expiry | `Lapse` |
| the commands | `CommandStart`, `CommandLoadEntries`, `TruncateFile`, `WriteFile`, `SaveFails` |
| processes | `Crash`, `StartAgent`, `CommandDies` |

Three locks last longer than a step and are modelled: `locked.write()` from the
first step of `lock` and `unlock` to the last (`LockFree`), `keys.read()` of a
signer from the lookup to the answer (`KeysReaders`), and the writers of `keys`
that wait for those signers (`KeysFree`). tokio's `RwLock` also keeps new readers
waiting behind a waiting writer. The model lets them pass, which only adds
behaviours; no task takes `keys.read()` twice, so waiting readers cannot close a
cycle that the model misses.

Data is abstracted to what the properties tell apart: a key is its
fingerprint, a lock passphrase its hash, a caller context a model value,
`last_activity` the Boolean "old enough", an entry of the cache is in the set
`cache` while it has not expired. `check_or_prompt_auth` looks the context up
for every request; the model fixes it per connection (`ContextOf`), because a
connection belongs to one peer. What the lookup itself may get wrong is the
subject of `Callers`.

A save is `std::fs::write`: the file is truncated in one step and written in
another. Two writers that overlap leave the text of the later one, or the tail
of the longer behind the shorter, which does not decrypt (`fileState` "mixed").
`StoredOrNone` is the `unwrap_or_default` of the agent's handlers, which the
commands do not have.

### AuthCache

`AuthCache` has the map itself and a clock in ticks. Expired entries stay until
they are swept, as in the code, and `Live` is the comparison of both
`is_authorized` and `sweep_expired`.

### Callers

`Callers` extends `AuthCache`: its state is the cache with its clock, the process
table (`alive`, `ppid`, `tty`, `app`), and per connection a handler that is inside
`check_or_prompt_auth`. Every look at the process table is a step of its own,
since processes exit and are adopted by init between two of them: `GetTtyDev` for
mode per-session; `GetProcPath`, `WalkUp` and `FallBack` for the loop of
`find_app_pid`. A connection may outlive its peer. `line` and `toucher` are there
for the property only: what a process descended from when the table was set up,
and whose touch granted an entry. Processes that are born later are in the table
from the start, which makes no difference to what is read of the others. A pid
is not given out again.

### SecretStrings, Remote

A text is a sequence of words and references; a reference is the type of a secret
and the text sealed in it, so that `do_decrypt` can be written down without a
cipher. Everything that becomes of a text is written as the flattening of what
stands for its tokens, and `Substituted` as a recursive function, both of which the
prover can unfold. `SecretMap`, `Orders` and `Substituted` are the three loops of
`decrypt_from_multi_str`, `InjectTexts` and `Taken` the pushing and popping of
`inject`. `Meant` is the reference definition: every reference stands for its own
value.

`Remote` has processes that serve (`stage` for the agent, `http` for the server
beside it; both end together), the file of the socket, which belongs to whoever
bound it, and callers.

| Code | Steps |
|---|---|
| `serve`, `run_ssh_agent_inner` | `StartServer`, `LoadKeys`, `LookForSocket`, `RemoveSocket`, `BindSocket`, `BindHttp` |
| the signal handler, and every other end | `SignalRemoves`, `EndServer` |
| `VTClient::encrypt`, `decrypt`, `auth` | `Begin`, `Connect`, `WithoutAgent`, `Post`, `Lost` |
| `extension` of the agent | `AskAgent`, `Touch`, `Answer` |
| `auth_middleware_impl`, `handler_encrypt`, `handler_decrypt` | `AskHttp`, `Touch`, `Answer` |
| `create`, `read`, `inject`, `auth` | `TakeAnswer` with `Outcomes` |

Handlers of the agent that `SshAgent` has in detail are one step here, which may
fail, answer or ask for a touch. A caller in `Foreign` is another HTTP client with
the token, which sends what axum's `Json` takes: without one the decryption of
the HTTP server would never be reached (see `http_fallback`). A server that ends
leaves those who wait for it with a closed connection ("lost").

### SecretsIndex, Injection, Provision

`SecretsIndex` adds to the program what its users see: `seen` is the keyword they
listed the index with, forgotten when the index changes; `meant` is the entry that
listing shows (`Shown`) at the number they typed; `picked` records what the program
then took.

`Injection` tells names from files (inodes), since a process that has a file open
goes on writing to it after another has renamed or removed it. Contents are
"vt" (with references), "plain" and "empty". `Careful` says whether users wait
for the references to be back, and every child to be gone, before they inject
again. Both the child and `restore_backup` may be refused their rename or removal
(`UndoFails`), which the code prints and goes on from; a rename that finds no backup,
because the other was faster, changes nothing. `mishap` remembers that something
died or was refused; an injection that ends after a refusal of its own undo ends in
"unrestored" instead of "failed".

`Provision` lists in `InitWrites` and `ImportWrites` the files to write, in the
order of the code, and truncates and writes them one by one. A box carries the
key it was encrypted for; it opens with that key in the slot.

## 3. What the runs show

| Run | Properties | Shows |
|---|---|---|
| `agent` | `ImplementsTouchGate`, `LockedAgentGainsNothing`, `AcknowledgedIsStored`, `EveryRequestAnswered`, `IdleKeysCleared` | connections from two terminals, one of which does everything but list and encrypt, the other signs, decrypts and locks; sweepers, deaths, restarts |
| `store` | `TypeOK`, `SignerHoldsKey`, `LockAgrees`, `LockedAgentGainsNothing` | two connections and a command change keys and file; saves fail, processes die |
| `callers` | `ImplementsTouchWindow`, `SharedWithinContext` | two connections, processes that exit and are adopted while the agent looks, both modes, the clock |
| `remote` | `TypeOK`, `AloneIsReachable`, `OwnValues`, `ImplementsOneShot` | two servers, a command with `VT_ADDR`, another HTTP client |
| `index` | `TypeOK`, `PicksWhatWasShown`, `DeletesWhatWasShown` | two processes, deaths, unfiltered listings |
| `inject` | `TypeOK`, `ReferencesKept`, `AutomaticCleanup`, `FailureUndone` | injections one after the other; deaths; saves, forks, renames and removals that fail |
| `provision` | `TypeOK`, `ReportedSetupWorks`, `UsableOnceConfigured` | every setup command, dying anywhere, four attempts |

The runs that end in a counterexample show where program and documentation
disagree. Each trace consists of ordinary steps.

| Run | Property | The disagreement |
|---|---|---|
| `locked_cache` | `LockedCacheEmpty` | README.md:209 "Caches are cleared when the agent is locked.": a decryption waits for its touch, `lock` clears the cache, the touch is given, `grant` (line 642) puts the approval into the cache of the locked agent |
| `http_fallback` | `HttpServesClient` | README.md:142 and the test at cli.rs:796: the client sends `application/octet-stream` (cli.rs:64), the middleware decrypts the body and keeps the headers, and axum's `Json` answers 415. No command can use the HTTP server |
| `forwarding` | `ForwardedAgentAsked` | README.md:131 "Trigger YubiKey touch via SSH agent forwarding": the client refuses an `SSH_AUTH_SOCK` that is not named `vt-yubi.sock` (cli.rs:97), and sshd names the socket of a forwarded agent itself |
| `index_search` | `PicksWhatWasShown` | main.rs:78: `list --search` numbers what it prints, `delete` and `read` count in the whole index |
| `inject_overlap` | `AutomaticCleanup` | README.md:13: the second `inject -r` copies decrypted text over the backup |

The line numbers without a file are of `ssh_agent.rs`.

What holds only within the instance that is checked, and is known to fail
outside it:

- `AcknowledgedIsStored` holds while one connection changes the file. Two
  that add at the same time load the same file, each saves its own key, and one
  of them is lost from the file; a failing save of a removal is ignored (922).
- A key added after the idle timeout makes `keys` non-empty, so that
  `ensure_keys_loaded` returns at 573: the other stored keys are neither listed
  nor usable until a restart, an unlock or the next idle timeout.
- `AloneIsReachable` speaks of agents that ran alone. Of two that overlap the
  second takes the socket; when the first is then stopped its signal handler
  removes the socket of the second, and a second `serve` that does not get the
  HTTP port ends and leaves the first without a socket.
- `OwnValues` excepts texts in which the secret of one reference contains
  another reference that is asked for: the order of a `HashMap` then decides. It
  also decides when one reference is the beginning of another, which takes a copy
  that was cut off beside the whole one; the texts of the model have none.
- `SharedWithinContext` excepts the contexts 0 (no terminal, or a peer that is
  gone) and 1 (init, which adopts orphans): unrelated callers share them.
- `AutomaticCleanup` and the first half of `FailureUndone` except what follows a
  death or a save, fork, rename or removal that fails (`mishap`): then the decrypted
  file stays until the user renames the backup or removes the output. So it does when
  the rename or removal is refused, as for an output file in a directory where the
  user may not unlink; process and child print the error and end (648, 654, 673, 677 of
  `cli.rs`). The second half of `FailureUndone` has no such exception but the refusal of
  the reporting process's own undo. `inject` has a positive timeout; with zero the
  program is asked to leave the decrypted file.
- `sign` fails for a stored key when the idle sweeper clears the keys between
  `ensure_keys_loaded` (683) and the lookup (688).
- An import that dies while `config.toml` is truncated makes every later one end
  with "Already initialized" (yk_backend.rs:213); one that dies before it
  replaced the passphrase leaves a working setup with another passphrase.
- Two commands that change the index at the same time can lose an entry.

### Bounds

- Two connections meet in every pair of handlers; a third one would wait for the
  same locks. In `agent` each has a terminal of its own, in `store` neither has
  one and nothing is remembered.
- One key in `agent` and in `store`: every property of the keys speaks of one key
  at a time, and the theorems cover any set of keys. One passphrase in `agent`, two
  in `store`, where a wrong one matters.
- One command process next to the agent: two commands do to the file what a
  command and an agent do.
- `callers`: three pids are init, an application or terminal, and its child, so
  that every branch of the walk occurs; `WalkLimit` is 2 instead of 64, which the
  walk can reach; `MaxTouches` 2, a touch for each connection, and `MaxTime` 2, past
  the expiry of a decryption (1) and at that of a signature (2). The connections
  are interchangeable (`SYMMETRY`; the properties are not about liveness).
- `remote`: two servers overlap in every pair of stages. The commands do not
  meet each other in the code, so one that runs them in turn is enough; the
  other HTTP client shares the servers with it. `AllJobs` are chosen by hand:
  references twice in one text, inside an argument, failed ones, in variables
  beside one without, in the secret of another; one-time passwords from good and
  bad secrets; a wrong token.
- `MaxId` secrets are created (3 or 4) and `MaxAttempts` setups begun (4);
  `MaxInode` files are enough for three names and the open files of two
  processes, so it never excludes a step.
- Everything else that is unbounded in the code is a set or a flag here and
  needs no bound; connections send any number of requests.

`CHECK_DEADLOCK FALSE` stands where the system may stop: when all attempts are
used up (`provision`), when a crash left a key file on which no agent starts
(`agent`), and when a death or a failed undo left a file decrypted for the user to
restore (`inject`).

### Fairness

Safety needs none. `agent` assumes strong fairness for each handler and for
the sweeper's wait for `keys`, weak fairness for its timer: tokio schedules every
ready task, and its `RwLock` serves waiters first come, first served, so that a
lock which becomes free again and again is eventually had. A touch ends, given
or refused, since the YubiKey gives up after some seconds. Touches block a
worker thread of the runtime; they end, so enough steps of the other tasks
follow. Clients owe nothing: no fairness makes them ask, and no process must
die. `inject` and `inject_overlap` assume that processes run and that
sleeps end.

## 4. What is proved

All theorems hold for every value of the constants that satisfies the `ASSUME`s
of the module: any sets of connections, commands, keys, passphrases and contexts
(connections and commands disjoint, finitely many connections, the markers for
"none" outside the sets they complete). `TextAssumption` says that what is sealed in a
reference is a text or unreadable, `ArgumentsAssumption` that a job has the arguments
its command takes. Some theorems have hypotheses of their own:

- `OneWriter` and `"save" \notin Faults`: one connection or command changes
  `ssh_keys.enc`, and saves succeed. The run `agent` is such an instance. Both are
  needed: two that add at once lose one key, and `remove_identity` ignores a save
  that fails (922);
- `Search = {}`: listings are unfiltered, as in the run `index`; `index_search`
  shows it to be needed;
- `Careful` is what the run `inject` assumes and `inject_overlap` shows to be
  needed; `MaxInode > 3` leaves a file for every name; `Cleanups = {TRUE}` means
  positive timeouts.

| Theorem | States |
|---|---|
| `SshAgentProofs!Invariance` | `Spec => []Consistent`, the inductive invariant |
| `SshAgentProofs!Typing` | `Spec => []TypeOK` |
| `SshAgentProofs!SignersHoldKeys` | `Spec => []SignerHoldsKey` |
| `SshAgentProofs!LockConsistent` | `Spec => []LockAgrees` |
| `SshAgentProofs!NothingGained` | `Spec => LockedAgentGainsNothing` |
| `SshAgentProofs!StoredWhenAcknowledged` | `OneWriter` and `"save" \notin Faults` imply `Spec => AcknowledgedIsStored` |
| `SshAgentRefinement!Implementation` | `Spec => ImplementsTouchGate` |
| `CallersProofs!Typing` | `Spec => []TypeOK` |
| `CallersProofs!Implementation` | `Spec => ImplementsTouchWindow` |
| `CallersProofs!Roots` | `CallersSpec => []Rooted`, the inductive invariant |
| `CallersProofs!Sharing` | `CallersSpec => SharedWithinContext` |
| `CallersProofs!CacheUnderneath` | `CallersSpec => ImplementsTouchWindow` |
| `RemoteProofs!Typing` | `Spec => []TypeOK` |
| `RemoteProofs!Reachability` | `Spec => []AloneIsReachable` |
| `RemoteProofs!Implementation` | `Spec => ImplementsOneShot` |
| `SecretStringsProofs!InjectedIsMeant` | whatever `InjectOutcomes` holds for a flat job is `Meant` by it |
| `RemoteProofs!EachItsOwn` | `Spec => OwnValues` |
| `SecretsIndexProofs!Typing` | `Spec => []TypeOK` |
| `SecretsIndexProofs!NumbersMeanWhatIsShown` | `Search = {}` implies `Spec => []PicksWhatWasShown` |
| `SecretsIndexProofs!DeletionHitsWhatIsShown` | `Search = {}` implies `Spec => DeletesWhatWasShown` |
| `InjectionProofs!Invariance` | `Careful` and `MaxInode > 3` imply `Spec => []Whole`, the inductive invariant |
| `InjectionProofs!Typing`, `!NothingLost` | from the same, `Spec => []TypeOK` and `Spec => []ReferencesKept` |
| `InjectionProofs!NothingLeft` | with `Cleanups = {TRUE}` as well, `Spec => FailureUndone` |
| `ProvisionProofs!Invariance` | `Spec => []Consistent`, the inductive invariant |
| `ProvisionProofs!Typing` | `Spec => []TypeOK` |
| `ProvisionProofs!ReportedWorks` | `Spec => []ReportedSetupWorks` |
| `ProvisionProofs!ConfiguredUsable` | `Spec => []UsableOnceConfigured` |

The argument for the agent. `SignerHoldsKey` alone is not inductive: that a
signer's key stays in `keys` needs that a request which signs has a key for its
argument, and that nobody writes `keys` while there is a signer. `LockAgrees` alone
is not either: that at most one handler is inside `lock` and `unlock` needs that
the labels occur only in connections with those requests. `Consistent` therefore
joins types, the fit of label and request (`LabelsFit`), that an agent which is
down has neither connections nor a lock (`DownIsEmpty`), and the two properties. Each is
proved for one actor's step (`StepTyped`, `StepSafe`), for the commands
(`CommandTyped`, `CommandSafe`) and for what belongs to nobody, the sweepers and
restarts (`SharedTyped`, `SharedSafe`). `NothingGained` then goes through the
steps once more under the invariant: whoever could add to `keys` or `cache` is in
`Inside`, and `Inside` grows only past an open gate.

`StoredWhenAcknowledged` relates a handler between its steps to the file: `Saving`
says that from the load to the reply the file is what was loaded, then truncated,
then exactly what is about to be acknowledged. That no other actor writes
meanwhile is `OneWriter`, which has to be carried to each step through the labels
a writer can be at (`MovesAlone`, `OthersSaving`); a removal whose key is not there
saves nothing, and a crash takes the handler along with its promise.

The refinement maps a connection to a stage (out, pending, touched, approved)
and a subject, the cache to the grants and `~locked` to the open gate. Most steps
stutter (`Stutter`); `Admits`, `Leaves`, `Reuses`, `Touches` and `RemembersGrant`
are the steps of `TouchGate` that the others map to. TouchGate drops the grants
it likes at any step, which covers lapses, `lock` and restarts.

`CallersProofs`, the cache: the time left, not the expiry kept in the map,
determines what `is_authorized` says (`AuthorizedWhileLeft`), and a sweep
leaves it alone (`SweepShowsNowhere`).

The callers: that a request which hits the cache shares its context with the
toucher is no invariant of one state; it comes from what each handler has read
so far. `Rooted` says that a living process's parent is in its line or init, that
where a walk stands is in the line of its peer (or at init, past which no walk
goes), that a context which has been found is one its peer belongs to, and that
the toucher of an entry belongs to the context it is filed under. A peer that exits
takes none of this back, because `line` and `tty` are those of birth. `CacheUnderneath`
maps every step of `Callers` to one of the cache or none and takes the rest from
the cache's `Implementation`.

`RemoteProofs`: `Typed` joins `TypeOK` with what the handlers need of the jobs.
`AloneIsReachable` alone is not inductive, since between `look` and `bind` an agent
holds no socket: `Undisturbed` says for an agent that is alone what the file of
the socket is at each of its stages, and that no other process runs. The
refinement maps the place of a caller to a phase (`PhaseOf`); servers' steps
stutter, or fail nobody. For `OwnValues`, `Faithful` says that an answer which waits
to be taken is the answer to the job its command still has; what the command makes
of it is then a statement about texts, the subject of `SecretStringsProofs`.

`SecretStringsProofs` treats every operation on a text as a mapping of tokens to
texts (`Mapped`): `str::replace` is one (`ReplacedIs`), and so is the meaning of a
text (`MeaningIs`). To map twice is to map once (`MappedTwice`, by induction over the
text), so replacing one more reference is a mapping again, and as no value holds
another reference that is asked for it is the one that gives that reference its value
and leaves the earlier values alone (`OneMore`). By induction over the order the
references before k have their values after k rounds (`SubstitutedIs`); an order
without repetition that is as long as the set of keys goes through all of them
(`OrderCovers`), and what it goes through is all that occurs (`ItemsFound`). So
every order ends at the same texts. `Places` and `TakenIsMeant` follow them through
the pushing and popping of `inject`. The library's induction theorems have an operator
as parameter; the proofs use a set in its place (`Induction`, `SeqInduction`), which
follows from the well-foundedness of `<`, and `Recursion` gives a recursive function
its existence, without which nothing can be said of it.

`SecretsIndexProofs`: without filters the n-th entry listed is the n-th of the index
(`WholeListing`, which counts those before it), and `Truthful` says of a number that was
given and not used yet that it still stands for what was shown. That the right entry
goes and no other needs more, since the index might hold it twice: `Numbered`
says that the secrets in the index, and in every copy about to be saved, are distinct
and older than the next one.

`InjectionProofs` follows the one injection that is under way (`OneAtATime`, which
`Careful` gives). Where the references are depends on the step it is at
(`References`): in the file until the backup is written, then in the backup, from
`fork` on in the backup or back in the file, since process and child may both
rename. That a write changes the file it is meant for needs `NamesApart` and
`OpenFiles`: no two names stand for one file, and what a process has open is
what its names stand for. For `NothingLeft`, `Tidy` says as long as nothing died or
failed that there is no decrypted text before the first write, none in any file when
the target is the terminal, and none before `exec` without a child to undo it;
`Clean`, that there is none outside an injection. Its second half needs none of this:
whatever died or failed before, who could not execute its command finds the backup
still there or already renamed (`BackedUp`, a part of `Whole`), so an undo that is
not refused leaves nothing (`RestoreUndone`).

`ProvisionProofs` names the stages of a setup: before the passphrase, the token,
the config, the second passphrase of an import, or complete. At each of them
`Underway` says what is still to write and what the files before it hold.
`UsableOnceConfigured` alone is not inductive: when the config is written, the
files beside it are whole only because the order of the writes says so.

Only model-checked: liveness (`EveryRequestAnswered`, `IdleKeysCleared`,
`AutomaticCleanup`), which the prover cannot treat. Every other property of a passing
run is a theorem. The five properties that runs refute are not, of course.

## 5. What is not modelled

- `describe_caller` and the rest of the prompt's wording; pids that are given out
  again; processes that change their terminal.
- `log_middleware`, bodies beyond `MAX_BODY_SIZE`, errors of `accept` in `listen`,
  and the `timeout 30` that `setup-pam.sh` puts before `auth`.
- `inject` with an output file that is its input, or the input's backup: the code
  does not refuse it and overwrites the references without a copy; the three names
  of `Injection` are distinct files, and `ReferencesKept` says nothing of this case.
- `ssh list`, `ssh show`, `secret export`: they change nothing.
- AES-GCM, ECDH, base64, signatures: a text encrypted under a key is a box only
  that key opens, a reference carries what is sealed in it. With them go the
  panics of slices at byte offsets (core.rs:113, cli.rs:233).
- The audit log, logging and notifications: output that no part of the program
  reads.
- Command line parsing, PAM setup, build files.

## 6. Plan

Done, in this order: the agent with its abstract gate and proofs; the cache with
its windows and proofs; the index; inject; provisioning; the contexts of callers
above the cache, with proofs; servers, sockets and client, with proofs; the texts
of `inject`; the proofs of `Injection` and `Provision`.

Then the index, the acknowledgements of the agent and the values of `inject` as
theorems. Left: the hazards without a property (`hazards` in `PROJECT.json`), most of
which are known to happen and promised by nobody.
