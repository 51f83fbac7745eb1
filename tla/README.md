# A TLA+ model of the SSH certificate authority

This directory models the SSH certificate authority in `src/`: an SSH server
that lets users log in with a password and hosts with their key, a CA process
that holds the signing key and answers the server over a Unix socket, and the
scripts that clients run against the server. TLC checks the modules on small
instances; TLAPS proves the theorems of the `...Proofs` modules for every value
of the constants. `PROJECT.json` lists the runs, the lines each definition
stands for, the hazards, the findings and the theorems.

    tlc -workers 2 -config MCCaIpc_calls.cfg MCCaIpc       # one run
    tlapm CaIpcProofs.tla                                  # the proofs of a module

## The system

| Component | State | Operations | Talks to |
|---|---|---|---|
| **CaClient** (`ca_client.rs`) | one counter, shared by all clones | `send_request`: connect, draw a number, write, read | CaServer, over a socket; called by every connection handler |
| **CaServer** (`ca_server.rs`) | `last_counter`, the stream being served | `run`: accept, check uid, read, check token and counter, dispatch, write, drop the stream | CertificateAuthority, by a call |
| **CertificateAuthority** (`certificat_authority/mod.rs`, the two readers) | the key; everything else is read per request | sign for a user, sign for a host, look a key up | the operator's files, the clock |
| **SshCaServer, ConnectionHandler** (`ssh_server/`) | the clients map; per connection the name, method and key it logged in with | two logins, open channel, data, exec, drop | PAM; CaClient; russh calls it |
| **Identity handlers** (`identiy_handlers/`) | none | refuse root and system accounts, ask PAM on the caller's thread | PAM |
| **run_server** (`lib.rs`) | the child process; the token file and the socket file | read the configuration, start in either mode, wait, stop | the other process, through the two files |
| **Configuration** (`config/`, `*/config.rs`) | none; each process reads the file once | read, resolve relative paths, check | the operator, who edits the file |
| **Client scripts** (`clients/`) | a temporary and an output file | ask, check, retry, replace, reload sshd | the SSH server, through `ssh` |

What is hard in it:

* *Interleaving.* Every `.await` of a handler lets others run. Calls of one
  counter interleave between `connect` and `fetch_add`; the CA serves them in
  the order of `connect` and refuses a number that is not above the last one.
  PAM is not awaited: it holds a thread of the runtime while it decides.
* *Two processes.* Either dies at any step and comes back beside the other, with
  or without the state it had; they meet through files that outlive them.
* *Files that change.* The CA reads the operator's files anew for every
  request, one after the other, while the operator edits them and turns them
  into links; the key that let a host log in is compared again when it signs.
  The two processes read one configuration file at two times.
* *Sequences of legal calls.* A client may mix logins, channels, data and
  commands in any order.
* *Retries.* A client script asks again after a certificate was signed and lost;
  two runs may replace one file.
* *Limits.* The counter's width, the socket's accept queue, the maximum message
  size, the rejected logins, ten looks for the socket, the runtime's threads.

What makes each part correct:

* IPC: a call runs at most once and its answer tells whether it ran; no counter
  value is good twice; honest calls are refused only when they overlapped or
  their number was drawn before; every call returns; other users get nothing.
* CA: a certificate says what the files said during the request, for the key
  that the files name; its interval does not end before it starts; a key check
  neither loses nor invents a key, and follows no link out of the inventory.
* SSH server: a certificate is signed only for who logged in, and in the way
  that fits; connections are forgotten when they end; a call to the CA ends,
  its answer was true of the files during the call, and the CA turns it down
  only for cause.
* Start: a server that accepts clients has a CA that knows its token and no older
  configuration; the token does not stay in a file; a start ends; a return
  leaves no CA behind.
* Scripts: the file holds a whole certificate, the newest of its run; the exit
  code is true; sshd uses what is in the file; a run ends and cleans up.

## The modules

| Module | Models | Composes |
|---|---|---|
| `CertService` | what the IPC promises: an at-most-once call | - |
| `CaIpc` | `CaClient::send_request` and `CaServer::run`, step by step | implements `CertService` |
| `SigningCa` | `CertificateAuthority`, one action per read of a file or the clock | - |
| `SshSession` | `ConnectionHandler`, `SshCaServer`, the identity handlers and the helpers of `ssh_server/`, with the CA as what it promises about one request | - |
| `SshCa` | the SSH server before a serial CA process | `SshSession` with the requests of `SigningCa`; implements `SshSession` |
| `Configuration` | how the file is read, which paths it yields, what is checked | - |
| `Lifecycle` | `run_server` in both modes | `Configuration` |
| `CertFile` | what the runs of the client scripts promise about the file they share: single, whole replacements | - |
| `ClientScript` | runs of the client scripts over one output file | implements `CertFile` |
| `CaIpcProofs`, `SigningCaProofs`, `SshSessionProofs`, `SshCaProofs`, `LifecycleProofs`, `ClientScriptProofs` | theorems | their module, TLAPS |
| `MC...` | instances for TLC | the module they are named after |

**CaIpc.** `pc[t]` is where a call stands: *connecting* (line 55 of
`ca_client.rs`), *connected* (57), *numbered* (64-80), *waiting* (83-100),
*returned*, or *lost* with its process. A slot of `Tasks` is reused by later
calls. The accept queue `backlog` and the stream `serving` are the CA's; `up` and
`down` hold the one frame and the one reply that a stream carries. A frame is an
envelope (with or without the right token, with a counter), something that
parses to nothing (*malformed*), or something given up before parsing
(*unreadable*). Reading a request, checking and dispatching it is one action
because nothing is awaited in between that another process sees; the reply is
written in a step of its own because the caller may have gone or the CA may die
first. `handle_request` is the choice among `Outcomes`. Strangers are other
processes of the machine. `CaCrash`, `CaRestart` and `SshRestart` are the deaths;
`drawn` is history: the highest number of an earlier life of the counter.
`MaxCounter` stands for 2^64 - 1.

**SigningCa.** `pc` names the next read. `userList`, `text`, `entry` and `out`
(files that are links out of the inventory) are the operator's; `World` edits
them or sets the clock between any two reads. Resolving a path and opening it
are two steps, as in the code. `seen` collects the states of files and clock
during the request, and the properties compare the certificate with them.
`GlobOrder` is the order of the walk, with nested files. A broken file stands for
absent, unreadable, not TOML and too long alike: the code treats them the same.

**SshSession.** One `pc` per connection: *auth*, *pam* (a thread is in PAM for
it), *checking* (a key check is with the CA), *ready*, *signing*, *dropped*.
Every handler of `mod.rs` is an action, and what follows an `.await` of the CA is
another (`CheckAnswered`, `SignAnswered`), as is what follows PAM
(`PamReturns`). All but the last need a thread of the runtime that is not in PAM
(`ThreadFree`). `End` is the end of the session task, which drops the handler and
spawns the removal (`Remove`) from the clients map. `CaFinds`, `CaSigns`,
`CaReplies` and `CaFails` are what the CA may do for one request, given `held`:
the files that held the key at some moment of the request, and at all of them.
`verified`, `unresolved`, `ended`, `held` and `issued` are history.

**SshCa** has all of `SshSession` except these four actions. In their place a call
connects (`Connect`, or `Unreached`), draws its number and writes its request
(`DrawNumber`); a CA process takes the streams in the order of `queue` (`Accept`),
answers a number that is not above its last one with an error (`Refuse`) or
else (`Take`) goes through the actions of `SigningCa` one by one (`Work`) and
writes the answer back (`Reply`). It serves one stream at a time, dies
(`CaCrash`), which cuts the streams that are queued (`ReadEof`), and is started
again. Numbers are only ever compared, so the model keeps their order and not
their values: `older[c]` are the streams with smaller numbers, a call is *late*
when a younger number was accepted before it, and *spent* when its number is one
the CA saw from an earlier life of the SSH server, of which `used` are left.
Frames, tokens, other processes and the wrap of the counter are in `CaIpc`.

The inventory of `SigningCa` (`Entries`) is a function of what the sessions see:
the key of each file, whether it is a link (`outside`), and whether it lists no
hostnames (`bare`); the clock of the CA is set back or forward (`SetClock`).
`Edit` and `SetClock` strike a request that is half way through its reads. The
users' list and template stay as they are here (`SigningCa` edits them), and a
certificate has the shortest validity, 0 days, at which a clock set back between
the two readings shows at once. `overlapped` and `upset` are history, kept by
`History` with every step: which waiting calls had another beside them, and which
saw the clock set back or their entry without hostnames. `SessionSpec` says that
every behaviour of the pair is one of `SshSession`, under the mapping
`SessionAnswer`: a certificate that is signed and not yet sent is the answer
*signed*.

**Lifecycle.** `spc` and `cpc` follow the two branches of `run_server`. The token
files and the socket files are the only things the processes share, besides the
configuration file, of which `text` holds all editions and `edition` the current
one. A CA is a child (`SpawnCa`) or started by the operator (`StartCa`); `mode`,
chosen at the start among `Modes`, is the command line. `StopServer` and every
error return clean up; `Setup` panics and `KillServer` does not. A path of the
configuration is a directory and a name (`Configuration`), so the model sees
which directory a relative one is resolved against.

**ClientScript.** One `pc` per run, one step per command that can fail. `Signed`
is the server's side: it may sign for an ssh that never gets the certificate.
`SshFails` and `SshDelivers` are what an ssh may leave in the temporary file and
with which code. `Terminate` is a signal that runs the trap, `Kill` one that
does not. Certificates are numbered in the order they are signed.

Definitions marked "Seeded fault" are not part of the model. Each is a plausible
mistake in the definition that follows it; putting it in that definition's
place must break the property named in `PROJECT.json` ("mutants").

## What the runs check

| Run | Bounds | Shows |
|---|---|---|
| `ipc_calls` | 2 tasks, a counter of 0..2 that wraps, a queue of 1, 3 numbers per life, 1 death of the CA, 1 restart of the SSH server | `TypeOK`, `RefusedOnlyIfOverlapped`, `ServiceSpec`, `EveryCallReturns` |
| `ipc_strangers` | 1 task, a process of the same user that sends any frame, one of another user, a counter of 0..2, a queue of 2, 1 death and restart of the CA | `StreamsConsistent`, `AcceptedOnce`, `OtherUsersNeverServed`, `OnlySilenceBlocks`, `ServiceSpec` |
| `ipc_order`, `ipc_saturation`, `ipc_split` | 2 tasks; 1 task and a counter that reaches its end; 1 task of another user | findings |
| `ca_files` | a user with 2 templates of 3 contents, or 2 hosts with 3 entries of which one nested; 2 edits, also of links; a clock that is set at any time | `UserCertFollowsFiles`, `IntervalFromRequest`, `HostKeyConfirmed`, `ScanSound` |
| `ssh_ca` | 2 connections, 2 keys, 2 hosts of which one nested and one with an invalid name, 1 number used before, 1 edit (key, link or hostnames) or setting of a clock of 0..1, 1 death of the CA, 1 attempt | `SessionSpec`, `TurnedDownForCause`, `HostCertsEarned`, `LoginsFollowFiles` |
| `ssh_ca_live` | 2 connections, 1 key, 1 file, a system account, 2 attempts, 1 runtime thread, 1 death of the CA | `UserCertsEarned`, `OneIdentity`, `ClientsTracked`, `CallsEnd`, `ClientsForgotten` |
| `ssh_retry` | 1 connection | finding |
| `life_modes` | 4 command lines, 3 histories of the configuration, 2 servers, 2 CAs, 2 deaths, 1 edit | `ServedWhenRunning`, `ConfigTakesEffect`, `TokenConsumed`, `ReturnEndsChild`, `StartEnds` |
| `life_paths` | the same | finding |
| `client_script` | 2 runs, 1 retry each | `NewestInPlace`, `ExitTellsTruth`, `SshdCurrent`, `NoLitter`, `RunEnds`, `FileSpec` |

*Why the bounds are enough.* Two calls are the fewest of which one is served or
queued while the other draws its number; with three numbers per life and a
counter of 0..2 a slot is reused after a refusal, the counter wraps, and a
restarted server draws numbers again that the CA has seen. A stranger is one
process because each of its frames is a connection of its own and it may come
back. Two edits are what it takes to change a file after it was read and a second
one before it is; three files have a first, a middle and a last. In `ssh_ca` one
edit suffices because the two files of the walk and the two reads of a host's
entry already lie on either side of it, and two edits are in `ca_files`; two
connections are what it takes to answer the wrong one, and to be numbered in one
order and accepted in the other. The only name that may log in with a password
is an invalid one there, so that its calls are key checks and host
certificates; calls for users are in `ssh_ca_live`. One setting of the clock,
from its end, is one that goes back between two readings. One thread is the
smallest runtime, on which one PAM call stops everybody else. Two servers and two
deaths let an orphan of the first meet the second. Two runs of a script are what
it takes to move and reload in a mixed order; one retry separates a first, lost
certificate from a last one. Repeated passes of a loop (rejections, looks for the
socket, retries) do not differ. What the theorems below state does not depend on
any bound.

*Deadlock* is checked in `ca_files`, where the operator and the next request can
always go on. In the others the system may rightly stop: all calls of the quota
made, all connections gone, the server down, all runs ended.

*Fairness.* `CaIpc`: the CA's loop and every started call go on when they can,
since tokio polls a task that is ready and the loop has no exit; nobody owes a
new call, and a dead CA need not come back. The run has no stranger: one that
connects and stays silent stops the loop for everybody, because the CA reads
without a timeout. That nothing else does is the invariant `OnlySilenceBlocks`
of the run with strangers. `SshCa`: tokio resumes a handler whose call has
returned and runs the removals as soon as a thread is free; PAM decides; a live CA
goes on with the request it has accepted (`Work`) and the next stream; a call
connects or fails, draws its number and writes (`Advance`, one for each
connection). Clients and the operator owe nothing. Weak fairness of the handlers
is enough although PAM can take every thread again and again in
general: in the model a connection enters PAM at most once, because a wrong
password ends it. `Lifecycle`: both processes run; nobody starts, stops or kills
one. `ClientScript`: the shell goes on and every ssh ends; the script sets no
timeout, so the latter is the server's `inactivity_timeout`.

## What the runs found

Each is a run with `"expect": "violation"`; the quotes are in `PROJECT.json`.

* `ipc_order`. A call connects before it draws its number. Two concurrent calls
  can be served against the order of their numbers, and the second one served
  is refused as a replay. `RefusedOnlyIfOverlapped` shows that this is the only
  way an honest call is refused while the server is not restarted and the
  counter does not wrap; `SequentialCallsServed` proves that calls made one
  after the other are not.
* `ipc_saturation`. The call that finds the counter exhausted leaves it at 0.
* `ipc_split`. The book proposes to run the two processes under different
  users; the CA drops every stream of another user. `SameUserServed` proves
  that it reads those of its own.
* `ssh_retry`. A wrong password ends the session; it is not one of the three
  rejections.
* `life_paths`. Relative paths of `[ssh]` are resolved against the working
  directory, those of `[ca]` against the directory of the file; the reference
  promises the latter for all. The run ends with a server that runs with another
  host key than the one beside its configuration.

`ssh_ca` shows what the first of these means to a client: the refusal is an error
of the CA, and so rejects a login (`mod.rs:297`) or ends a session
(`signing_common.rs:35`). `TurnedDownForCause` allows it for overlapping calls and
for numbers used before an SSH server was restarted, and for nothing else
beyond the clock and the host's own entry. As for `ipc_split`, the connect of another
user may already fail, on the mode 0600 of the socket (`ca_server.rs:61`).

Modelling met some smaller disagreements that have no run of their own:

* The two ends of a certificate's interval come from two readings of the clock
  (`mod.rs:94`, `:98`), so its length is not exactly the template's. The model
  shows both readings; `IntervalFromRequest` says what is true of them.
* With a fixed `--socket-path` the socket file of an earlier CA ends the wait
  for the new one (`lib.rs:186`). `ServedWhenRunning` excludes that case.
* `--token-file` in SSH server mode is only ever read (`lib.rs:122`); `README.md`
  line 92 and the comment at `lib.rs:50` say it is written.
* The book starts the SSH server and then the CA in one script; the CA may take
  the token file first, and the server ends without a token (`ObtainToken`).
* The name a host logs in with plays no part (`mod.rs:286`, `:319`), although
  the configuration reference (line 142) says it must match.
* `troubleshooting.md:97` says that every path in `[ca]` must exist;
  `Ca::check_paths` looks at `ca_key` only.
* The comment at `ssh-ca-sign-host-key.sh:258` promises that the temporary file
  is removed on failure. When `mv` fails, the EXIT trap runs outside the function
  whose local variable it names, and the file stays (`Move`, `NoLitter`).

## What is proved

No proof assumes anything but the named ASSUMEs of the modules, which are about
the constants and which TLC evaluates in the runs, except where said.

`CaIpcProofs`, of `CaIpc`:

| Theorem | Property |
|---|---|
| `TypeCorrect` | `TypeOK` |
| `StreamsCorrect` | `StreamsConsistent`: both ends of a stream agree, the queue holds a connection once |
| `ReplaySafe` | `AcceptedOnce`: no value is good for two requests |
| `ServiceImplemented` | `ServiceSpec`: `CaIpc` implements `CertService` |
| `OthersShutOut` | `OtherUsersNeverServed` |
| `OnlySilence` | `OnlySilenceBlocks`: only a silent process of its own user holds the CA up |
| `QueueDrains` | each step of the loop brings it nearer to an empty queue, and only a new connection makes that longer |
| `HonestCallsPass` | `RefusedOnlyIfOverlapped`, if no stranger knows the token |
| `SequentialCallsServed` | `HonestCallsServed`, if besides there is one caller and the counter has a number for each call of its quota |
| `SameUserServed` | `SeparateUsersServed`, if no caller runs under another uid |

`StreamsConsistent` is inductive together with `TypeOK`, and it is what the
refinement needs: `CertService` lets a call return "ok" only after it was
executed and "refused" only if it was not, so at the moment a reply is read the
proof must know that the reply under way tells whether the request ran, at the
moment it is written that the staged reply does, and at the moment of dispatch
that the request has not run and the frame belongs to a caller that waits or is
gone. A state that violates one of its conjuncts is no counterexample by itself,
but one step later may be. `ReplaySafe` rests on `AcceptedBelowLast` (no accepted
value is above `last_counter`), which a restart of the CA re-establishes because
it forgets both. `HonestCallsPass` needs an invariant that orders the numbers
along the accept queue: of two calls of which one is ahead of the other and which
drew new numbers without an overlap, the one ahead has the smaller number, and
`last_counter` is not above any of them. It holds only as long as nobody
else can advance `last_counter`, hence the hypothesis about strangers, which the
theorem states. The last two theorems say when a claim that a run refutes does
hold: both add to the model no more than a condition on its constants.

`OnlySilence` rests on `BlockInv`: a frame that was written stays on its stream
until the loop has read it, and a dead CA holds no stream. So a loop that cannot
go on has an owner before it that is alive and has written nothing, and a call
of the SSH server never stays so. `QueueDrains` bounds the steps of the loop by
the state (`LoopLeft`); with it, what `EveryCallReturns` adds is fairness.

`SigningCaProofs`, of `SigningCa`:

| Theorem | Property |
|---|---|
| `TypesHold` | `TypeOK` |
| `UserCertHolds` | `UserCertFollowsFiles` |
| `HostCertHolds` | `HostKeyConfirmed` |
| `IntervalHolds` | `IntervalFromRequest` |
| `ScanHolds` | `ScanSound`, for an inventory of any size |
| `RequestsAreFinite` | a request is over after five reads, or two for each file and one more, and no edit sends it back |

Each property speaks of the response; each invariant (`UserInv`, `HostInv`,
`ClockInv`, `ScanInv`) says, per `pc`, which state in `seen` the locals come from.
`ScanInv` is the loop invariant of the walk: every file already passed was, at
some moment of the request, not an entry with the key. `WorldOnlyAdds` and
`ReceiveStarts` are the two lemmas all of them share: an edit adds to `seen` and
touches no local; a request starts with the present state.

`SshSessionProofs`, of `SshSession`:

| Theorem | Property |
|---|---|
| `TypesHold` | `TypeOK` |
| `UserCertsNeedPassword` | `UserCertsEarned` |
| `OneIdentityPerConnection` | `OneIdentity` |
| `HostCertsNeedKey` | `HostCertsEarned` |
| `LoginsNeedFile` | `LoginsFollowFiles` |
| `ClientsAreTracked` | `ClientsTracked` |

Except for the types none of these is inductive: each speaks of the moment a
certificate is signed or a login ends, and what makes it true happened several
handlers before. `IdentityInv` carries it across. Per connection it ties the way
it logged in to what it is (a password login has a verified name and no key, a
key login has a key and a host's name), to the request it has with the CA (a user
certificate only after a password, a host certificate only for the key it logged
in with), and to the certificates already issued to it. A login is only possible
without an identity, so what was issued never changes its owner. `FreshIds` (an
id that `new_client` has not given out is unborn) is needed so that a new
connection starts without one.

`SshCaProofs`, of `SshCa`:

| Theorem | Property |
|---|---|
| `SessionImplemented` | `SessionSpec`: with the requests of `SigningCa` behind it, the server implements `SshSession` |
| `CallsTurnedDownForCause` | `TurnedDownForCause`: an error of the CA has a cause in other calls, numbers used before, the clock or the host's own entry |
| `PairTypesHold` | `TypeOK` |
| `PairUserCerts` | `UserCertsEarned` |
| `PairOneIdentity` | `OneIdentity` |
| `PairHostCerts` | `HostCertsEarned` |
| `PairLoginsFollow` | `LoginsFollowFiles` |
| `PairClients` | `ClientsTracked` |

`SshSession` says of the CA only what it promises about a whole request;
`SigningCa` reads file after file while the operator edits. `PairInv` ties the
two: `CaInv` says, for the request being served, what each file already read or
passed (`Reading`), and each answer already found (`Done`), implies about `held`,
which records the files that held the call's key at some moment of the call and
those that held it, inside the inventory, throughout. `StreamInv` says that a
stream belongs to a call that waits and is not the one being served, and that
what is `older` is itself numbered. The steps of the CA between two answers are
stutters of `SshSession`, the signing of a certificate is its `CaSigns`, the
sending of an answer its `CaReplies`, `CaFinds` or `CaFails`; `SessionAnswer`
shows a certificate that is signed and not yet sent back as the "signed" of
`SshSession`. A handler of the server changes no call that is with the CA
(`ServerCalls`), so the two sides disturb each other only through the inventory,
and an edit only adds to `held.ever` and takes from `held.always` (`EditKeeps`).
`IdentityInv` and `FreshIds` come from the lemmas of `SshSessionProofs`. The
six theorems `Pair...` state the properties of the sessions for `CaSpec`, the
pair, on which the runs check them: `PairInv` contains `IdentityInv`, and the
steps of the pair that the refinement maps to a step of `SshSession` change what
the properties speak of exactly as that step does.

`CallsTurnedDownForCause` speaks of the moment an error is sent, and the reason lies
several steps back: in a number drawn, a file read or the clock. `CauseInv` carries
it there. A late number has another call beside it (`LateSteps`); a call that waits
while its entry lists no hostnames is in `upset`; and `Excused` says, for each read
the CA has done, that it leads to a certificate or that the history knows why
not: the names it has are not empty, the first reading of the clock is not past the
present one, the second not before the first. `HistorySteps` is the lemma that the
history forgets only calls that have returned. For a key check there is no such
cause at all: it ends in an error only through its number.

The constants must satisfy `OrderAssumption` (the walk visits every file of the
inventory) and `BrokenAssumption` (a file that cannot be read or parsed is not
mistaken for an entry).

`LifecycleProofs`, of `Lifecycle`:

| Theorem | Property |
|---|---|
| `TypesHold` | `TypeOK` |
| `CaServed` | `ServedWhenRunning` |
| `ConfigEffective` | `ConfigTakesEffect` |
| `TokenIsConsumed` | `TokenConsumed` |
| `ChildEnds` | `ReturnEndsChild` |
| `StartsAreFinite` | a start takes at most `MaxPolls` + 6 steps of the server and seven of a CA |

All follow from `IInv`, which adds three parts to the types: `ServerInv` (what
each state of the server implies about its variables), `OwnInv` (a server with a
CA of its own on a clean path is alone there with its child, and how far the
child is tells what is in the token file and in the socket file), and `SplitInv`
(the operator's one token lets one CA pass). The last two differ because what
keeps a second CA away differs: in one mode nobody else starts on the path, in
the other a second CA may start but finds no token.

`ClientScriptProofs`, of `ClientScript`:

| Theorem | Property |
|---|---|
| `TypesHold` | `TypeOK` |
| `NewestMoved` | `NewestInPlace` |
| `ExitIsTrue` | `ExitTellsTruth` |
| `SshdHasOutput` | `SshdCurrent` |
| `LitterHolds` | `NoLitter` |
| `FileImplemented` | `FileSpec`: the runs implement `CertFile` |
| `RunsAreFinite` | a run takes at most 4 (`RetryCount` + 1) + 3 steps, and no run sets another back |

`RunInv` says what the temporary file may hold at each `pc` of a run; an
acceptable file can only be the run's newest certificate, because a partial one
comes with a failure code. Runs share only the output and sshd (`Apart`). Its
clauses about a removed file (at *validate* and *reload* there is none) are what
`NoLitter` needs. `CertFile` adds that OUTPUT never gets a certificate that it
held before; for that the refinement needs `SignedApart`, that no two runs have
the same newest certificate.

Only model-checked: liveness (`EveryCallReturns`, `CallsEnd`, `ClientsForgotten`,
`StartEnds`, `RunEnds`), for the prover has no rules for fairness and ENABLED
within reach. The theorems `...AreFinite` and `QueueDrains` prove the part of it
that needs neither: a number that every step of the component lowers and no
other process raises, so that what is left is that the component does go on.
Every invariant and action property of a passing run is a theorem. The modules
have no recursive definitions.

## What is not modelled

* Cryptography, the encoding of keys and certificates, serials, key ids,
  extensions and comments: data that no control depends on.
* russh and PAM, except as the code uses them. A connection has one session
  channel at a time; a data message is one whole key or none, since how russh
  splits the data of a channel is outside `src/`.
* A local process of the CA's user that connects to the socket and stays silent,
  in the runs of liveness: the CA reads without a timeout, so no call need return
  (the invariant `OnlySilenceBlocks` is about runs that have such a process).
* `SshServerConfig::insert_config_path` and `check_paths`, which have no caller;
  `certificat_template_reader.rs`, which nothing uses; the `test_auth` feature,
  which replaces the authenticators for tests.
* The options and texts of the scripts. The script for users is the one for hosts
  without the reload. A signal between `mktemp` (line 257) and the `trap`
  (line 259) of the script leaves an empty temporary file; in the model the two are
  one step.
* A local process of the CA's user that sends a request and never reads a long
  reply: `write_all` (`ca_server.rs:155-159`) would wait for it as the reads wait
  for a silent one. In `CaIpc` a reply is written or fails.
* The moments inside one round of the server's wait for the socket: `Poll` merges
  the loop's look, the second one (`lib.rs:191`) and the kill. A CA that binds just
  after the second look and is then killed leaves a socket file that the model does
  not have; a later server on that path does not count as `clean` anyway, and no
  property depends on it.
* A panic while the server starts (`lib.rs:202`), or a signal to it, leaves its CA
  behind in the model as in the code (`Setup`, `KillServer`). The properties of
  `Lifecycle` speak of returns, of servers that run, and of paths without a trace
  of an earlier CA.
* Fuzz targets and tests, which exercise the code that is modelled; packaging.
