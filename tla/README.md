# shardVPN, specified in TLA+

shardVPN runs one VPN exit node on EC2 when its owner asks for one from a phone. The
control plane is a single Lambda function. It is invoked in two ways: over a function URL,
by a signed request (`up`, `down`, `status`), and by a schedule, once an hour, as a *sweep*.
It keeps nothing itself. What there is to know is in EC2 (the nodes and their tags) and in
SSM (the *pointer* to the current node, and settings), and every call to either may fail,
may succeed with its answer lost, or may be the last one before Lambda ends the invocation.

These modules specify the control plane call by call, and state what it promises about
the nodes that run and the pointer that tracks them. Around it they specify the gate that
verifies requests, the phone that sends them, the boot script of a node with the devices it
leaves in the tailnet, the idle mail with the traffic it goes by, and the arithmetic of
lifetimes. Paths below are relative to
`src/lambda/shardvpn/` unless they say otherwise.

## The system

| Component | State | Operations | Interacts with |
|---|---|---|---|
| Fleet and parameters (`ec2ops.py`, `settings.py`, `ttl.py`, `terraform/ssm.tf`) | nodes, their region and tags (`launched-at`, `expires-at`, `last-idle-alert`); `/shardvpn/current-node`; `/shardvpn/default-region` | `find_nodes`, `launch`, `terminate`, `stamp_tag`, `read_pointer`, `write_pointer`, `parse_ttl`, `is_expired` | called by the handler and the watchdog |
| Request handler (`handler.py`) | none between requests; a request's locals while it runs | `_up`, `_down`, `_status`, `_describe` | fleet, tailnet |
| Watchdog (`watchdog.py`) | none between sweeps; a sweep's locals and its `summary` | `sweep` in four steps: reap, deduplicate, check for idleness, reconcile the pointer | fleet, mail |
| Deployment (`terraform/lambda.tf`, `terraform/scheduler.tf`) | which invocation is running | one invocation at a time, a timeout, an hourly schedule | starts the two above |
| Auth gate (`auth.py`, `settings.cached_secret`) | the signing secret, cached for 300 s | verify or refuse | in front of the handler |
| Node bootstrap (`userdata.sh`) | the node's progress | join the tailnet, verify, advertise, or fail closed by shutting down | ends a node without the control plane |
| Tailnet (`tailscale.py`) | devices, auth keys | mint a key, find a device | called by the handler |
| iOS client (`docs/ios/shardvpn.js`) | attempts made | send, retry on 429 and 5xx | sends requests |
| Security group (`ec2ops.ensure_security_group`) | a group and its rules | find or create, refuse one with ingress | called by `_up` |
| `statusdoc.py`, `render.py`, alarms, IAM, mail, CI | none | formatting and configuration | |

What makes each of them correct:

* **Requests.** No two nodes in a region. No launch while the tracked node runs, whatever
  was read or not read. No request takes the pointer off a running node. What `down` says
  is gone is gone; what `up` and `status` report, `down` will find. The auth key is
  minted after everything that may fail repeatedly.
* **Sweep.** It never ends the node in use: only expired nodes and duplicates of a newer
  one. It clears the pointer only if nothing runs that it has not tried to end. If it
  reports no failure, nodes and pointer agree. Repeated, it repairs whatever is left.
* **Auth gate.** A secret that was replaced is good for nothing after 300 s, in whatever
  process; a phone with the current secret is not refused for a stale cache or a stale timestamp.
* **Phone.** A tap ends with an answer or an error; every attempt may be the one that is heard.
* **Bootstrap.** A node is never on offer before its forwarding is verified; a node that
  fails a check ends, and its device leaves the tailnet.
* **Tailnet.** A node is reported online only if its own device is there, and a healthy one is not
  reported absent.
* **Idle mail.** A forgotten node is heard of every day, not more often while its stamps hold, and what the mail says
  is true; `idle_for` claims no disuse over a time of use, but for a datapoint not published yet.
* **Times.** A lifetime is kept to the second and an age is right to the minute.

What is hard about it: failures between a change in EC2 and the write of the pointer;
answers that are lost; a pointer read early and used late; a scan that fails looking like
an empty region; tags edited by hand; nodes that end by themselves; two taps on a phone; a cache
that outlives a secret; cleanups that fail half way; a device that outlives its node; datapoints
that come late.
`PROJECT.json` lists these hazards with the line each one bites at.

## The modules

| Module | Models | Lines of code it stands for |
|---|---|---|
| `Cloud` | The state outside the control plane, each AWS call on it, and what happens to it by itself | `ec2ops.py`, `settings.py`, `ttl.py`, `terraform/ssm.tf` |
| `Handler` | `_up`, `_down`, `_status`: one action per call | `handler.py:27-308` |
| `Watchdog` | `sweep`: one action per call that can fail or that changes something | `watchdog.py:26-399` |
| `ControlPlane` | `Handler` and `Watchdog` as invocations of one function, with the environment; the properties | `terraform/lambda.tf`, `terraform/scheduler.tf`, `handler.py:35-95` |
| `Convergence` | `ControlPlane` with fairness, and a moment from which calls are answered | the same |
| `MCControlPlane` | symmetry for the safety runs | |
| `Fleet` | the abstract specification that `ControlPlane` implements: who may launch, end and track what, and when | |
| `Tailnet` | the devices with the exit node tag, and what `find_device` and a status make of them | `tailscale.py:84-120`, `statusdoc.py:31-54` |
| `NodeBootstrap` | the boot script of a node, command by command, and the life of its device | `userdata.sh` |
| `AuthGate` | the secret cache, the fetch of the secret, the checks in their order | `handler.py:42-107`, `settings.py:60-73`, `auth.py:37-75` |
| `Phone` | taps and attempts, over a network that loses and delays, on top of `AuthGate` | `docs/ios/shardvpn.js:116-174` |
| `IdleAlert` | the sweep of `Watchdog` with the traffic its idle check reads, the mail and its stamp; `idle_for` | `ec2ops.py:151-168`, `watchdog.py:26-95`, `watchdog.py:312-333`, `handler.py:154-178` |
| `Lifetimes` | `parse_ttl`, `rfc3339`, `is_expired`, `format_duration` and the age, as operators | `ttl.py`, `statusdoc.py:21-28` |
| `ControlPlaneProofs` | the inductive invariant of `ControlPlane`, and the theorems about requests | |
| `FleetProofs` | that `ControlPlane` implements `Fleet`, and what `Fleet` says by itself | |
| `SweepProofs` | the invariant of a sweep, the theorems about what it ends and clears and what its silence means, and those about `Convergence` | |
| `Sums` | lemmas about sums, largest and smallest elements of finite sets, for `IdleProofs` | |
| `BootstrapProofs`, `PhoneProofs`, `IdleProofs`, `LifetimesProofs` | the theorems about the module each is named after, with what that extends | |

`Handler` and `Watchdog` both extend `Cloud` and know nothing of each other; `ControlPlane`
extends both, and says by an `INSTANCE` of `Fleet` what of it is to be seen from outside.
`IdleAlert` extends `Watchdog`, `NodeBootstrap` extends `Tailnet` and `Phone` extends
`AuthGate`. The three are checked on their own, since they share no state with
`ControlPlane` but what a step of it stands for: `Dispatch` in `AuthGate` is a whole request of
`Handler`, a node that ends in `NodeBootstrap` is a `NodeEnds` in `Cloud`, and the
`Readings` a run of `ControlPlane` chooses from are those that traffic makes in `IdleAlert`.

### How state and actions correspond to the code

* `status[n]` is what `find_nodes` can tell of an instance. `pending` and `running` are
  one value, `live`, since `LIVE_STATES` treats them alike; everything `find_nodes` does not
  return is `gone`. An instance id is never handed out twice. `home` and `tags` are the
  region and the tags; an expiry that does not parse never expires (`ttl.py:60-70`) and is
  the value `Never`.
* `pointer` is `/shardvpn/current-node`, `None` for the literal `none`.
* `request[w]` holds the locals of the request that worker `w` handles, and `step`, the
  call it makes next. `_up` is `read`, `describe`, `choose`, `guard`, then either
  `repair`, `redescribe`, or `prepare`, `mint`, `launch`, `track`; then `reply`. `_down` is
  `read`, `locate`, `scan`, `terminate` (once per node) and `clear`. `_status` is `read`,
  `describe`.
* `sweep[w]` holds the locals of a sweep. `alarm` says that `summary["failures"]` is not
  empty, so that `_notify_failures` sends its mail; `stuck` are the nodes whose termination
  was not confirmed.
* A call that changes something has an *outcome*: `ok`; `error`, it failed and changed
  nothing; or `lost`, it took effect and the caller sees an exception. A call that only
  reads either answers or fails (`CallFails`, `PointerUnreadable`, `ScanRegionFails`, ...).
  `Crash` and `SweepCrash` end an invocation before any call: a timeout, the memory limit,
  and in a sweep an exception nothing catches.
* Region scans come in any order, since the code uses a pool of threads
  (`watchdog.py:223`). Equal launch times leave the order to the scan, so `Newest` may have
  several members.
* `Admit` is `reserved_concurrent_executions = 1`. With more than one worker it is the
  guard, not the number of workers, that keeps invocations apart: `AdmitAlways`, its
  mutant, breaks `OneNodePerRegion`.

* In `NodeBootstrap`, `stage[n]` is the command the script of node `n` is at. `OnSuccess` and
  `OnFailure` are the text of the script: which command follows, and where `set -e`, the ERR
  trap, an `if` or a `|| true` lead when the command fails. A command succeeds with its effect,
  fails without it, or has its effect and fails; `sysctl` may succeed without, if another file
  overrides it. `power[n]` is the machine: a script runs on for a while after a shutdown has begun.
  `PowerOff` may take the device along (the logout unit); if not, `Expire` removes it some time
  later.
* In `Tailnet`, a device is named after its node; `verbatim` holds those that show the
  hostname `tailscale up` was given, since Tailscale may rewrite it. `FindDevice(n)` is the set of
  devices the call may return: more than one if the node has no hostname tag.
* In `AuthGate`, `cache[p]` is `_SECRET_CACHE` of the process `p`, and `call` the invocation that
  runs. The cached secret is stamped with the time before the fetch (`cached_secret` is passed
  `now`), and the timestamp is compared with the time at the check. A secret is its number, a
  signature the secret it was made with: HMAC is taken to be what it promises.
* In `Phone`, `network` holds the requests under way. They arrive in any order, late, or not
  at all; `Awaits` is whether the phone still waits for the one that is answered.
* In `IdleAlert`, `traffic[n][t]` is the datapoint of node `n` for tick `t`, `None` if it did not run:
  the query names the instance (`ec2ops.py:162`), so the traffic of a node that ended is none of the next one's.
  `mailed`, `stamped` and `looked` only record, for the properties, what has happened; no action
  reads them but to update them. A mail is recorded when it is sent: the code does not learn whether it arrives.
* In `Lifetimes`, a moment is counted in half seconds and a tag in seconds, so that a cut of
  `strftime` shows. The state is one question, a lifetime and two moments; `Next` asks another.

### What is abstracted

* In `NodeBootstrap`, everything between `sysctl` and the join is one command, `install`: each
  command in it fails alike. Every command may fail, the two checks (`grep`, `jq`) included, whatever is the case;
  a check passes only if what it looks for is there. The loop that waits for the advertisement is one check that may
  fail although it is there. A join that took effect and failed is among the failures.
* The tailnet field is `unknown` when Tailscale's API fails; `Reports` is what it is
  otherwise. A token, a shape of an answer and a scope are part of "fails".
* In `AuthGate`, a request that is not shaped like one (base64, headers, digits) is refused as
  one with a wrong signature is, so the messages are the phone's. The phone's clock may be ahead
  by `Drift`; one that is behind, which only moves the window, is not in the run.
* In `IdleAlert`, a tick is both an hour and a datapoint, and the ticks stand still during a
  sweep, which takes minutes. The datapoint of the latest tick may be missing (`lag`), as CloudWatch
  is minutes late. Requests are reduced to a launch where nothing runs, so one node runs at a time: what a sweep
  does with several is `ControlPlane`'s. Launch tags and stamps may be edited by hand.
* A last-idle-alert tag that does not parse counts for nothing (`watchdog.py:59-61`): it is `None`.
  A stored default region is an enabled one; another is refused by `up` as a malformed
  region is (`handler.py:220-224`), and makes the calls of a `down` fail.

* What a lookup in the tailnet or in CloudWatch says does not change what `_describe`
  decides; the node it reports does. The status document is that node.
* `Prepare` is three calls (image, instance type, security group) of which none changes
  the modelled state and each fails alike. Creating the security group is not modelled.
* All mails but the failure report, and in `IdleAlert` the idle mail, are left out: publishing is
  best effort (`watchdog.py:402-413`) and decides nothing.
* A sweep looks at each tag once. `TagEdited` therefore waits for the end of a sweep: an
  edit that falls into a sweep is no different from one before or after it.
* EC2 and SSM reads are taken to be up to date, and a `RunInstances` is not repeated by a
  client token: see the hazards.
* The clock is a number of ticks; `Day` is `ALERT_INTERVAL`. Lifetimes are numbers of
  ticks, `Never`, or `Malformed`, for a lifetime `parse_ttl` refuses.

## The properties

In `ControlPlane`, safety:

* `TypeOK`: the type invariant.
* `OneNodePerRegion`: two `up`s never leave two nodes in a region. There may well be two
  nodes in *different* regions (the code says so, `handler.py:238`).
* `DownMeansGone`: when `down` replies 200, nothing runs in the region it looked in,
  whatever failed, ended or was retried on the way.
* `ReportedNodeIsReachable`: when a reply names a node, the pointer names that node's
  region, so a `down` will find it. This is what the repair in `_up` (`handler.py:242-255`) is for.
* `NoLaunchOverTracked`: nothing is launched while the pointer names a region in which a
  node runs. A pointer that cannot be read does not count as none.
* `RequestKeepsLiveNodeTracked`: no request moves or clears the pointer of a running node.
* `MintedLast`: a request that fails with a key minted failed at the mint, the launch or
  the write of the pointer (`handler.py:259-265`).
* `ClearedOnlyWhenGone`: the sweep clears the pointer only if each node that still runs is
  one whose termination was not confirmed.
* `SweepSparesTheNewest`: an unexpired node is ended only for another one, seen, unexpired,
  launched no earlier, both with launch tags that can be read, and that one is to stay.
* `NoSilentDrift`: a sweep that could read the pointer and reports no failure leaves at
  most one node, unexpired and tracked. It is a statement about the failure mail: silence
  means order.

In `Convergence`:

* `CalmSweepSettles`: one sweep with its calls answered is enough. Whatever requests, failures and crashes have
  left, it goes to its end without a failure that counts, and what then runs is one node, unexpired when the sweep
  began and tracked; if it found none to keep, nothing runs and the pointer is cleared. The stamp, the
  traffic and the idle threshold may fail meanwhile, and a node may end. A stale pointer, one to another
  node, or none is put right alike.
* `Converges`, liveness: once calls are answered and no request arrives, the system comes to one
  node at most, unexpired and tracked, or to none and no pointer, and stays there. The
  exception is the one the code makes: duplicates without readable launch tags are left to
  the owner (`_order_survivors`).

Of the whole:

* `ImplementsFleet`: every behaviour is one of `Fleet`. One turn at a time; only a request
  launches, a node that never ran, where nothing runs, and not while something runs in the tracked
  region; a request takes the pointer off nothing that runs; what is tracked was launched. In
  the refinement, all reads, checks, failures and replies stutter.

In `NodeBootstrap`:

* `SelectableIsVerified`: what is on offer as an exit node forwards packets, whichever command
  failed (`userdata.sh:121-125`).
* `OnlineIsNeverAGuess`: with several devices about, a node that has its hostname tag is
  reported online only if its own device is there (`tailscale.py:115-120`).
* `ReadyIsReportedOnline`: the other half, a node that came up is reported absent only if
  Tailscale renamed it and there is another device (`tailscale.py:105-114`).
* `FailedNodeLeaves`: a node that boots comes up ready, or is gone and its device too, whichever
  command fails. The exceptions are a script that dies at the join (which leaves the node
  up on purpose, `userdata.sh:108-115`), at a shutdown that itself fails, or at the one unguarded command.
  It begins at the boot, so it needs the ERR trap as much as the cleanups.

In `AuthGate` and `Phone`:

* `RotatedSecretDies`: no request that arrives `SecretTtl` or more after a secret was replaced
  is accepted with it, whichever process handles it and however busy it was.
* `PhoneIsNotRefused`: a phone with a secret that has been current for `SecretTtl`, heard within the
  window, gets no 403, at whichever attempt.
* `TapIsAnswered`: a tap comes to an end.

In `IdleAlert`:

* `MailIsTrue`: a mail that claims 24 idle hours is about a node that sent less than the threshold in them,
  but for what was not published yet, and that ran in each of them. With a launch tag that cannot be
  read it may be younger: the code mails about it all the same (`watchdog.py:51-53`, and
  `src/tests/test_watchdog.py:52-53` tests it).
* `OneMailADay`: after a mail whose stamp took effect there is none for a day, whatever
  sweeps run or break off, and whichever node runs; a node whose launch tag cannot be read does not wait for the
  stamp of another. Without a stamp (a failed call, an invocation that ends in between, an
  edited tag) the mail comes again every hour, and nothing limits that.
* `ForgottenNodeIsMailed`: once a sweep was told of the traffic in this hour, a node that ran for a day below the threshold has
  been mailed about within the day, whatever stamps failed, sweeps broke off after the mail, or tags were
  edited. A mail that is sent and lost counts as sent, since it is stamped: the owner then hears nothing until the
  stamp is a day old.
* `IdleForIsTrue`: what `idle_for` covers begins in a tick the node ran in, and holds no tick of use but the
  latest one, as long as that is not published; and it goes back no less far than the last use, the launch or the
  window allow.

In `Lifetimes`:

* `AgeIsRight`: the age reads back as the time since the launch less its odd seconds, with hours below 24 and minutes
  below 60, in the shortest of the three forms `format_duration` has (`ttl.py:78-82`).
* `LifetimeIsKept`: a lifetime of a minute to a year is taken, and a node is past its end when it has run that
  long, and not a second earlier.

Promises of the comments and of the design that do not hold of the code:

* `IdleForSinceAboveZero` (run `idle_for_documented`). The design
  (`src/docs/superpowers/specs/2026-08-01-shardvpn-v2-design.md:208-209`) has `idle_for` go back to the latest datapoint above
  zero. The code goes back to the latest above a floor, or to the oldest, and says why (`watchdog.py:64-75`): an
  idle node never reports zero. It is the design that was not brought up to date; `IdleForIsTrue` is about the code, and has the test
  of the design as its mutant.
* `AdoptsOnlyOverStale` (run `adopt_stale`). The comment at `watchdog.py:344` calls adoption
  safe because it goes over an "empty/stale pointer"; the code also adopts over the pointer of a
  running node whose region it could not scan.
* `ReconciledUnlessUnorderable` (run `unread_pointer`). The comment at `watchdog.py:335-342` has one exception to the
  reconciliation, duplicates that cannot be ordered. A pointer that could not be read is another, and
  it is not reported as a failure.
* `FailsClosed` (run `fails_closed`). One command of the cleanup has no `|| true`
  (`userdata.sh:182`); if it fails, the script ends and the node stays, on offer.
* `JoinFailureShows` (run `join_failure`). A node whose join failed is reported online if the only
  device listed is the one its predecessor left behind.

`down` looks in one region: the pointer's, or without a pointer the default one. The code says that a node in another
region is the watchdog's job (`handler.py:189-195`), so this is no broken promise: `DownMeansGone` speaks of the region it looked in,
and `CalmSweepSettles` and `Converges` of what it left behind elsewhere.

## The runs

| Run | Instance | What it shows |
|---|---|---|
| `requests` | 3 regions, 3 nodes, 2 workers, lifetimes `Never` and `Malformed`, clock to 1 | the request properties, the order of three duplicates, and the refinement |
| `sweeps` | 2 regions, 2 nodes, 1 worker, lifetimes `Never` and 1, clock to 2, all tags editable, all readings | the three sweep properties, with requests in between |
| `convergence` | 2 regions, 2 nodes, 1 worker, lifetime 1, clock to 1, one editable node | `CalmSweepSettles` and `Converges` |
| `bootstrap` | 3 nodes, one of them of the past | the five properties of `NodeBootstrap` |
| `gate` | 2 processes, 2 secrets after the placeholder, `SecretTtl` 2, skew 1, drift 1, time to 4, 1 tap of 2 attempts | the four properties of `AuthGate` and `Phone` |
| `idle` | 2 nodes, one of them with tags that are edited, clock to 4, `Day` 2, amounts 1, 3 and 6, floor 2, threshold 6 | the five properties of `IdleAlert` |
| `lifetimes` | counts on both sides of a minute, an hour, a day and a year, offsets around the end, launches on and off a second | the two properties of `Lifetimes` |
| `idle_for_documented` | 1 node, clock to 3, `Day` 2, the amounts of `idle` | a counterexample of `IdleAlert` |
| `adopt_stale`, `unread_pointer` | 2 regions, 2 nodes, 1 worker, no symmetry | counterexamples of `ControlPlane` |
| `fails_closed`, `join_failure` | 2 nodes, one of them of the past | counterexamples of `NodeBootstrap` |

**The bounds, and why they suffice.** `Nodes` bounds the number of launches in a behaviour.
Two regions tell "where the pointer is" from "elsewhere". Two nodes make a duplicate;
three in `requests` leave a launch for after a lost answer and a repair, and in three
regions they make a list of duplicates with more than one entry, so the loop over it matters.
Since a region never runs two nodes, a node beyond the number of regions is one launched
after another has ended. Two workers are enough for two requests to race under the mutant
of `Admit`. A clock to 2 with `Day = 1` lets a node be launched, be mailed about and be due
for another mail, and lets lifetimes run out before, during and after a sweep. In
`requests` it goes to 1, so that nodes are launched at different times. Where a run leaves
`busy` out of `Readings`, the sweep goes on exactly as after `pending`. Symmetry is used in the
safety runs, where every region may be the default one; not in `convergence`, which checks
liveness, nor in the two runs with one default region.

In `bootstrap`, a second new node and an old device make every mixture of own, old and other
devices; no node looks at more than whether there is one other. In `gate`, a ttl of 2 with time to
4 lets a secret be cached, replaced, kept by one process, dropped by another and run out, with a
request that waits through it; a second tap begins where the first ended. In `idle`, four ticks with a day of 2
hold a young node, a mail, and the next mail that is due; a second node is launched after the first, in the window of the first
one's traffic and stamp, and its tags are edited. Of the amounts, 1 is noise and 3 is not; 1 + 3 is below the threshold of 6, 3 + 3 and a
single 6 are not. `MaxAsked` keeps products within the numbers TLC has; the theorems
need no such bound.

Deadlock is checked in every run: there is always another invocation, tap or question, and a
tailnet in which nothing is left to happen is `Settled`.

**Fairness.** `Convergence` assumes three things. A sweep that may start does at last: the
schedule is hourly, and Lambda queues a scheduled invocation that finds the function busy.
An invocation that runs goes on to its end: Lambda ends it after 300 s at the latest. From
some moment on (`calm`) the calls of a sweep that read the pointer, list and scan the regions,
terminate and write the pointer are answered; without that there is nothing to be promised. No
fairness is assumed for nodes, their owner or the clock, nor that calm ever begins; the
idle check may fail for ever. `NodeBootstrap` assumes that a script whose machine runs goes on, that
a machine that is shutting down goes off, and that Tailscale removes the device of a machine that
is gone (the key is minted with `ephemeral`). `Phone` assumes that the phone sends what it is
about to send, and that a request without an answer times out: nothing of the network or of the function.

Each property is also run against a version of the specification with one plausible bug in
it: the operators marked *Mutant*, each defined before the one it stands in for. They are
used nowhere else.

## What is proved

`ControlPlaneProofs` proves, for any set of regions, any finite set of nodes, any workers,
lifetimes and clock bound, from the assumptions named in `Cloud` and `Watchdog`
(`RegionsAssumption`, `NodesAssumption`, `TimeAssumption`, `ReadingsAssumption`, which only say that
the constants have the types meant and that the special values are none of the others):

| Theorem | States |
|---|---|
| `Invariance` | `Spec => []IInv` |
| `TypeCorrect` | `Spec => []TypeOK` |
| `OneNode` | `Spec => []OneNodePerRegion` |
| `DownIsDone` | `Spec => []DownMeansGone` |
| `ReportedIsReachable` | `Spec => []ReportedNodeIsReachable` |
| `LaunchIsGuarded` | `Spec => NoLaunchOverTracked` |
| `LiveNodeStaysTracked` | `Spec => RequestKeepsLiveNodeTracked` |
| `KeyIsMintedLast` | `Spec => MintedLast` |

On the same assumptions and on `IInv` rest two more modules. `FleetProofs` has `FleetIsEnough` (`ImplementsFleet => []OneNodePerRegion`, from the actions of `Fleet` alone: the abstract
specification is worth implementing) and the theorem `FleetIsImplemented`
(`Spec => ImplementsFleet`): turn by turn, what a step does to `turn` (`TurnIs`, `TurnWillBe`), to what runs and to the
pointer is a step of `Fleet` or a stutter. That a launch meets the guard of `Fleet` is `Apart` and `LaunchGuarded`.

`SweepProofs` adds an invariant of the sweep, `SweepInv`, since `IInv` says of a sweep only what requests
need:

| Theorem | States |
|---|---|
| `SweepInvariance` | `Spec => []SweepInv` |
| `SilenceMeansOrder` | `Spec => []NoSilentDrift` |
| `NewestIsSpared` | `Spec => SweepSparesTheNewest` |
| `ClearedWhenGone` | `Spec => ClearedOnlyWhenGone` |
| `CalmIsControlPlane` | `ConvergenceSpec => Spec` |
| `CalmSweepsSettle` | `ConvergenceSpec => CalmSweepSettles` |

Its parts follow the sweep: what runs was seen, is in a region still to be scanned, or in one that could not be
(`Seen`); what is expired is ended or on the list (`Reaps`), and so is everything else but the candidate (`SparesOne`),
where "ended" includes a termination that was not confirmed; what is on the list of duplicates is older (`OlderOnes`); what goes
wrong is reported (`Reports`); the pointer is as it was read (`ReadStays`); and all of this together at
the end is order (`EndsInOrder`). It is inductive because one invocation runs at a time: nothing is launched during a
sweep, so a node seen can only end.

The last two theorems are the part of convergence that is safety. `CalmIsControlPlane` makes every theorem about `Spec`
one about `ConvergenceSpec`. For `CalmSweepsSettle`, an answered step keeps a sweep `Clean` (`CleanStays`), so that at the pointer all that runs is the candidate
(`OnlyCandidateRuns`), and what `Adopt`, `ClearPointer` or `LeavePointer` then makes of the pointer is
right (`CleanSettles`); where the pointer is left, that it names the node's region is `HomesKnown`. What `Converges` adds
is that such a sweep comes.

`BootstrapProofs`, for any finite set of nodes (`PastAssumption`): `BootstrapTypes`, `OfferIsVerified` (`SelectableIsVerified`),
`OnlineIsCertain` (`OnlineIsNeverAGuess`) and `ReadyIsSeen` (`ReadyIsReportedOnline`). The second needs that a script
about to advertise has a machine that forwards (`VerifiedBefore`); the third is a fact of
`FindDevice` in every state of the right types; the fourth needs to know which devices have joined (`JoinedInv`).

`PhoneProofs`, for any number of processes, secrets, taps and attempts (`GateAssumption`, `PhoneAssumption`): `GateTypes`, `ReplacedSecretIsRefused` (`RotatedSecretDies`) and
`CurrentSecretIsTaken` (`PhoneIsNotRefused`). The invariant `SecretInv` orders the times: a secret was put before the
next one (`PutInOrder`), a cached one was current when it was asked for (`CacheWasCurrent`), so was that of the call under
way (`CallIsCurrent`), a request carries the time it was sent at
(`Timed`, `CallTimed`), and what a call is to be
answered is what its checks said (`CodeAtReply`).

`IdleProofs`, for any traffic, thresholds and bounds, and even if sweeps overlap (`TrafficAssumption`): `AlertTypes`, `MailedOnceADay` (`OneMailADay`),
`ForgottenIsMailed` (`ForgottenNodeIsMailed`), `IdleForTells` (`IdleForIsTrue`) and `MailTells` (`MailIsTrue`).
The invariant `AlertInv` says that a sweep may mail about one node at most (`OneAround`), and that the
stamp of the latest mail is in the tag of the node it was about, while any other node was launched since or has a launch tag that cannot be read
(`Remembered`); a node younger than a day is not mailed about, so either way a day passes. That a node has datapoints from the
launch in its tag until now, and only those, is `Recorded`: `MailTells` and `IdleForTells` need it to say when a node ran. A sweep about to stamp
has just mailed (`StampFollowsMail`). A forgotten node takes a second invariant on top of it, `MailInv`: the property speaks of a
mail and a sweep looks at a stamp, so a stamp must be of a mail no later than the latest one (`StampedIsMailed`). TLC checked these on the
instance of `idle` before they were proved.

`IdleForTells` and `MailTells` compare sums and extreme ticks of sets of datapoints. What `Sums` shows of them is induction in all but
name: the library's theorems of induction have a predicate as a parameter, so each lemma takes the
counterexamples as a set, and one that contains no other, which exists because strict inclusion among the
subsets of a finite set is well-founded (`Smallest`). So `SumFunctionOnSet` is what its definition chooses, and exists
(`TotalsExist`, `SumUnfolds`); a sum of natural numbers takes away any of its elements (`SumTakesAway`) and is
larger over a larger set (`SumGrows`); `Max` and `Min` are where they should be (`MaxExists`, `MinExists`).

`LifetimesProofs` proves of the arithmetic, from `LifetimesAssumption`, for all counts, launches and
offsets: `DurationReadsBack` (`format_duration` of any number, in its shortest form, reads back), `AgeIsAlwaysRight` (`Spec => []AgeIsRight`) and `LifetimeIsAlwaysKept`
(`Spec => []LifetimeIsKept`). They rest on the types of a question (`InputTypes`) and on a lemma that a cut to whole
seconds costs an age less than one (`AgeOfRun`); there is no induction, since a question does not depend on
the one before it.

None of the properties of `ControlPlane` is inductive. The invariant `IInv` that is has these parts:

* `OneInvocation`: at most one request or sweep is under way. Everything else rests on it:
  what a request has read stays true until it uses it, unless a node ends.
* `HomesKnown`, `RequestShape`, `SweepShape`: a node that was launched has a region, the
  pointer has the right one, and the locals of a request or a sweep are what the step it is
  at needs (with `TypeOK`, this is `TypeInv`).
* `Apart`: no two nodes run in one region. A launch keeps it because of
* `LaunchGuarded`: from the guard to the launch the region is empty; from `_describe` to
  the launch the pointer's region is, and from `_describe` to the write of the pointer the
  node it names does not run. Nodes that end only help.
* `DownCovers`: `down` works on the pointer that is still there, and every node that runs in
  its region is on its list.
* `ReplyTracked`: a node that is reported, or about to be, is in the pointer's region.

There is a lemma for each action, or for a few that are alike. Steps that only read go through
`RequestOnly`, replies through `ReplyKeeps`, sweeps through `SweepKeeps` (no request is under
way, so what is said of requests is vacuous). `EnvironmentStep` covers what happens
without the control plane. `StepInv` puts them together, and the action properties follow from
the invariant and from who may launch (`OnlyLaunchLaunches`), write the pointer
(`OnlyRequestsWrite`) and make a key (`OnlyMintMakesKey`).

**Model-checked only:** what is liveness (`Converges`, `FailedNodeLeaves`, `TapIsAnswered`), since liveness under
fairness is out of the prover's reach. Every other property of a passing run is a theorem. The five
counterexamples are TLC's.

## Not modelled

* The rules of the security group: nothing but a hand changes them, and the code looks at them once.
  That `_up` may fail there, before the mint, is modelled.
* The client token of a launch, the image and the instance type: values that are passed on.
* `render.py`, the texts of mails and the HMAC in the phone's script: string functions without
  state.
* The shape of requests and answers (base64, headers, JSON): what is malformed is refused, with
  403 or 400, before any state is touched.
* The mail about an untracked node: it is sent for every candidate the pointer does not name, and
  nothing depends on it.
* Delays of EC2's own reads, and a pointer value that does not parse and stays: see the hazards
  without a property.
* IAM, alarms, the budget and the release pipeline: configuration.

## Plan

1. *(done)* `Cloud`, `Handler`, `Watchdog`, `ControlPlane`, `Convergence`, and the proofs about them.
2. *(done)* `Fleet` and the run that `ControlPlane` implements it; `Tailnet` and `NodeBootstrap`; `AuthGate` and `Phone`;
   `IdleAlert`; `Lifetimes` and its proofs.
3. *(done)* That `ControlPlane` implements `Fleet`; the invariant of a sweep and its three theorems.
4. *(done)* The theorems about the boot script, the gate and the phone, and the idle mail.
5. *(done)* The theorems about the forgotten node, `idle_for` and the mail, for the traffic of each node and with edited tags, with the lemmas
   about sums; what a calm sweep leaves; what `Fleet` says by itself.
6. Left: the security group (find or create, refuse one with a rule) as a module; a pointer value that does not parse, which needs the
   reader of the pointer to tell it from a call that fails; EC2 reads that lag behind a launch, under which `OneNodePerRegion`
   fails, to say what remains true.
