# Verification of Mac-Web-RemoteControl

TLA+ models, TLC runs and TLAPS proofs for the remote-control host: a Go process
that serves a web page, relays the page's signaling to itself, streams the Mac's
screen to the browser over WebRTC, and hands the browser's mouse and keys to a Swift
helper that injects them.

## 1. The system

```
 browser page (web/index.html)                      play (Go)                         capture (Swift)
   signaling ws  <--------------->  hub (internal/signaling)
                                      ^ loopback ws
                                      v
   RTCPeerConnection <-- media -->  host session (internal/host/host.go)  <- frames -- encoder
   "input", "move" channels ----->  moveSeq, moveSlot, writers (moveslot, source) --stdin--> injector
   /ice-servers  <--------------->  ICE provider (internal/ice)
   every request through            password gate (internal/auth)
```

| Component | State it keeps | Operations | What is hard about it | What makes it correct |
|---|---|---|---|---|
| Media sessions, `host.go` | the reconnect loop's socket, `sessionHolder.sess`, per session: peer connection, context, `connected` channel, streaming goroutine | dial, read error, `ready`, `answer`, `newSession`, `set`/`end`/`endIf`, state callbacks, stream, shutdown | three kinds of goroutine share the holder; `set` swaps under a lock and closes after it; late callbacks; failures half way through | one session is fed at a time; none leaks; a signaling drop ends nothing; whatever ends a session ends all of it |
| Screen source, `source.go` | the hooked `stdin`, `wmu`, `moves` | start and reap the helper, hook and unhook stdin, `writeInput`, `pumpMoves`, frame loop | two `stream()` calls overlap while one winds down; writes block on a full pipe | input reaches the live helper only; a click never overtakes motion |
| Move path, `index.html`, `moveslot.go` | page: sequence, totals, what is sent, timers; host: `moveSeq`, `moveSlot`, its wake | move, press, flush, settle, `accept`, `put`, `take` | loss, reordering and repetition; two channel callbacks; congestion; new sessions | no motion is lost, doubled or made up; nothing goes backwards |
| Injector, `InputInjector.swift` | held buttons, modifier flags, cursor | one per input line | state dies with the helper | nothing stays held |
| Hub, `server.go` | the peer of each role | add (evicts), relay, remove and notify, keepalive | remove, look up and notify are three steps; eviction races departure | the newest connection has the role; a notice is never about somebody already replaced |
| Negotiation, `index.html` | `pc`, `epoch`, `pendingCandidates`, socket, last request | offer, candidate, error, peer-disconnected, reconnect, retry | handlers that await run concurrently; signaling and media fail independently | a stream that has settled is kept; a dead one is asked for again |
| ICE provider, `ice.go` | cache, expiry, cooldown, the flight in progress | `Servers`, `mint` | single flight with the caller's context | never blocks for ever, never fails, one mint at a time |
| Keyframes, `lowlatency.go`, `Encoder.swift` | last request, kick channel, force flag | read RTCP, request, encode | throttle drops; the request can block | the reader never blocks; a request leads to a keyframe |
| Gate and secrets, `auth.go` | failure counters, global window, secrets file | login, set password, set TURN key, load | file rewritten in place; several logins between the lockout's check and the counters | a partial file is refused; nobody is kept out by the failures of others |
| Helper media, command lines | - | macOS frameworks, flag parsing | - | not modelled, see section 8 |

They interact as follows. The page's `ready` goes through the hub to the host's loop,
which ends the current session, builds the next and sends its offer back; the answer
comes the same way. From then on media and the two data channels go directly. The host
runs one helper per session; frames come from its stdout, input and keyframe requests
go to its stdin, whose handle is shared by all sessions of the process.

Every hazard found in this code is listed with its line in `PROJECT.json`, with the
properties that cover it or the reason why none does.

## 2. Modules

| Module | Models | Proofs |
|---|---|---|
| `SourceFeed` | abstract: what the host promises about its one video source | |
| `HostSession` | `host.go` whole, and `screenSource.stream` as the process it runs | `HostSession_proofs` |
| `ScreenSource` | who writes what to the helpers' stdin while sessions follow each other | `ScreenSource_proofs` |
| `MovePath` | mouse motion and presses from the page's listeners to the helper's stdin | `MovePath_proofs` |
| `Hub` | the signaling server: roles, eviction, relay, departure, keepalive | `Hub_proofs` |
| `Negotiation` | the page and the host's loop talking through `Hub`, which it extends | `Negotiation_proofs` |
| `IceProvider` | the cache, single flight and cooldown of TURN credentials | `IceProvider_proofs` |
| `SecretsFile` | the secrets file, the commands that rewrite it, and what a server accepts | `SecretsFile_proofs` |
| `LoginGate` | the login handler: lockout, slowing, the lock that paces comparisons | `LoginGate_proofs` |

### HostSession

One action per atomic step of a goroutine; a step ends where another goroutine can see
what it did: a lock, a channel, a process call, a write to a socket. `loop` is the
program counter of `Run`/`connectAndServe`; `stream[s]` that of session `s`'s streaming
goroutine; `reaper[s]` that of the failed-state callback and the `endIf` goroutine it
starts. `sessionHolder.set` is two steps (`Set` under the lock, `CloseVictim` after it),
`endIf` likewise (`SwapIf`, then `ReaperClose` or `StreamClose`). The two calls of
`session.close`, cancel and `pc.Close`, are one step: both are idempotent and nothing
tells the moment between them from the moment before. `Cancelled(s)` is
`ctx.Err() != nil` of a context that is a child of the one of `Run`.

Outside the code, and unconstrained but for their own order: the socket drops; pion's
peer connection connects, fails or closes; the helper dies. The callbacks of a peer
connection run some time after the change they report. `Disconnected` is not modelled:
the code ignores it on purpose. A `ready` that comes while one is being handled waits
in the socket, as it does in the code. An answer is enabled for any offer sent so far,
so one for a replaced session may reach the current one; it then fails.

Left out, because no state depends on it: candidates (a trickled candidate decides
whether `PcConnects` ever happens, which is not assumed anyway), `peer-disconnected`
(the host only logs it), tracks and RTCP readers, the two-second wait before a redial.

### MovePath

Motion is one axis in whole units. The rounding of a line to tenths of a pixel and of
an event to whole pixels is not modelled, and a fractional delta can lose up to half a
tenth there. An absolute position is the number of the mouse event it comes from: a
later position is a greater number. The move channel is a set (unordered, loses what
it likes), the input channel a sequence.

The page: `MouseMotion`, `MousePoint`, `Press`, `Engage`, `Release` and `SwitchMode` are
the listeners; `FlushTimer` and `SettleTimer` are the four timers. A flush that the code
would run at once is one whose timer fires at once. The settle timer (60 ms) fires after
the flush timer (4 or 8 ms) of the same motion, unless congestion puts the flush off.
`Congested` is the send buffer's limit; the sequence number a refused send uses up is a
gap that `moveSeq` cannot tell from a loss, so it is not counted.

The host: `Accept` is `moveSeq.accept` and `Put` is `moveSlot.put`, two steps of one
callback with room for the other callback between them (`hold`). The helper is up and
hooked from the start of the session: what is sent while it starts is dropped by
`writeInput` or by `moves.clear()`, before there is a picture to move in. `Lock`, `Take`,
`WriteMove`, `PumpDone`, `Drained` and `WritePress` are the two loops over `take` under
`wmu`, written once because they are the same, and what follows them. `Drained` is the
last `take` of `writeInput`: what is put into the slot after it waits until the press is
written. A write blocks while the pipe is full.

`StreamEnds` loses the session and makes room for the next: the host's `moveSeq` and
helper are new, the page's variables, and its timers, go on as they are. `AnnounceInput`
and `AnnounceMove` are the two `ondatachannel` events of the new peer connection, and
anything may happen before, between and after them: mouse events, presses, timers. While
no channel is open `send` drops what it is given, and what it drops counts as sent; while
only the input channel is, moves go out on that (`SendInput`). `early` remembers what
happened between the two. Motion made while there is no channel at all is not counted as
the session's (`moved`).

Unsequenced moves of pages that have no move channel, other commands (keys, wheel,
button-up) and modifier flags are left out: they pass the same reliable channel and the
same lock as a press does. One session's slot and stdin at a time: what a replaced
session's pump or a stale pipe handle does is `ScreenSource`.

### ScreenSource

The opposite cut: one slot, one wake channel, one write lock and one `stdin`, shared by
the sessions of a process, and only as much of the motion as says whose it is. Each
session has three threads that write: its pump, an input callback and the goroutine
that turns kicks into keyframe requests. `Capture` is `writeInput` up to `mu.Unlock`;
`Locks`, `Take`, `WriteMove`, `WriteLine` and `Return` are what follows under `wmu`, so
that between looking at `stdin` and writing to it the session may have been replaced.
`PumpWakes` may win its `select` against a context that is done, as Go allows. A full
pipe is a write that has not ended yet; a write to a helper that has gone fails.
`stream()` is `Start`, `Clear`, `Hook`, `Unhook`, `CloseStdin`, each a point others can
see; its frame loop may be left while the helper lives. A session's callbacks and its
RTCP reader may still run when it has been cancelled, since its peer connection is closed
only after that. A
keyframe request within 300 ms of the last is dropped by the code on purpose; which
requests are honoured is left open, so every one that arrives here is. One that comes
before the helper is hooked need not be served: a stream starts with a keyframe.

### Hub and Negotiation

`Hub` has one handler per connection, whose steps end at each use of `hub.mu` and each
write: `Register`, `Evict`, `ReadMsg`, `Forward`, `Leave`, `LookUp`, `Tell`. Between
`ReadMsg` and `Forward`, and between `Leave`, `LookUp` and `Tell`, the peer that was
looked up may be evicted or gone. A connection is up, closed, or `cut`: half-dead, with
nobody told until a write fails or `KeepAlive` closes it. What is on its way over a
connection that fails may still be read, until the reader finds out (`Leave`,
`OwnerNotices`); what the server has not read of a connection that it closes itself
(`CloseNow`) is not. `Chat` lets the owners say anything.

`Negotiation` extends `Hub` and gives the owners their own behaviour instead of `Chat`.
The page's offer handler is three actions, because `setup()` awaits in the middle:
`PageOffer` closes what was there, `SetupDone` installs the new peer connection in the
global `pc` if the epoch is still its own, `PageAnswer` answers with whatever it finds in
`pc`. Several handlers may be under way. `requestOffer` is the 3 s timer, `ThrottleExpires`
the 9 s since the last request. The host is what `HostSession` has in detail, reduced to
one action per message; an answer for an offer that has been replaced makes the current
session `stale`, and its media path then fails. Candidates are left out.

### IceProvider

Every call of `Servers` is a caller with a context of its own. The `switch` looks at
everything under one lock (`Hit`, `Cool`, `Wait`, `Begin`); the mint runs outside it;
`MintOK` and `MintFails` are the second critical section; `Close` closes the channel of
the flight after that section, so a caller in between may begin the next. Time is what
is left of the cached credentials (`fresh`, `near` their expiry, `expired`) and whether
the cooldown lasts. A mint may be granted credentials of any of the three: nobody looks
at them before they are cached and returned. A call whose mint has failed answers from
what it has read of the cache under the lock (`held`), although the cache may be another
by then, and that ages too.

### SecretsFile

A secret is the number of the command that made it, so that "signed under this
password" is an equation. `Writes` truncates the file, `Finish` completes it, `CutOff`, the
end of the process, may come between the two or between the write and the moment the
password is shown. Nothing is synced: `disk` is what `WriteBack` has made durable, and
`PowerLoss` leaves the new file, the old one or a torn one. What a cut or a loss of power
takes from the file the owner does not rely on any more (`Reliable`). A
running server keeps the `Auth` it loaded. The owner may delete the file or take a core
secret out of it. One command at a time: the owner does not run two at once.

### LoginGate

A handler's steps end where it takes or leaves `mu` or `verifyMu`, or waits for the
form: `Post` looks at the lockout, `Queue` asks `globallyThrottled` and chooses the wait,
`Sleep` takes `verifyMu`, `Compare` gives it back, `Fail` and `LetIn` change the counters
after that. So between its check and its record a handler of the same or another address
may do anything, and a wait is slept that was chosen in an earlier window. A handler that
has answered takes the next request: logins do not end.

Instants are relative (`until`, `age`, `left`), so that time goes on for ever in finitely
many states; a minute is both `lockoutFor` and the global window, as in the code. `age`
is a minute at the start: the zero `globalWindow` is long past. `globalFails` is counted
up to the cap, beyond which nothing reads it. `streak`, `calm`, `gap` and `ahead` (the
logins that had chosen their wait when the cap was reached) are history. An
address is what `clientIP` returns, whatever it is taken from.

## 3. Properties

`HostSession`:
- `SingleLive`: the source never feeds two sessions that are both wanted.
- `NoOrphan`: a session that is not fully released is current, or with whoever has taken
  it out of the holder and is closing it, or still being made.
- `HolderKept` (action): a session leaves the holder only for a new request, a shutdown
  or its own failure; not for a lost socket, not through a late callback of another.
- `InputKept` (action): the helper of the session that streams loses the input to its own
  teardown only, and never through the late teardown of another session; the one
  exception is a session that was cancelled between the start of its helper and the
  hooking (section 7). What is written to a pipe whose helper has gone is not restricted:
  `writeInput` captures the handle and writes later, which is `ScreenSource`'s matter.
- `ImplementsFeed`: refinement of `SourceFeed`.
- `SessionEnds` (liveness): failure, closing, cancellation or the helper's death each
  lead to a closed peer connection, a returned goroutine and no helper.

`MovePath`:
- `MotionConserved`: what was accepted is written, in one pair of hands, in the slot, or
  replaced by an absolute position.
- `NoPhantomMotion`: the Mac never turns further than the mouse did in this session, if
  no sequenced move went out before the session's move channel was announced. That
  exception is a fault of the code: without it the property is `TotalsPerSession`, which
  `MovePathWindow` shows violated.
- `MotionArrives`, `PressesArrive` (liveness): all of it arrives, whatever is lost; motion
  unless the user lets go in between, or turns or has something sent in that same gap.

`ScreenSource`:
- `NoLeftover`: motion of one session is not written to a later one's helper, unless its
  callback was still running when its session had been cancelled.
- `WritersReturn`, `KeyframeComes` (liveness): the write lock is given back whatever
  becomes of the helpers; a request becomes a line for the helper that is hooked.

`Hub`:
- `HolderServed`: whoever has a role has a handler that will give it up.
- `OneServed`: of two open connections of a role one is about to be closed.
- `RoleKept` (action): a late departure takes nothing from a successor.
- `RoleFreed` (liveness): a half-dead connection does not keep its role.

`Negotiation`:
- `SettledStays` (action): a stream that is up, with nothing on its way but notices, stays
  up and stays so: sockets may drop, be evicted, dialed again, reported gone, and no
  request comes of it; its media or its source must fail to end it. It is about what all
  parties do next, since a request that somebody sends now would end the stream later.
  A stream with a request still on its way is not settled, and that request ends it: see
  section 7.
- `FewRebuilds`: requests do not multiply; a fault costs three sessions at most, an early
  request two.
- `PictureReturns` (liveness): when faults stop, the picture comes back and stays.

`IceProvider`:
- `OneFlight`: one mint at a time, and everybody who waits, waits for one to land.
- `FailuresSpaced`: between two failed mints a cooldown has ended.
- `BestAnswer` (action): an answer is valid, or has just been granted to this very call,
  and STUN alone only for want of better.
- `CallsReturn` (liveness): no call is stuck.

`SecretsFile`:
- `LoggedOut`: a server accepts only cookies handed out under its own password.
- `SecretsKept`: the file holds the token and the key the owner relies on.
- `TornRefused` (action): a torn file is written over by `-new-password` only.

`LoginGate`:
- `RefusedForItsOwn` (action): a right password is turned away only if its own address
  has failed `maxFails` times since it last got in, and last within the minute.
- `FailuresLock` (action): failures in a row lock, whichever handlers record them.
- `QuietIsFast` (action): after a quiet minute a login waits the short time.
- `GuessesPaced` (action): a comparison comes a short wait after the one before it, and
  once the cap is reached a long one, but for the logins that were waiting by then. For
  these too it would be what `auth.go:61` says; that is `EveryAttemptSlowed`, which
  `LoginGateCeiling` shows violated.
- `LoginsAnswered` (liveness): every login that has queued is answered.

## 4. Runs

| Run | Bounds | Shows |
|---|---|---|
| `HostSession` | 2 sessions, 2 sockets, fair | all of its properties, the refinement and `SessionEnds` included |
| `MovePath` | both modes, 2 mouse events (moves of 2 units with a clamp of 1, or presses), 1 press in a session, 1 release, 2 sessions, a send buffer of 1, a pipe of 1, fair | all of its properties |
| `ScreenSource` | 2 sessions, 2 inputs, fair | all of its properties |
| `Hub` | 1 host and 2 page connections, 1 message, 2 on their way, fair | all of its properties |
| `Negotiation` | 3 connections of each side, 5 sessions, 1 fault or early request, fair | all of its properties |
| `IceProvider` | 3 callers, fair | all of its properties |
| `SecretsFile` | 5 commands that make secrets, 1 edit by hand | all of its properties |
| `LoginGate` | 2 handlers, 2 addresses, 2 failures lock, 2 slow, a minute of 2 ticks, waits of 1 and 2, fair | all of its properties |
| `HostSessionBroken`, `MovePathDrag`, `MovePathWindow`, `LoginGateCeiling` | as small as shows it | the findings of section 7 |

Why these bounds are enough for what they ask. Two sessions are a session and its
successor, the only pair whose steps can interleave, since `ready` ends the current one
first; two sockets let a session outlive the one it was requested on. Two moves
are a lost or late one and the next; a delta of twice the clamp leaves in two pieces; a
pipe of one line blocks both writers. Two page connections and one host's are an
eviction and a peer to be told of it. In `Negotiation` the one trouble may be a socket, the
media, the source or an early request, and leads to at most three more sessions: five
leave one to spare, so no session is refused by the bound (`BoundIsEnough`), and with three
connections no redial is. Three callers are one that mints, one that waits and one that
comes between the landing and the wake. Five commands are enough for every order of two
changes of password, a start, a key and a recovery. Two login handlers are all that can
meet at a counter or at `verifyMu`; a minute no longer than the long wait lets a window
and a lockout end while somebody sleeps. What the bounds cannot show is what
the proofs are for: they hold for all values of the constants.

Every bound is a guard of the action it limits: `MaxSession` (`HandleReady`, `StreamEnds`,
`HostReady`), `MaxConn` (`Dial`), `MaxEvents`, `MaxPress`, `MaxRelease`, `MaxInput`
(`MoveArrives`, `InputArrives`, `RequestArrives`), `MaxQueue` (`Chat`),
`MaxTrouble` (`Fault`, `ThrottleExpires`), `MaxIssued` (`Writes`), `MaxEdit`
(`EditByHand`). `LoginGate` has no bound and is checked for deadlock. Elsewhere it is not: a stopped host stops for good (`Run` has
returned), the user may stop moving the mouse, owners stop talking, calls have returned,
and the bounded inputs and commands run out.

## 5. Fairness

`HostSession`: weak fairness for every step a goroutine takes by itself, and for the
kill that `exec.CommandContext` promises. None for the network, the viewer, pion's
changes of state, new requests, or a helper that dies by itself. `ReadError` is fair
because a read on a dead socket or a cancelled context returns. `StreamBroken` is not:
nothing forces a bad frame.

`MovePath`: the page's timers fire, the input channel delivers (it is reliable and
ordered), goroutines proceed, the helper reads its stdin. None for the announcements of
the channels, nor for `RecvMove`: the move channel may lose everything. Weak
fairness is enough for `wmu`: the moves of a bounded run end, and with them the pump's
need of the lock; in the code, where they need not, Go's mutex is handed to a waiter it
has kept waiting.

`ScreenSource`: the goroutine that writes keyframe requests takes its kicks, writes end
(the helper reads, or it is dead), and `wmu` is fair to who waits (strong fairness of
`Locks` for that goroutine), which Go's mutex is after a millisecond of waiting. Nothing
is assumed of sessions, inputs or pumps.

`Hub`: the handlers go on, `KeepAlive` included: pings are sent every so often. Not the
owners, and not the network. `Negotiation`: besides, owners find out that their socket
has gone and dial again, the page's timers and handlers go on, the host reads its socket,
and the media path of a session that both ends have agreed on comes up (or fails, which
counts as a fault). A repeated request counts as early only while something is
still under way.

`IceProvider`: a mint returns, because its request has a time-out of its own, and calls
proceed. Credentials need not age and the cooldown need not end.

`LoginGate`: time passes, a sleeper wakes up and records what it has found, and a waiter
gets `verifyMu` although others take it again and again (strong fairness of `Sleep`:
`sync.Mutex` hands over to one that has waited for a millisecond). None for requests,
forms or answers.

## 6. Proofs

`HostSession_proofs` (for all `MaxSession`, `MaxConn`; assumption `BoundsAssumption`).
`SingleLive` is not inductive: nothing in it says why two sessions cannot both be alive.
`SessionInv` strengthens it with four facts. Sessions are born in order (`BornInOrder`).
Only the newest is ever in the holder or on its way out of it, and the holder is empty
from `ready` until the new session is installed (`HolderInv`). Each unreleased session is
in somebody's care (`NoOrphan`). A session being built cannot have connected or failed,
since its answer has not been read (`FreshInv`). `SessionStep` proves it action by
action. Then `LiveIsNewest` gives `OneLive`; `QuietBeforeBuild` says that nothing is
alive when a session is made, and with `OnlyBeginFeeds` it makes every step a step of
`SourceFeed` or a stutter (`FeedStep`, `HostImplementsFeed`); `HolderStep` gives
`HolderKeeps`. `InputIsKept` needs from `SessionInv` that of two sessions that have come as
far as the hook one has been cancelled (`HookStep`).

`MovePath_proofs` (for all sizes; assumption `MoveAssumption`). `MoveInv` is types,
`MotionConserved` and `LinesClamped` in one induction, split into the page's steps, which
leave the host alone, and the receiving and writing steps, which move motion from one
place to the next. `NoPhantomMotion` needs more, `HonestInv`: until the session's move channel is announced
nothing that carries totals is in flight and the host knows of none (`Fresh`); from then on
the totals in flight agree with each other (a newer one never says less), none that is
still news says less than the host has (`Agreed`), and no part of what is pending turns
backwards. The invariant is what holds while nothing has been `sent` early, which is the
property's own exception, not an assumption: events, presses, timers and new sessions may
come at any time. The user turns one way (`Deltas \subseteq Nat`), as in the property: with
both ways, "further than the mouse" has no meaning.

`ScreenSource_proofs` (assumption `SourceAssumption`). That motion does not leak needs to
know why a slot, once cleared, has nothing of an older session: sessions that others
follow are all over (`Ordered`), so what their callbacks still add is late (`SlotInv`);
whoever has a pipe has it from a session that has cleared (`CapturedInv`); so what a
thread takes from the slot and writes is late too (`MovingInv`). `ThreadMoves` states
once what any step of a thread has to show.

`Hub_proofs` (assumption `HubAssumption`) is about `OpenSpec`, the hub with owners of which
nothing is known: they dial with any messages to say first, write any message, and take
what arrives or do not. `HubInv` adds to `HolderServed` and `OneServed` what a handler holds
between its steps (`HeldInv`), that connections and handlers are born together
(`LinkedInv`), that an open connection is the one its owner holds and nothing is on its way
one that was never opened (`OwnedInv`), and that who is about to be evicted is another connection of
the same owner, and one that has been served (`DisplacedInv`). `OneServed` needs
`HolderServed`: the connection that is displaced is the one that has the role. `RoleKept` is
read off the actions. `HubIsOpen` makes the hub with its chatting owners a case of it.

`Negotiation_proofs` (assumptions of `Hub`, `NegotiationAssumption`, and `CargoAssumption`,
that the hub carries what the two send). From types (`EndsInv`) every step of the page, the
host, their sockets and the media is a step of `OpenSpec` or leaves the hub alone:
`HubInUse`. So all that is proved of the hub holds in the composition, for every number of
connections, which TLC cannot hold.

`SettledStays` is its own invariant: `Settled` says enough of both ends and of the hub for
the next step. That nobody asks, answers or builds in a settled state is `SettledIsSilent`;
that whatever the hub and the sockets do leaves nothing but notices on its way is
`NoticesHub`, `NoticesTaken` and `NoticesDial`, for which the hub's invariant is needed (a
handler that is to write a message is seen in `handler`, not in the queues); and
`SettledStep` puts them together, action by action.

`FewRebuilds` says nothing of what is under way, and is not inductive. The proof is an
account. A fault is worth three sessions, an early request two. A session that has been built
costs one; so does every request on its way (in a queue, or in a handler's hands), and a
dead connection of the page whose handler has yet to run: it will register, or has already
displaced the page's live connection, and then closes it (`Late`), for which the page pays
with one more request. These are counted as a finite set (`Dues`), and `Room(n)` says that
`n` more could be paid for. How much each step adds to `Dues` is proved from the hub's
invariant alone (`DuesSend` to `DuesStay`: by an inclusion or an injection between the sets
before and after it). How much room there must be depends on how far a rebuild has got
(`Stage`): one in `Quiet`, when a single request will do; none from `Asking` to `Steady`,
when what has been paid for is on its way and the hub is calm, so that the one message there
is cannot be lost without a fault (`AloneStays`); and one or two when it is `Astray`, which
only a fault or an early request leads to and only a request made when nothing is under way
leads out of. Each stage has a lemma that says where it may lead. Of the two sessions that
either is worth, the first is for the page's next request (`AstrayAsks`), the second for the
request it repeats when all is quiet, in case the first has met what was left behind
and come to nothing (`AstrayExpires`). The third that a fault is worth is for a connection
that fails before its handler has registered it, which makes it `Late` (`DuesFail`). The
same account shows that the bound on sessions bounds nothing: with
`MaxSession >= 1 + 3 * MaxTrouble`, as in `Negotiation.cfg`, no request that reaches the host finds it used up (`BoundIsEnough`).

`IceProvider_proofs` (assumption `CallersAssumption`). `ProviderInv` adds that a mint only
begins when the provider is not cooling down, so that a failure that starts a cooldown
is not one within another (`MintsWarm`), and that a call that has minted returns what it
was granted (`MintedGranted`).

`SecretsFile_proofs` (assumption `SecretsAssumption`). `LoggedOut` follows from `Paired`:
wherever a hash and a cookie secret are kept together (in the file, on the disk, in a
command or a server), one command has made both; so a write that a loss of power undoes
brings back a pair.
`SecretsKept` needs to know what a command is going to write while the file is torn
(`Relied`), and `SecretsInv` that a start serves complete secrets (`StartsComplete`).

`LoginGate_proofs` (assumption `GateAssumption`). `LockInv`: the counter of an address is
its failures in a row until they lock it, and the lockout's rest and the time since the
last failure make no more than a minute. `WindowInv`: what is counted in a window that is
not over is younger than the window. `SleepInv`: nobody sleeps beside another, and the
sleeper has slept, but for the rest, since the last comparison. `SlowInv`: while the cap is
reached, whoever waits has chosen the long wait or was waiting before.

| Module | Theorem | Property |
|---|---|---|
| `HostSession_proofs` | `SessionInvariant` | `SessionInv`, the inductive invariant; no run's property |
| | `TypeCorrect` | `TypeOK` |
| | `NothingOrphaned` | `NoOrphan` |
| | `OneLive` | `SingleLive` |
| | `HostImplementsFeed` | `ImplementsFeed` |
| | `HolderKeeps` | `HolderKept` |
| | `InputIsKept` | `InputKept` |
| `MovePath_proofs` | `MoveTypes` | `TypeOK` |
| | `NoMotionLost` | `MotionConserved` |
| | `EveryLineClamped` | `LinesClamped`, that no line carries more than `maxDelta`; no run's property |
| | `NoPhantom` | `NoPhantomMotion` |
| `ScreenSource_proofs` | `SourceTypes` | `TypeOK` |
| | `NothingLeftOver` | `NoLeftover` |
| `Hub_proofs` | `HubIsOpen` | `OpenSpec`, the hub with arbitrary owners; no run's property |
| | `HubTypes` | `TypeOK` |
| | `HolderIsServed` | `HolderServed` |
| | `OneIsServed` | `OneServed` |
| | `RoleIsKept` | `RoleKept` |
| `Negotiation_proofs` | `HubInUse` | `OpenSpec`, again; no run's property |
| | `HolderIsServedInUse` | `HolderServed`, of the composition |
| | `OneIsServedInUse` | `OneServed`, of the composition |
| | `RoleIsKeptInUse` | `RoleKept`, of the composition |
| | `NegTypes` | `NegTypeOK` |
| | `SettledStreamStays` | `SettledStays` |
| | `RebuildsAreFew` | `FewRebuilds` |
| | `BoundIsEnough` | `NoneRefused`: no request is refused for `MaxSession`; no run's property |
| `IceProvider_proofs` | `ProviderTypes` | `TypeOK` |
| | `SingleFlight` | `OneFlight` |
| | `OutageIsCheap` | `FailuresSpaced` |
| | `AnswersAreBest` | `BestAnswer` |
| `SecretsFile_proofs` | `SecretTypes` | `TypeOK` |
| | `SessionsLoggedOut` | `LoggedOut` |
| | `NothingLost` | `SecretsKept` |
| | `TornStays` | `TornRefused` |
| `LoginGate_proofs` | `GateTypes` | `TypeOK` |
| | `OwnFailuresOnly` | `RefusedForItsOwn` |
| | `FailuresDoLock` | `FailuresLock` |
| | `SlowingEnds` | `QuietIsFast` |
| | `ComparisonsPaced` | `GuessesPaced` |

Only model-checked: the liveness properties (`SessionEnds`, `MotionArrives`,
`PressesArrive`, `WritersReturn`, `KeyframeComes`, `RoleFreed`, `PictureReturns`,
`CallsReturn`, `LoginsAnswered`), which the prover cannot reach. Every invariant and action
property of the passing runs has a theorem, for every value of the constants.

## 7. Where comments and code disagree

Shown by a run:

1. `HostSessionBroken`: a bad frame with the helper alive hangs the session in
   `cmd.Wait` (`source.go:366`); the comment at `host.go:437` wants it ended.
2. `MovePathDrag`: a desktop press is not sequenced, and an older move may follow it
   (`index.html:296`); `moveslot.go:54` says an old position never yanks the cursor back.
3. `MovePathWindow`: between the announcements of a session's two channels the page sends
   the last session's totals to a host that counts from zero, and the Mac turns by all of
   them (`index.html:119-123`); `moveslot.go:59` and `index.html:134` say the totals are
   the session's own.
4. `LoginGateCeiling`: the wait is chosen before the queue for `verifyMu`
   (`auth.go:466`), so logins queued before the cap was reached are compared after it
   250 ms apart, as many as there are connections; `auth.go:61` and `auth.go:68` say that
   every attempt past the cap takes two seconds.

Seen while modelling, with no run of their own:

- A replaced session that is late can hook its own helper's stdin over its successor's
  (`source.go:355`); line 361 guards only the unhooking. `InputKept` excepts this, and
  nothing else.
- The error goes to the socket the session began on (`host.go:442`), and is lost when a
  newer one is up.
- A press can overtake motion held between `accept` and `put` (`host.go:357`).
- A move of that same window carries the last session's sequence number too: until the
  page's new numbers have passed it, `moveSeq` drops every move of the session. Motion made
  in the window and not sent is lost when the announcement resets the totals
  (`index.html:123`).
- The settle under congestion repeats the last but one position and is not armed again
  (`index.html:274`).
- An old session's pump, or a writer that captured a dead pipe, takes pending motion of
  the new session with it: it is never written (`source.go:281`, 309).
- Two offer handlers in `setup()` at once: the second overwrites `pc`, and the peer
  connection of the first stays open until it fails (`index.html:337`).
- The notice or error of an old host socket may reach the page after the new host's
  offer, and tears the new session down; the retry loop repairs it.
- A page that gives up its request for ICE servers cancels a mint that others wait for,
  and its cooldown then holds for all (`ice.go:127`).
- A request that was sent before the stream came up and reaches the host after it ends the
  stream (`host.go:206`). Two ways lead there: a request repeated after 9 s
  (`index.html:387`), and a socket that drops during the negotiation, since the redial asks
  at once (`lastOfferRequest = 0`, line 397) while the media are not healthy yet. The comments
  at `server.go:136` and `index.html:379` want a happily streaming session left alone.
- A credential whose granted lifetime is over when the answer has been read is cached and
  returned without a look (`ice.go:145`, 205); the callers after it look, and mint again.
- `os.WriteFile` does not sync (`auth.go:284`): a loss of power may undo or tear a change of
  password that has been reported done. After the old file has come back, sessions of the
  old password are valid with it.
- Leaving the page sends `x`, which lifts buttons and modifiers (`InputInjector.swift:127`)
  but no ordinary key, whose key-up the page then no longer sends; `index.html:311` says
  nothing stays stuck.
- A settle repeats the modifiers of the last motion (`index.html:244`, 274): one released
  within its 60 ms is pressed again until the next event.
- A new helper starts with no modifiers set, and `setFlags` posts changes only: it does
  not lift one that a killed helper has left down (`InputInjector.swift:168`).
- Two open pages evict each other for ever (`server.go:115`).
- `ARCHITECTURE.md:118` says the server tells the host to make the offer when both are
  present; `server.go:136` explains why it does not. `server.go:51` speaks of rejecting a
  second connection; `add` evicts the first.

## 8. Not modelled, and why

- Encoding, capture and audio: calls of macOS frameworks. What the host relies on, that
  the helper starts, writes frames and exits, is in `HostSession`.
- RTP, ICE, DTLS and SCTP themselves: pion and the browser. What the code relies on is in
  the external actions.
- The transient `disconnected` of a connection and its return, during which the page does
  not count its media as healthy (`index.html:74`): in `Negotiation` a media path is up or
  fails for good, and both ends come up in one step (`Connects`). A page that asks in such a
  moment ends its own stream, as with the requests of section 7.
- Two owners of one role, such as two open pages: in `Hub` each role has one owner, which
  dials when it has lost its connection. What an owner loses by closing its own end is
  everything that it has not read.
- Time, where it is not what a property is about. `MovePath` takes the flush timer (4 or 8
  ms) to fire before the settle timer (60 ms) of the same motion, unless congestion puts it
  off: a page so late that both are due runs them in that order. In `Negotiation` a request
  repeated while something is under way, for which 9 s must have passed, is a trouble and
  counted as one. A new peer connection's channels are announced in the order `newSession`
  makes them; the other order would have no window between them.
- The settle of desktop mode: `MotionArrives` is about the motion of game mode, since of
  positions only the last counts.
- Candidates and the page's queue of them: whether a connection comes up is left open, so
  nothing in the models depends on them.
- The injector's held buttons and modifier flags: state of the helper that dies with it.
  No Go code keeps or restores any of it; what reading shows is listed in section 7.
- Other input commands: stateless filters on the reliable channel behind the presses.
- Hashing, redirects, the form's fields and the bearer token's check: functions of one
  request. Session expiry is 24 hours of wall-clock time. A restart forgets the failure
  counters, which live in memory only.
- The playout-delay interceptor and the encoder's force flag: one assignment each.
- Flag parsing, page layout, `playIVFOnce` (a stream without a helper).

## 9. Possible extensions

The injector with the page's release on blur; candidates, if a property of the
connection's coming up is wanted; `Negotiation`'s host replaced by `HostSession` itself,
which TLC cannot hold at present.
