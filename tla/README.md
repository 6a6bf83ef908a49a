# Remote Input Bridge: specification and proofs

Remote Input Bridge lets one keyboard and mouse, attached to a Windows PC, drive a
Mac as well. A Rust program on Windows (`windows-sender/`) captures the input and
sends it over an authenticated TCP connection (keys, buttons, control) and
encrypted UDP datagrams (pointer motion and scrolling); a Swift program on the
Mac (`mac-receiver/`) replays it. This directory holds TLA+ modules translated
from that code, TLC configurations that check them on small instances and
proofs checked by TLAPS.

Paths below are relative to `windows-sender/src/` (Rust) and
`mac-receiver/Sources/RemoteInputBridge/` (Swift). `PROJECT.json` maps every
definition to its source lines.

## The system

| component | state | operations | who calls it |
|---|---|---|---|
| AppState (`state.rs`) | atomics: target, link, suppress, suppress_preference, cumulative mouse totals, pending scroll | `set_link`, `request_target`, `force_local`, `apply_target`, `set_config` | UI thread and network thread, without a lock |
| network thread (`net/mod.rs`) | the connection, reader generation, backoff, pairing code | the loop of `run`: connect, take a `NetMsg`, heartbeat | fed by the UI thread, one reader thread per connection, itself |
| handshake (`net/control.rs`, `config.rs`) | key store on disk | `connect`, `pair`, frames with a strictly increasing counter | network thread |
| realtime sender (`net/realtime.rs`) | last totals, sequence, keep-alive clock | one tick of `run` | a thread per connection |
| input capture (`input/mod.rs`, `raw_input.rs`, `hooks.rs`) | what is held and what of it is stale, hotkeys, capture field | key, button, motion and wheel events, hooks, cursor clip | UI thread (raw input and low-level hooks) |
| window, tray, banner (`ui/`) | controls, banner | settings, commands, power events | UI thread |
| discovery (`net/discovery.rs`, `DiscoveryResponder.swift`) | list of Macs, a search in progress | probe, reply, merge | its own thread |
| updater (`update.rs`, `Updater.swift`) | stage, pending release, busy flag | check, install, hand over | UI and worker threads |
| control server (`Net/ControlServer.swift`) | peers, the session, the pairing code, watchdog | hello, pair, auth, reliable messages, close | serial control queue |
| realtime receiver (`Net/RealtimeReceiver.swift`) | session, last totals, last sequence, active flag | datagram, begin/end session, set active | serial realtime queue, control queue |
| event scheduler (`Input/EventScheduler.swift`) | pending and remaining motion, steps, the thread | submit, flush, start, stop, loop | realtime queue, control queue, its thread |
| input injector (`Input/InputInjector.swift`) | held keys, buttons, modifiers, pointer | key, button, move, scroll, releaseAll | control queue, scheduler thread |
| receiver model (`AppModel.swift`) | settings, the parts above, sleep/wake | start, stop, didStart, didEnd, didReceive | main thread and the queues' callbacks |
| telemetry, logs, keymaps, crypto, autostart, installer, scripts | counters, files | | everyone |

What makes it hard: the target of the input is shared by two threads that
write it without a lock; a target change, a keystroke, a datagram and the end of
a connection travel by different paths and are applied in orders nobody chose;
datagrams are lost, doubled and reordered; both sides must agree about what is
held down although the link may go at any moment, and after it has gone nothing may
stay held; the scheduler splits motion into steps while new motion arrives and
while its thread is stopped and started.

### What makes each part correct

* AppState and network thread: local input is swallowed exactly while the Mac
  has it; the receiver is told of every switch; a lost link gives the input back.
* Realtime channel: the pointer moves by what the mouse moved while the Mac was
  the target, no more and, but for what is still in flight, no less, whatever
  datagrams are lost.
* Scheduler: every count submitted is posted once, or dropped by a flush;
  motion that was accepted is eventually posted.
* Input tracker and injector: nothing stays held on the Mac that is not held on
  the keyboard, and nothing is released that was never pressed.
* Handshake: no key is filed that an AUTH has not proven; a PC in the session and the
  Mac agree on its key, so that it comes back without a code; one session at a time.
* Updater: one worker at a time; what is started is a newer release whose digest was checked, once.
* Window, discovery: what is shown, in effect, in the file and connected to agree; what is recorded can be
  read back; a search ends.

## Modules

### `TargetSwitch` (with `MCTargetSwitch`, `TargetSwitchProofs`)

Who owns the input on the Windows side. The threads are `"ui"` (window
procedure, hotkeys, tray, exit of `main`) and `"net"` (`net::run`); `pc` says
where each is. A step is one access to shared state, so `apply_target` is five
steps (swap the target, store suppress, pin the pointer, post to the window, queue
`TargetChanged`), `set_link` is a store and a check, `save_settings` a read
and two stores. `ret` is the return address, because `apply_target` is called
from several places. `chan` is the `NetMsg` channel without `Input` and
`LogLine`, whose handling writes to the session and can fail like that of
`TargetChanged`. `told` is the last `TARGET_ACTIVE` the live session was sent; `live`
on a message is the reader generation (for messages from elsewhere, which
carry none, it is only history). Two history variables name what the
properties except, each until the next switch that begins alone:

* `overlapped`: the last switch began while another was in progress, which the code does not
  prevent. After it suppress, banner and target can disagree: the emergency hotkey, for one, returns at once when the
  network thread has swapped the target and not yet stored suppress (state.rs:199-206).
* `lateSave`: the last switch was forced by the network thread between the two halves of `save_settings`. The window reads the
  Mac as the target (window.rs:688), the link is lost, `set_link` takes the input back and stores suppress FALSE, the window
  stores TRUE (window.rs:689): Windows is the target and its keyboard and mouse are swallowed, which the fail-safe
  described at state.rs:172-174 is there to prevent. Leaving it takes a hotkey to the Mac and back; the emergency
  hotkey does nothing, as Windows already is the target. `SuppressionFollowsTarget` excepts this and says so; TLC finds the trace
  when `lateSave` is dropped from it.

Reader threads (`reader_incoming`, `reader_of_closed_connection`) and the
passing of `next_attempt` are environment actions. `backoff_elapses` waits until
messages queued before the loss have been taken: the wait is at
least 500 ms and the loop takes a message at once.


### `RealtimeChannel` (with `MCRealtimeChannel`, `RealtimeChannelProofs`)

One axis of the mouse, from `handle_mouse` to the scheduler. The sender's totals
wrap at `Modulus`; `pc` and `x` are the tick of `realtime.rs` between loading the
total and looking at the target; `net` holds datagrams, which are delivered in any
order, again and again, or never, also in a later session. `tcp` carries
switches, sessions and, without UDP, differences. The receiver is two queues: `flag` and
`didReceive` are the control queue, `rtq`, `run_block` and `handle` the realtime queue.
The realtime thread loads the totals it starts from when it first runs (realtime.rs:56), which `start_session` does for it:
a count between the two would be in the first difference, where in the code it is in none. `apply_target` is two steps here; `TargetSwitch` has the rest, and shows that a session
starts with Windows as the target.

`sent` (every total sent, by sequence number), `moved` (what the scheduler was
given since the baseline), `base`, `owner` and `replayed` are history. A
difference carries the totals it was taken between instead of their
difference, so that the properties can speak of them.


### `HeldKeys` (with `MCHeldKeys`, `HeldKeysProofs`)

A key's way from the keyboard to macOS. Three places remember keys, and each is a
variable: the hook (`hookMods`, `swallowed`), the tracker (`down`, `stale`) and the
injector (`pressed`). `phys` and `macHeld` are what is really down, and
what macOS believes is. `keyboard_proc` either eats a hotkey, forwards a
key it swallows or lets it through to Raw Input (`rawq`); `th` says where each thread is, in a switch or in
`handle_key_event`. The three messages of a switch are one frame (`on`, `off`),
since the receiver's control queue handles them without anything of its own in between. The
injector changes its sets under its lock (`injector_key`, `releaseAll`) and posts
afterwards (`post`), which matters because `willSleep` runs on another thread.

A key without its modifier is a plain key, so a plain letter is not a case of its own. `overlapped` (two switches
have been in progress at once) and `raced` (a sleep's release met another release or key half done) are
history, and so are the two sets the properties except, both possible only where the hook is called:

* `astray` (`Strays`): keys whose release the tracker will not get, or has before the press. The hook
  lets by a press of which it will eat the release: a trigger, after its modifier is up, repeats, or is pressed again, no longer
  matches, and `SWALLOWED` is still set (hooks.rs:250-262). Or it forwards a release while the press, made before
  suppression came on, still waits as Raw Input (hooks.rs:265). A key is no longer astray when its release is tracked, or a switch
  marks it, with no event of it on its way.
* `misfired`: triggers that fire in the tracker, which counts their release as stale, although their press was forwarded before
  (mod.rs:106-111). A switch or a forwarded release ends it.


### `Playout` and `EventScheduler` (with `MCEventScheduler`, `EventSchedulerProofs`)

`Playout` is what the scheduler promises: motion that was submitted is owed, and is played
out by steps between one count and all of it, passed on directly, or dropped.

`EventScheduler` is the code. An action is one critical section of `condition`'s lock, or the
`post` after it. A thread is its generation: `pc[g]` is `"top"` where the loop holds no
lock and looks at the flags next, `"asleep"` in the wait without a deadline, `"pacing"` in the one with
a deadline, `"paced"` when woken from it, `"post"` between unlock and `injector.move`. A caller of `submit` in
immediate mode is between unlock and post while `call[c]` is not 0. Threads that were stopped
stay in the model until they have returned. A mode is a kind, `"immediate"`, `"whole"` (coalesced and paced
differ in the interval only) or `"smoothed"` with alpha as a fraction; `apply` may
change it at any moment. Deadlines pass at any moment. `taken`, `posted` and `submits`
are history.

`remaining` is a Double in the code. Only whole numbers are ever added to and taken from it,
so it is an integer here, and `hasResidualLocked`'s half count is "not 0". Alpha is
exact, where the code rounds a product of Doubles; the proofs use of a step only that it is between
one count and the whole, which the code enforces for both. Pending motion wraps at 32 bits
in the code and does not here.


### `Session` (with `MCSession`, `SessionProofs`)

How PCs and the Mac come to share a key and a session. `snd[w]` is the PC's
handshake, `pc` the frame it waits for; on success it is `"up"`. `phase`, `peerID`,
`peerKey`, `pending` are the fields of `Peer`, one action per frame; `toMac` and
`toWin` are the two directions of a connection. A key is the number of the
connection that made it, and a proof is known by the key or code it was made with:
the receiver compares nothing else of it. `store` and `devices` are the key
stores, `disk` and `macDisk` their files. Windows rewrites its file in place, so a restart may
leave it `Garbled`; the Mac replaces its file as a whole. Keys are filed by `Index`: 0 is the
Mac's address, the others its identities, since forgetting all devices leaves it without one
until it restarts (AppModel.swift:193, Config.swift:175).

A connection that the PC gives up (`close`) still delivers what was sent on it, and
then its end; a lost link is a connection nothing more is read from. The 0.1 s
between an ERROR and the close of the connection is left out, as the PC sends nothing
in it. `watchdog` also stands for `disconnectClient`; `stopLocked` for disabling and
restarting the receiver and for a change of its port. Timeouts and expiry of the code come at
any moment. The user types the last code shown, which need not be the one the Mac compares it with.

`late` and `silent` are history: keys accepted from a PC that had given up the connection, and a
session that `stopLocked` ended: it closes every peer without telling the delegate, which already clears `session`, so
its own `if session != nil { ... didEnd }` (ControlServer.swift:135-138) never runs, and when the port is changed (147-156) no one
else releases what is held, although README.md:390 says that every disconnect does. `DelegateKnows` excepts this end.


### `Updater` (with `MCUpdater`, `UpdaterProofs`)

The sender's self-update. `stage`, `pending` and `busy` are the fields of the mutex `STATE`, and an action
is one access to it, or what a thread does between two. `worker[t].pc` is where a worker thread is, `outcome`
what it will store when it has given `busy` up; `ui` is the command the window's thread is in (it reads the
stage, then `pending`, then claims); `label` is what the update button was last drawn as. `installer` is the file in
the temporary directory, per version: absent, partly written, something else, or the file the digest
names. A manifest is a version and whether it has a usable build. Versions are sequences of
numbers. The HTTP layer either delivers or fails; where it fails decides what is left of the file.


### `Window`, `Discovery` and `Hotkeys` (with `MCWindow`, `WindowProofs`)

How a setting gets from the window to the file, the hook and the network thread.

`Hotkeys` is the text form: `parse_hotkey` and `format_hotkey` over the tables of config.rs. `Discovery` is the
search: the flag `running`, the thread `finder`, which asks on the subnets it can and hears any of the Macs
there in any order, and `fresh`, what it leaves for the window. `Window` extends both.

`config`, `hotkeys`, `file` and `autostart` are the settings in effect, the parsed hotkeys, config.json and the
registry's Run entry; `fields` are the window's controls and `edited` those the user has changed since they were
filled. Settings that are treated alike are one setting: `edge_switch` stands for the other check boxes,
`tcp_port` for the other port. Handlers of the window's thread are one action, except `save_settings`: it
is split at every message box, whose loop handles the timer and the tray's commands (`Listening`), and at every
write another thread or the next start may see. The interval command is split between storing and telling the network
thread. `net` is the network thread as far as settings go: it reads them when it connects
(`net_attempts`), connects without taking messages, and compares on `ConfigChanged`. `copy` is a second copy of the program
started with `--mac` and `--save`.

`press`, `behind` and `wentBack` are history: what was shown and in effect when Save was pressed and whether a message
box's loop changed it since; that config.json was not written with what is in effect, because a write failed, another
copy wrote or the host came from the command line; that the connection in use was made with settings the network
thread had yet to be told of, which then went back to those it compared with last. The last two end with the next write and with that connection.

## Runs

### Target switch

| run | constants | properties | result |
|---|---|---|---|
| target | auto-connect and edge switch on, backlog 1 | `TypeOK`, `SuppressionFollowsTarget`, `MacFollowsTarget`, `DesktopGivenBack`, `LostLinkReturnsInput`, `MacEventuallyReleased`, `QuitCompletes` | holds under `FairSpec`; 212 thousand states |

`MaxBacklog` bounds what users and readers add to the two queues; a thread that
is in the middle of an operation finishes it whatever the length. With a backlog of one, the
messages a switch or a loss adds by itself still make a stale message behind a fresh one;
the safety properties are proved for queues of any length. Auto-connect is an assumption of
`LostLinkReturnsInput`: without it a switch that passed the link check of `request_target`
(state.rs:183) before the link was lost leaves the input on a Mac that is gone, since only a
later `set_link` looks again.
Connecting, losing and switching repeat without bound. `FairSpec` assumes that
both threads are scheduled (weak fairness of all their steps taken together, so
that TLC may order them as it likes) and that time passes. Nothing
is assumed of users, readers or the network: a heartbeat may never find the
peer gone. Deadlock is not checked, as the sender stops after Quit.


### Realtime channel

| run | constants | properties | result |
|---|---|---|---|
| realtime | modulus 3, 3 counts, 2 sessions, 3 switches, with UDP and without | `TypeOK`, `CursorOnPath`, `NoGapOverTcp` | holds; 2.8 million states |
| realtime_catchup | modulus 4, keep-alive, 2 counts, 1 session, 1 datagram lost | `CatchesUp` | holds under `FairSpec` |
| realtime_replay | modulus 8, 4 counts, 1 session, 1 switch | `NoReplay` (RealtimeReceiver.swift:125) | violated |

Three counts with modulus 3 wrap once, two sessions let an old datagram and an old
control frame meet a new session, three switches take the input there, back and there
again. A datagram that is merely delayed stays in `net`, so `MaxLoss` matters only
for liveness. A keep-alive is sent when it would change something and none is in
flight; one that changes nothing is a stuttering step. `FairSpec` assumes that threads and queues are scheduled and that a datagram
that stays in flight is delivered; `MaxLoss` of them are not.

`udp` is chosen once per behaviour. Run realtime merges states that differ in the history
`owner` and `replayed` only (`OwnersAside`), which its properties do not mention. `CursorOnPath` speaks of UDP, `NoGapOverTcp` of the
fallback. The violation is over UDP: a total sampled just before the switch, or delayed from
an earlier turn, may become the baseline. Over TCP the first difference starts at the
last tick and not at the switch, which breaks `NoReplay` in the same way. Both are jumps of
what a tick or two collect, and `CursorOnPath` shows that nothing more goes wrong.


### Held keys

| run | constants | properties | result |
|---|---|---|---|
| held | a hotkey with a modifier, a button, `AllSettings`; 4 events, 1 return, 1 sleep | `TypeOK`, `NothingStuck`, `MacHoldsWhatWasPressed`, `EventuallyReleased` | holds under `FairSpec`; 965 thousand states |
| held_hotkey | 5 events, the hook swallowing, no lag | `NoKeySticks` (input/mod.rs:69, net/mod.rs:205) | violated |
| held_sleep | 4 events, 1 return, 1 sleep, the hook swallowing | `ReleaseAllFromAnyThread` (InputInjector.swift:428) | violated |

A return is a switch at an edge of the screen or a lost connection. Four events press and
fire a hotkey and press or let go of two more on the other side. `setting` is chosen once per behaviour:
`Swallowing` (the hook is called and suppression on), `Unhooked` (no hook is called, so every
event, hotkeys too, takes the Raw Input queue) and `Visible` (suppression off: the hook sees
hotkeys and lets everything through). Raw Input may lag in all of them: up to `lag` events wait when the next one
is made, all of them without the hook, one with it. The last key pressed may repeat at any time.

`NoKeySticks` is `NothingStuck` without its exceptions, and what the comments promise. TLC's trace is an ordinary
way of letting go of a combination: Ctrl down, trigger down (the hotkey fires and the Mac has the input), Ctrl up, the
trigger repeats and is forwarded, trigger up is eaten. The Mac holds the trigger until the next switch or lost connection. It takes five events,
so in run held, with four, a trigger goes astray but its release is never eaten; releases that overtake their press
are within its bound, and the proofs are for any number of events. The strengthened invariant of the proofs was model-checked with six
events and a lag of two as well. The other hotkeys, which switch the other way, are covered by the proofs, too.

`FairSpec` assumes that while a thread or a queue of the receiver has something to do, one of them is run (weak fairness of all
their steps taken together), and that the receiver notices a connection that is gone (its watchdog); nobody need reconnect.
Deadlock is not checked: when the bounds run out nothing need happen.

### Event scheduler

| run | constants | properties | result |
|---|---|---|---|
| scheduler | two callers, three modes, motions -2 and 3, 3 submissions, 4 starts and stops | `TypeOK`, `TakenIsPosted`, `NoWakeupIsLost`, `PlaysOut`, `MotionArrives`, `StoppedThreadsEnd` | holds under `FairSpec`; 171 thousand states |

Two callers are the realtime and the control queue. Three submissions let motion of both
signs join, cancel out and arrive while a step of a third of it is about to be posted; four generations are two threads, the
first of them still about to post while the second runs. `AppModel` starts the scheduler
only when it is stopped, so `start` finds no thread. `FairSpec` assumes that threads
run, that a deadline passes and that callers post; nobody need submit, start or stop.


### Session

| run | constants | properties | result |
|---|---|---|---|
| session | two PCs, 3 connections, 2 codes, 1 forgetting, 1 fault | `TypeOK`, `OneSession`, `DelegateKnows`, `NothingFiledUnproven`, `AgreeInSession` | holds; 2.6 million states |
| session_rejected | one PC | `RejectedKeyGoes` (docs/PROTOCOL.md:188) | violated |

Three connections pair, pair again while the first is still delivering, and come back; with two
PCs one replaces the other's session in between. Two codes let a code be replaced while a PC
proves the first. One fault is a restart of either program or a failed save; it meets every step
of a pairing. The two excuses in `AgreeInSession` are needed: without `late` it fails when an
abandoned AUTH commits after the PC came back, without the forgetting when a handshake goes on
with a key the Mac read before.

The PCs are alike, so TLC checks one order of them (`SYMMETRY`). The `VIEW` leaves out
what the Mac knew of connections it has closed, which no action reads again, and late keys that
are in no file of the Mac, which no property reads. Nothing is assumed fair: no liveness is claimed.
Deadlock is not checked because connections run out.


### Updater

| run | constants | properties | result |
|---|---|---|---|
| updater | 2 threads, version 0.3 and manifests of 0.2.9, 0.3.1, 0.10; 3 commands, 1 daily check, 1 thread that cannot be started | `TypeOK`, `OneWorker`, `OnlyVerifiedRuns`, `StageSettles`, `OneInstaller`, `ButtonComesBack` | holds under `FairSpec`; 333 thousand states |

Two threads exist at once when one has given `busy` up and not yet stored its outcome; a third could only
repeat what the second does. Three commands and a daily check are a check, an installation that fails, another
one, and a check at any point of them, so that a late outcome of each kind meets a newer stage. The
three versions are an older one, a newer one that sorts after it as text and one that does not. `FairSpec`
assumes that threads are scheduled, that requests end (every WinHTTP call has a timeout, update.rs:409)
and that the window's timer runs. Nothing is assumed of `download_progress`, or of the user. Deadlock is not checked as
the program may end and the bounds run out.

A late outcome may still be wrong in the window: an old `UpToDate` overwrites a newer `Checking`, and the button
offers a check while one is under way. It is harmless (`claim` refuses), and the last one to finish
has the last word.


### Window

| run | constants | properties | result |
|---|---|---|---|
| window | two Macs on two subnets, one without a `.local` name; no file, a file with a bad interval, the same with `--mac`; 1 edit or recording, 2 commands, 1 search that cannot be started | `TypeOK`, `ShownIsInEffect`, `SavedAsShown`, `RecordedFires`, `FileKept`, `RightMac`, `SearchEnds` | holds under `FairSpec`; 253 thousand states |

One edit makes an unreadable or an empty hotkey, a bad port, a changed host or interval; with two commands a Save meets the
tray, a second copy or another Save at each of its steps. Recording uses a combination with a name and
one without; `RecordedFires` is about all 255 keys and 16 sets of modifiers, whatever `Combinations` is. Deadlock is
not checked: when the bounds run out nothing need happen. `FairSpec` assumes that the search thread is scheduled, and its reads
time out (discovery.rs:89).

The exceptions are what the code does:

* `SavedAsShown` excepts what is changed while a message box of Save is open: the tray's change is undone by
  the store of what was read before it (window.rs:623-691).
* `RightMac` excepts a connection whose settings went back: changed, read by a connection attempt, changed back before the
  network thread has taken the first `ConfigChanged`, the comparison (net/mod.rs:259) is with the settings before both
  and the connection stays with the abandoned ones. Only that connection is excepted (`wentBack`): settings that change again, go to a third
  value, or went back before a connection was made, are not.
* `SearchEnds` excepts a thread that cannot be started: `running` stays set (discovery.rs:282-329), and Find does nothing until
  the next start.
* `FileKept` excepts a failed write, which the two tray commands do not even report, and a second copy started with `--save`, which writes before
  it finds out that it is the second (main.rs:170-181). A start with `--mac` and no `--save` leaves the file behind too, until something is saved.

## Proofs

### `TargetSwitchProofs`

`TypeCorrect`, `SuppressionCorrect`, `DesktopCorrect` and `ReceiverAgrees` prove the
invariants of run target for every configuration and queues of any
length, with the exceptions they name. The properties speak only of states in which no switch is in
progress, and none is inductive. `IInv` adds:

* `ThreadInv`: where each thread can be, and that the network thread only ever
  switches back;
* `FlightInv`: what a switch has done at each of its steps, while one is in
  progress (at most one is, unless `overlapped`; `SwapStep` starts from a state without);
* `SuppressInv`: suppress between switches, with `save_settings` half done, unless `lateSave`;
* `DesktopInv`: the pointer is free and the last post says so once
  Windows has the input;
* `ToldInv`: the last target change in the channel names the target; if there is
  none the live session has been told; and a session about to start finds
  Windows the target. This needs `set_link`'s check before every attempt.

Each action has its step. Steps that neither belong to a switch nor touch
what it writes are `Quiet` and share one lemma. The lemmas about the channel
(`LastOfAppend`, `LastOfTail`, `LastOfStale`) say what queueing, taking and
closing do to its last target change.

Liveness stays with TLC, but what it rests on is proved. `ReleaseIsQueued`: a receiver that
believes it has the input while Windows is the target, unless the last switch overlapped another, finds the release queued with no target change after it,
or a switch to Windows in progress (`ToldInv`, `FlightInv`, and only a live session has been told anything);
`MacEventuallyReleased` then needs only that the threads run. `ShutdownIsKept`: `Shutdown` is in the channel, or the network thread has ended
or ends at the return from the call it is in, exactly when the program has quit; so no close, reconnect or stale reader
can lose it, and `QuitCompletes` needs only fairness. Its invariant `QuitInv` adds that the return address of the network
thread is used up when the call returns.


### `RealtimeChannelProofs`

`TypeCorrect` and `PointerOnPath` prove the invariants of run realtime for every modulus
and any number of sessions, switches and losses, from `RealtimeAssumption`. `IInv` adds:

* `SenderInv`: there is a session while the tick runs, and with UDP no difference travels
  by TCP;
* `NetInv`: a datagram carries the total that its sequence number stands for;
* `ReceiverInv`: once there is a baseline, the last sequence number is one of this session's
  and the last total is that one's; and, while the receiver is active, the motion given is the
  difference from the baseline.

`DeltasAddUp` is the lemma behind it: differences modulo the width add up wherever
the total wraps.

`NoGap` proves `NoGapOverTcp` with `IInv` and `TcpInv`: in what the network thread and the receiver have
yet to see (`Way`) there is a place where the Mac is given the input, or it was given it before,
and everything after it is a motion that starts where the one before it stopped, the first at `base` or at what was
applied so far, the last at the last tick's total. The tick adds at the end, the network thread
moves along the way, the receiver takes from the front (`Onward`: from where a motion started, its length leads to
where it stops), a switch opens a new place. The place is kept as a number, and `SinceTheSwitch` shows that it is
the one the property computes. Liveness stays with TLC.

### `HeldKeysProofs`

`TypeCorrect`, `NothingIsStuck` and `MacHolds` hold for every key, hotkey, setting, lag and bound, with no hypothesis about the
keyboard or the message loop: what the code does not keep is in the properties (`astray`, `misfired`, `overlapped`, `raced`), where a
reader sees it, and without the hook the first two are empty. The invariant follows a key along its way:

* `TrackerInv` (with `HooksInv`) has two halves. `UnhookedInv`: where the hook is not called, of the events that wait for the tracker
  (`Waiting`) there is a course `D`, `Z` of what the tracker will have down and at least have stale as it works them off. It ends at what is down on the
  keyboard, and a trigger that is met with the modifier is down already and stale, so its release will not be forwarded.
  `CourseLonger` and `CourseShorter` say what an event more or less does. `HookedInv`: where it is called, a key that is not astray and whose last waiting event is a
  press, or of which none waits and which the tracker has down and not stale, is held on the keyboard and not swallowed; `SeenLonger`, `SeenSooner` and `Repeats` are its steps, and `MarksStale` what a switch does to it;
* `MacInv`: what the injector believes is pressed is what macOS holds once the posts on their way are in, unless
  a sleep raced; only one of the two threads posts;
* `SwitchInv`: where a switch is, and that unless two overlapped it goes where the target says;
* `ReleasedInv`: with the frames on their way to the Mac (`Coming`), no more will be held than the
  tracker has down and not stale, or misfired, and nothing when Windows is the target or the connection is lost;
* `PressedInv`: no less, unless switches overlapped or the Mac slept.

The last two speak of the state the receiver will be in, `HeldBy` and `ActiveAt` over the frames:
lemmas say what a frame more at the end and one less at the front do to them. When everything has arrived nothing is
left of the frames (`WhenQuiet`) and the three layers meet: `QuietHolds`, `QuietTracker`.

`EventuallyReleased` stays with TLC, being liveness, but `NothingIsStuck` is its safety half (while the Mac holds a key
that was let go of and is not excepted, something is still under way). `NoKeySticks` and `ReleaseAllFromAnyThread` are false.

### `EventSchedulerProofs`

`TypeCorrect`, `WakeupsAreKept`, `TakenAlwaysPosted` and `Implementation` hold for all modes and motions and any
number of callers, submissions, starts and stops, from `SchedulerAssumption` (alpha is a fraction of at most one,
and the queues that submit are finitely many).
`IInv` adds `WaitInv` to the types: while no thread is started the scheduler has been stopped or
never started, so that `start`, which clears `stopped`, cannot make an old thread that waits a current one. `SleepInv`
adds to it that a thread that sleeps does so with nothing pending and nothing left of its step: of all that
wait at most one, the newest, is woken by `signal` (`OneSleeper`), so the wakeup of `submit` cannot go to
another (`SubmitWakes`). It is the safety half of `MotionArrives`.
`ShareBound` says that a share of at most one, rounded to the nearest, is at most the whole;
`StepTowards` that every step is one `Playout` allows. With it every action is a step of
`Playout` or a stutter.

`TakenIsPosted` adds `StepInv` to `IInv`: a thread that is not about to post holds no step, and none runs
before its generation is started, so that the place of a step that is taken is empty: nothing that was taken is overwritten. The
rest is that one value of a sum changes. Liveness stays with TLC.

### `FoldTheorems`

What the proofs need of the folds of the community modules. `RecursionExists`: a definition by
recursion over the subsets of a finite set defines a function. `SumTakesAny`: a sum is the
same whichever element is taken first; `SumChanges`: it changes by as much as a value does. The provers
cannot instantiate an induction over a predicate; each of these proofs takes a smallest subset for which the
claim fails instead (`MinimalSubset`, from `WFMin`).


### `SessionProofs`

`TypeCorrect`, `OneSessionAtATime`, `DelegateAlwaysKnows`, `NoKeyFiledUnproven` and `AgreesInSession` hold for any
PCs and any number of connections, codes, forgettings and faults, from `SessionAssumption` (the
bounds are numbers). Their invariants:

* `IdsKnown`: the id of a PC is its own and numbered no higher than the faults so far,
  without which a restart after an interrupted write could run out of the type;
* `SessionInv`: one session, which the delegate knows, and (`Unopened`) nothing
  is accepted of a connection before it is opened;
* `ProofInv`: a key is proven (`committed`) where it lies in a store or file,
  where the Mac would accept it and it is not pending, and where an AUTH_OK for it is on its
  way to the PC, which files it then;
* `AgreeInv`: a PC has a connection of its own (`ConnInv`) on which the Mac knows it by the id it has now
  (`HelloInv`); an AUTH_OK on its way names the key the Mac took the connection with (`AckInv`), and what the PC proves
  is what it has, or will have, filed (`KeyInv`); and that key is the one in the Mac's file from where the
  Mac took it from there or put it there (`FileInv`). `WhoCommits` settles the question behind the property: whoever else
  changes the file's entry for this PC does so on a connection the PC has given up, because ids are the PCs' own and
  a PC has one connection, so what it files is in `late`.


### `UpdaterProofs`

`TypeCorrect`, `OneWorkerAtATime`, `OnlyVerifiedInstallersRun`, `StageAlwaysSettles`, `OneInstallerEver` and
`OffOnlyForNow` hold for any threads, versions, commands, rounds and spawn failures, from `UpdaterConstants` (versions are sequences of numbers,
the bounds are numbers). The invariant adds to the properties:

* `OffersNewer`, `InstallsNewer`: a pending version, and the one a thread installs, is newer, as it was when
  the manifest was read;
* `CheckedAtLaunch`: at the launch the file of the thread's version is verified; nobody else writes it,
  since writers hold the claim;
* `LastAtWork`, `HandsOverLaunched`: once an installer was started the claim is held for good and only
  the thread that started it may still be at work, at its hand-over, so no other gets to launch;
* `OutcomesSettle`: what a thread is about to store does not say that something is going on.

The lemmas `Moves`, `Ends` and `Leaves` say what a thread's step does to who is working; each action has a step.
`ButtonComesBack` stays with TLC, being liveness; `OffOnlyForNow` proves what it rests on: the stage `Installing` is shown and
an installer started only by a thread that has asked the app to quit or is about to (`HandsOver`), so a button that is off
is one the timer draws anew, or a thread is at work, or the app ends.


### `WindowProofs`

`ShownAlwaysInEffect`, `AlwaysSavedAsShown`, `FileAlwaysKept`, `AlwaysRightMac` and `TypeCorrect` hold for any values to enter, files
to start from, Macs, combinations and bounds, from `WindowConstants` (a file has the settings, each of its type (serde, config.rs:17),
with any interval; a port is 16 bits (config.rs:21); the window offers the intervals there are (window.rs:674) and the bounds are
numbers) and `DiscoveryConstants` (finitely many Macs, each with its own address), over `Spec`: they need no fairness, as do
`AlwaysRecordedFires` and `SearchAlwaysRun`. The
invariant `IInv` of the first, third and fourth has these parts:

* `Shapes`, `QueueInv`: the records keep their fields and what is left to read is a list of hotkeys;
* `SettingsInv`: settings stay settings with a known interval, and once Save has stored what it read, what it
  writes is what is in effect, so that `FileKept` survives the write;
* `ShownInv`: `ShownIsInEffect` also while Save reads, when no other handler runs: every handler that
  stores fills the window again, which makes the controls show the new settings or marks them edited (`Filled`);
* `ComparedInv`: settings in effect that the network thread has not compared with are on their way to it (`Told`): Save has not
  come to tell it, or the message is in the queue. When those in effect are the ones it compared with (`Current`) its connection is
  with them as well, or `wentBack`. With an empty queue the three are one;
* `CodesInv`: a code, entered with the last press of Pair, is with the host it was entered with from the window through
  the queue to the connection attempt; older codes have a smaller number.

`AlwaysSavedAsShown` has an invariant of its own, `SaveInv`: with `Shapes` and `SettingsInv`, a field that waits for a combination is
a hotkey's (`CaptureInv`), and `SavingInv` says how far a Save is: what it has read of what was shown, or kept
where that cannot be used, is in `ui.cfg`, what it has yet to read is what was in effect before, no hotkey is read
twice, and one is left out after a message box only if it cannot be read. It holds as long as nothing
changed behind the box (`press.disturbed`).

`TypeCorrect` adds to `SaveInv` that what is on its way has its kind too: the settings a Save has read and a second copy has loaded
(`SettingsTyped`), the text that was recorded (`ShownTyped`), and the codes in the queue and the network thread, whose number
is of a press within `commands` (`CodesTyped`). Port 0 is in effect only if the file it started from had it: `sanitized` lets
it through (config.rs:92), Save does not (window.rs:637). Three lemmas carry the rest: `Kinds` (a setting's values, so that an
`EXCEPT` is typed once), `Parsed` with `KeyCodes` (whatever the text, `parse_hotkey` yields a hotkey with a
code below 256 or none: the three tables are sequences of known length) and `HostsTyped`. The last is about a fold over a sequence of any
length, which takes the largest index away at a time: `LargestOf` gives every set of indices its largest, `RecursionExists` of `FoldTheorems`
gives the fold's function its type, and the library's `CHOOSE` of that function agrees with it on the smallest set
where it might not.

`AlwaysRecordedFires` needs no invariant: it is a fact about `Hotkeys`, for all codes and groups, proved by reasoning about the tables
and not by going through the combinations. `KeyTable` says where each of the three tables lies in `KeyNames`, `NameIsOne` that no
spelling occurs twice and `NoKeyIsModifier` that none is a modifier's. `Parsed` then reads a text by the one token that is no modifier,
`WrittenIsRead` says that a group is in a text written for a combination if and only if the combination has it, and `RoundTrip` puts the two
together. A spelling added to a table that another key or a modifier has breaks these lemmas.

Each part has a lemma that every step keeps it, with one step per action. `SearchEnds` stays with TLC, being
liveness; `SearchAlwaysRun` proves what it rests on: a search counts as running exactly while its
thread runs, or when one could not be started, so every way out of the thread clears the flag.

## Not modelled

* `log.rs`, `Log.swift`, telemetry counters, menus, layout and wording: no state
  that other parts depend on.
* `crypto.rs`, `Crypto.swift`, byte layouts of `protocol.rs` and `Protocol.swift`:
  an authenticated frame is accepted unchanged or refused.
* installer, build and release scripts: operating system and tooling.
* Windows' and macOS's own behaviour (message loop, raw input, event taps) is
  modelled from how the code uses it.

* `HeldKeys`: recording a hotkey is in `Window`, the wheel is left out, the hook is
  bypassed for a whole behaviour and not for single events, what Windows believes is held is left out
  (it never sees the release of a key held across a switch to the Mac).
* `EventScheduler`: spurious wakeups (they only repeat the loop), wrapping of pending motion, clamping of a step
  to 32 bits, and `onRightEdge`, whose message is the edge switch of `HeldKeys`.
* The receiver's updater, scrolling, the virtual pointer and `AppModel`'s start, stop
  and wake are in the plan.
* `Session`: counters and tags of session frames, more than one Mac, PING, LOG, and the error
  paths of a peer that speaks another version or another protocol. A fault never garbles the Mac's file. A save on the PC
  that fails leaves the old file (`SaveKeys`; `fs::write` truncates first, config.rs:166, so it may leave a garbled one, which `restart` has by itself),
  and the Mac's save of a fresh identity at its start succeeds (`macRestart`; Config.swift:181 goes on without).
* `Updater`: `Updater.swift` (download, swap of the app bundle and its roll back); what the manifest and the
  installer contain; the text of the status line. The suffix of a version such as `0.3.0-1` counts as a further part, where the
  comment at update.rs:74-76 says that it is ignored.
* `Window`: layout, the tray's menu, the banner, closing and hiding, the settings that only the file has, reading a file that
  is cut short (it reads as absent and as the defaults, config.rs:111-116; `save` leaves the old file when it fails, where `fs::write` may
  leave a cut one, config.rs:127), a config.json edited by hand while the program runs, and `auto_connect`
  switched off (`TargetSwitch` has it). Typing a port or host is choosing one of the values.
* `Discovery`: `DiscoveryResponder.swift`; an answer is a Mac or nothing.

## Plan

1. `TargetSwitch`: done, proved.
2. `RealtimeChannel`: done, `CursorOnPath` and `NoGapOverTcp` proved.
3. `HeldKeys`: done, its three invariants proved; to state: the hotkey that switches back while it is held.
4. `EventScheduler`: done, implements `Playout` (proved).
5. `Session`: done; its five invariants proved. To state: an authenticated FIFO channel as what its frames promise.
6. `Scroll` and `Pointer`: the wheel's accumulator and the tick that drains it; residuals of the
   pointer scale, clamping to displays, the right edge (`InputInjector.swift:108-143`), as functions checked
   against references over small grids. To prove: residuals lose no count.
7. `Updater`: the sender's done, five invariants proved. The receiver's (`Updater.swift`): replacing the app is a
   sequence of renames; property: an installed app is always complete.
8. `Window`, `Discovery`, `Hotkeys`: done, all six invariants proved.
9. `Receiver`: `AppModel`'s start, stop, sleep and wake, and the flush of the control queue racing the
   realtime queue's submit (`AppModel.swift:306-309`), over 4, 5 and the realtime receiver. Property:
   no motion of one turn or session is posted in another.
10. Composition: `RemoteInput`, an abstract specification of the whole (one owner of the input;
    the Mac holds nothing it does not own), implemented by `TargetSwitch` and `HeldKeys` by
    refinement mappings.
