# ReachMyDevice: a TLA+ verification project

ReachMyDevice is a remote-desktop system: a *host* streams its screen to a
*viewer* and injects the viewer's input; a *rendezvous* server introduces the
two; the media and control traffic runs peer to peer over WebRTC. This
directory holds TLA+ models of the parts of it that are hard to test, the TLC
configurations that check them, and proofs about them.

## Inventory

Paths are below `src/`. "Hard" names what a test would hardly reach.

| part | state it keeps | operations, and who it talks to | hard | what makes it correct |
|---|---|---|---|---|
| host session core, `crates/session/src/host.rs` `run_host_core`, `handle_control` | authorization gate, view-only, password throttle, remote fingerprint, injector's held keys, last status | takes transport events and signaling messages, one at a time, on one thread; sends acks and signals through channels | events of an old connection handled after a new one was built; a verdict crossing a rebuild | only the accepted viewer within the policy is obeyed; a lost session is wound up; nothing stays pressed |
| transport driver, `crates/transport/src/driver.rs` | one peer connection at a time and its rebuild flags | command channel in, event channel out, rebuilds the connection | rebuilds of a live connection, stale answers, errors that end the thread | a rebuild always leads to a fresh offer; the host learns of every loss |
| capture controller, encode thread, encoder, `host.rs`, `crates/codec` | live capture handle, selected display, cursor setting, `force_keyframe`, the encoder's size and bitrate | resumed, paused and switched by the core; frames go to the encoder | reads of `authorized` and `force_keyframe` on another thread; failures half way | nothing is encoded for a peer that was not accepted; a viewer that cannot decode gets a keyframe |
| input injection, `crates/input`, `crates/codec/src/scale.rs` | held keys and buttons, monitor rectangle, zoom | input events from the core; calls to the platform | what is down when a viewer goes; widths and rounding | nothing leaks into the next session; the pointer lands on what was shown |
| signaling client, `rendezvous.rs` | addressed peer, cached offer and candidates, backoff, first failure | WebSocket to the hub, channels to the host or viewer | reconnects, replays, a viewer taking over, messages lost with a socket, the restart watchdog | the viewer gets the present offer; no restart during a session |
| signaling hub, `apps/rendezvous/src/signaling.rs` | registered sockets, pairing rooms | register, relay, unregister per socket task | a replaced socket unregistering late | relay only within an account and to the newest socket |
| rendezvous API, `apps/rendezvous/src/{api,db,auth,resolver,throttle,webauthn}.rs` | accounts, devices, tokens, tickets, challenges, failure counts, TURN credentials | concurrent HTTP handlers over one database | sequences of statements without a transaction | single owner, one live token per device, one use per ticket |
| file transfer, `filexfer.rs` | receivers by transfer id, `.part` files, sender threads | offer, chunk, ack, complete, cancel over the control channel | resume, restarts, a second offer for the same name | what is completed is what was sent |
| broker and agents, `broker.rs`, `agent.rs`, `crates/ipc` | active and pending agents, capturing, session locks | a Unix socket per session agent, commands from the core | agents arriving, closing and overlapping | only the active agent's frames reach the viewer; the new agent captures when it should; sessions are left locked |
| settings, identity, known peers, `settings.rs`, `identity.rs` | encrypted files, a passphrase in the OS keyring | load, modify, save, under a file lock | two processes, a crash or a full disk between two steps | no write is lost; the identity stays and can be opened |
| clipboard, `clipboard.rs` | last value seen | poll and apply on both sides | crossing changes | no echo |
| pairing, `pairing.rs`, `pairing_client.rs` | a PAKE exchange | two members of a room | a peer that leaves, one that comes instead | both end with each other's identity or none |
| viewer session, `viewer.rs` | fingerprints, what the pump knows of its driver | transport, signaling and window | the host's rebuilds crossing its own | follows the host; proves the host it dialed |
| native viewer, `apps/viewer` | screens, jobs in the background, account, pins, the session | HTTP jobs on threads, the session's updates | a job that ends after the user went on | the window shows the session there is, with the host that was pinned |
| web viewer, `apps/web-viewer` | session, backoff, password, gestures, keyboard | browser events, the relay, the host | backoff, visibility and failures crossing; fingers crossing | one live session; input follows the fingers |
| host process, `apps/host` | TURN credential, device token, `session_active` | starts, refreshes, restarts in place | restarts against sessions, the account's shared credential | it comes up, and has a relay that works |
| audio, power, capture backends, service files | platform handles | platform calls | | not modelled |

Threads of a host process: the core loop, the transport driver, the encode
thread, capture callbacks, the signaling client, the clipboard poller, and a
thread per outgoing file. They share unbounded channels and three atomics
(`authorized`, `force_keyframe`, `peer_switched`).

## Modules

| module | models |
|---|---|
| `ControlMessages` | the message kinds `handle_control` tells apart (`rmd.proto`) |
| `TransportDriver` | `run_host` and `event_loop` of the driver: command drain, connection events, rebuild, reads |
| `HostSession` | `run_host_core`, `handle_control`, the capture state and the encode thread, composed with the driver through the two channels |
| `ScreenStream` | the picture from the screen to the viewer's decoder: capture controller, encode thread, H.264 encoder, keyframe requests |
| `InputInjection` | the zoom remap, the backends that press keys and place the pointer, and the crop that the encoder shows |
| `ClipboardSync` | both clipboard threads and what carries their updates |
| `FileCopy` | what a file transfer promises, without the protocol (abstract) |
| `FileTransfer` | `filexfer.rs`: both managers, the sending threads, the channel, the download directory; implements `FileCopy` |
| `Broker` | system mode: the broker's thread and the agents with their control threads, sockets and session locks |
| `DeviceStore` | identity file, keyring and settings under processes that run side by side and crash |
| `Pairing` | the hub's pairing rooms and the clients' exchange through one |
| `SignalingHub` | `Hub` and the socket tasks of the rendezvous server |
| `RendezvousClient` | the signaling clients of host and viewers over `SignalingHub` |
| `AccountServer` | the API's handlers, statement by statement, over the database and what it keeps in memory |
| `RelayCredential` | a host's TURN credential and the account's, with their clocks |
| `ViewerSession` | the viewer's driver, pump and window updates against a host that rebuilds |
| `ViewerWindow` | the native viewer's screens, jobs, pins and its session |
| `WebViewer` | the web viewer's sessions, reconnects and password |
| `TouchInput`, `SoftKeyboard` | its gestures and its on-screen keyboard |
| `HostSide`, `ViewerSide` | the parts of a host, or of the viewers, that share no state, side by side |
| `HostSession_proofs`, `RendezvousClient_proofs`, `DeviceStore_proofs`, `AccountServer_proofs`, `Broker_proofs`, `FileTransfer_proofs`, `HostSide_proofs`, `ViewerSide_proofs` | theorems, each about the module it is named for |
| `MCHostSession`, `MCRendezvousClient`, `MCBroker`, `MCAccountServer` | small instances of one module |
| `MCFileTransfer` | two instances of `FileTransfer`, with different bounds |
| `MCHostSide`, `MCViewerSide` | a small instance of `HostSide` and of `ViewerSide` |
| `MCServerSide` | small instances of `SignalingHub` and `RelayCredential` |

`HostSide`, `ViewerSide`, `MCFileTransfer` and `MCServerSide` hold several
instances in one specification. A variable
(`instance`, `part`), chosen at the start and never changed, says which of them
moves; the others stay in an initial state. The instances do not interact: what
is checked of each is what a run of its own would check, with the fairness of
its own `FairSpec`. What does interact is composed: `HostSession` with
`TransportDriver`, `RendezvousClient` with `SignalingHub`.

### How TransportDriver corresponds to the code

One pass of `event_loop` is four phases: `commands`, `events`, (leave for a
rebuild), `reads`. `phase` is the place in the pass and `"dead"` once the
thread has returned. `pc` is the `RoleState` that matters: the number of the
connection, `negotiated_once`, the local `connected` flag, and `rebuild`.
A rebuild takes the next number; it happens with the connection up or down,
and emits no `Disconnected` of its own, as in the code (only `drain_events`
emits one). An answer carries the viewer that made it and the number of the
offer it answers; the driver cannot tell a stale answer from a fresh one
(both set `negotiated_once`), but only an answer to the connection's own offer
has its ICE credentials and can connect. Errors of building a connection, of
`handle_read` and of `handle_timeout` end the thread; the channel then refuses
sends, whose results the callers ignore.

### How HostSession corresponds to the code

Each `HostLoop` action is one arm of the event match with everything it calls:
`HandleData` is the whole of `handle_control` for one message and the
active-session edge after it. `FeedAnswer` and `PeerSwitched` are what the loop
takes from signaling before it waits for an event. The encode thread is split
where it reads shared state: `TakeFrame` is the authorization check and the
swap of `force_keyframe`, `FinishFrame` the encode and send that follow,
whatever became of the authorization meanwhile. `hostSession` and `accepted`
are history: which connection the last handled `Connected` and the last
accepted `Hello` belonged to; the code does not know.

A Hello's outcome follows the order of the checks: version and codec, the
device's proof over the fingerprint the host holds, the lockout, the password.
A proof verifies exactly if the fingerprint the host holds is that of the
answer behind the connection the Hello came over: `remoteFp` names the answer
by viewer and connection. An answer without a readable fingerprint is left
out. Capture may fail to start, an injection may fail, and a release is taken to
succeed: what comes of a backend that does not release, or a system that
refuses it, is `InputInjection`'s (Findings).

### How FileTransfer corresponds to the code

In this system only viewers send files and hosts receive them, so the model has
one sending manager (`sender`, one `SendShared` and one sending thread per
transfer) and one receiving manager (`recvs`), the two directions of the control
channel, and the download directory. A chunk is the unit of length, a content
a sequence of chunks, and a digest the sequence it was computed over: two
digests are equal exactly if the bytes are. The `.part` and the final file of a
name are inodes, because a receiver keeps its file open while another one
renames or removes it. `Put` is a write at the receiver's own cursor, which
leaves a hole past the end.

Both managers outlive a reconnect of the channel (`host.rs` 306-313,
`viewer.rs` 187-194), none outlives its process. While the channel is down, or
its viewer not accepted, sends are dropped (`driver.rs` 1268-1271); what had
arrived is still handled. A restarted viewer counts its transfer ids from the
start. `Failing` names the operations the file systems of an instance may
refuse: opening, reading, cutting (`set_len`), writing a chunk, renaming. A
write that fails half way within a chunk is below the model's grain.
`CancelSend` and `CancelReceive` are `FileTransfers::cancel`, which is public
and has no caller yet; `on_cancel` and the `cancel` flag it sets are
reached only through it.

`FileCopy` says what the user is promised: a name in the download directory
holds nothing or the whole of a file that was offered under that name, and is
replaced at once. `CopiesWholeFiles` states that `FileTransfer` implements it,
with what the final inodes hold for the directory (`Files`).

### How SignalingHub and RendezvousClient correspond to the code

A socket is a number. It is *accepted* once `ws_handler` resolved its
credential, *registered* when `handle_socket` ran as far as `Hub::register`, and
*gone* after `Hub::unregister`; `alive` says whether the connection under it
still is, which neither end knows until a read or a write fails or falls
silent. `peers` is `Hub.peers`; a send to a registered socket that is dead is
lost. Frames carry `from` as the hub sets it. `HubSpec` puts the hub among
clients of which nothing is known (`Send`, `Deliver`).

`RendezvousClient` replaces those by the clients of `rendezvous.rs`. `host` is
what `run` keeps across reconnects on the host's side (`peer`, `pending`,
`lastOffer`, `candidates`, the switch flag), `hostOut` the channel `out_rx`. The
host's session is reduced to what the client sees of it: an offer and a
candidate per connection, rebuilt on a switch (`SwitchSeen`) or at a session's
end, and whether a session is live; `HostSession` has the rest. A viewer
announces itself until the first frame comes (`received_any`), and answers the
offers it gets. The watchdog is on the client's thread and the session on the
host loop's: the look at `session_active` (`HostGivesUp`, `rendezvous.rs` 286-287)
and the new process image (`HostRestarts`, 293 and 171-184) are two steps, and
so are a session's start or end and the report of it that sets or clears the flag
(`session.owed`, `Reports`: `host.rs` 461-467, host `main.rs` 1471-1492).
A refreshed token is what it does to the watchdog: the outage starts again. `Connect` assumes that the hub has registered a client's previous
socket by the time the client, a second later, opens the next one.
With `Tray`, nothing stores `session_active`, as in `tray.rs` 31-33.

### How ScreenStream, InputInjection and ClipboardSync correspond to the code

`ScreenStream` has the picture where `HostSession` has the gate. The host loop
handles the driver's events one by one (`Handle`); the `Hello` is split where
the encode thread can come between: `authorized` is set (`HandleHello`), and
`resume` follows (`Resume`). The encode thread is four steps: it takes the
newest frame and looks at `authorized` (`Take`), swaps `force_keyframe`
(`Begin`), encodes and sends (`Finish`). `decoder` is what the viewer can make
of what it got. The encoder rebuilds for a new size and for a bitrate far from
the last, and either may fail with `MayFail`. A frame may come to nothing after
`force_keyframe` was swapped (`Nothing`): rate control skips it, or its conversion
or encoding fails. The request is then the encoder's (`intra`): the encoder library
is taken to make an intra frame of the next one that it does make.

`InputInjection` has the arithmetic of `remap`, `MonitorRect` and the crop with
their integer rounding, on one axis: the other is computed the same way. `held`
is what the system has down, `tracked` what the backend keeps to release it;
the macOS backend tracks buttons only, to drag. `seen` is the last event as the
system got it, and what the viewer meant. With `EmitFails` the system may refuse an
event after the backend has changed what it tracks.

`ClipboardSync` has one thread per side, with its poll (`DetectLocal`) after
its drained inbox. A text stands for its hash: distinct texts of an instance
have distinct hashes. A `set_text` may fail.

### How Broker corresponds to the code

The broker's IPC thread takes agents' events and the core's commands. An agent
is its process (`stage`), its capture-control thread (`thread`, split where it
waits for logind), and what it controls: capture handle, idle inhibitor,
`LockedHint`. systemd starts an agent in a session that is logged in, and again
after its end. `down` is the broker's channel, the socket and the thread's
channel in one, in order; `hung` says that the broker dropped its end, and the
agent's reader ends once it sees that. In a `Flaky` session a retry loop may run
out and an agent be killed, which the agent's `cut` remembers.

### How DeviceStore corresponds to the code

A run is a process: it loads or creates the identity under `identity.lock`, and
then changes one setting under `settings.lock`. Each system call that another
process could see is a step, and a run may die at each; the temporary file of
`atomic_write_secret` is visible to nobody, so the rename is the write. The
keyring may be out of reach at any time, may take an entry and keep the old one,
or refuse. `Flock` is whether `lock()` locks, as it does on Unix; with
`LockMayFail` it may fail, upon which the identity is loaded without it
(`identity.rs` 611) and a change of the settings is given up.

### How Pairing corresponds to the code

A frame is `joined`, `left`, a `Hello` or a `Confirm`, named by the attempts it
was made of. A PAKE key is the pair of attempts and their secrets: two keys are
equal exactly if both ends used the same two messages and the same secret, and a
confirmation tag verifies exactly then. The hub's join, relay and leave are one
step each, under its lock. An attempt of another code can be in the same room,
since the room is a short hash of the code. An attempt may end at any time: before
it has paired (`Quit`), or after (`Cut`), when its process, its network or the hub
takes its last frames with it; `cut` remembers that.

### How AccountServer and RelayCredential correspond to the code

A request arrives and goes on statement by statement; between two statements any
other request may run. Memory (throttle, tickets, challenges) is read and written
under a lock in one step. A restart forgets the memory and cuts the
requests. `by` and `of` are history: who sent what, and to whom a secret was
returned; the server does not know. A row id is free again after its deletion,
as SQLite has it without `AUTOINCREMENT`.

`RelayCredential` has one account's credential in the server's cache, another
device of the account that asks for it too, and the host that fetched it at its
start, with clocks that count down in half minutes. `Settle`, `Margin`, `MinUp`,
`Wait` and `Ttl` are the constants of `main.rs`, `api.rs` and `config.rs`.

### How the viewers' modules correspond to the code

`ViewerSession` has both channels between driver and pump, the pump's two
fingerprints, and the window's updates. The host is seen from outside: it
offers, takes an answer, is connected, judges a `Hello`, loses its connection
and rebuilds. Connections and certificates are numbered on each side.

`ViewerWindow` has one action per button and one per result of a job
(`poll_job`); a job ends whenever it likes, on whatever screen. `Reinstall` is a
host with a new key, `OtherWindow` a second process of the same user that pins.

`WebViewer` has an action per stretch between two awaits or callbacks: the
backoff's timer, the ICE fetch, the relay socket, the data channel, the
visibility change, the modal's buttons and a reload. `live` counts the peer
connections that are not closed, so that a session left running behind the page
is seen.

`TouchInput` keeps the callbacks' cells next to `truth`, what the fingers really
did. `touches` is `ev.touches()`, every finger on the page; those of `Elsewhere` are
beside the video (on the on-screen keyboard, say), and no listener hears of them. Nor
does one hear of a `touchcancel`, or of fingers that were down before `attach_input`:
`truth.unseen` says that a finger came or went that way during the gesture.

`SoftKeyboard` keeps the text as a sequence of characters and spaces with what the
keyboard remembers of it, and each finger with the key it came down on.

## Runs

| run | asks |
|---|---|
| `input` | two viewers, `bob` outside the allowlist, three connections: does anything but the accepted connection's messages ever act, is view-only kept, does every verdict reach its viewer? |
| `password` | no allowlist, a password `bob` does not know, lockout after two misses: is `bob` ever obeyed? |
| `live` | one viewer, a live screen, the encode thread: is capture ever on without an active session reported, do losses wind the session up, and do rebuilds put an offer before signaling? |
| `copies` | two transfers side by side with a host that may restart, and one file edited between attempts over lost links, restarts of either side, and disks that refuse: is `FileCopy` implemented, do both ends agree, is the window kept, does every transfer end unless the host restarts? |
| `rv_switch` | two viewers taking over from each other: is what the cache replays one connection's? |
| `rv_outage` | a connection to the hub goes at either end, at any point, and the watchdog may restart the host: does it ever resolve to over a session that has been reported, and does an announcing viewer still hear from the host? |
| `broker` | two sessions' agents come, go, are killed and replace each other: does only the active one count, is a session left locked, does capture end with the viewer and resume after a handover? |
| `account` | three requests race, statement by statement, with a restart: one free account, nothing in another's hands, no device without a token? |
| `host_side` | store, pairing, input, screen and clipboard |
| `viewer_side` | viewer session, window, web page, touch and keyboard |
| `server_side` | the hub with a stranger beside an account's devices: does a frame cross accounts, does a late teardown evict a newer socket? And the relay's credential: does a host come up, and get its relay back? |
| `ft_overlap` | two transfers of one name at once: a comment refuted, see Findings |

`ObeysOnlyTheAccepted` is the property of the security boundary: whatever is
taken from the event channel and acts was sent over the connection whose Hello
was accepted last, by a viewer within the policy. It is worth checking because
events carry no connection number in the code: what keeps an old message from
acting under a new authorization is only that the events of both lie in one
channel in order, with the new connection's `Connected` between them.

What the runs over several modules say, property by property:

* `IdentityIsKept`, `NoLostUpdate` (`DeviceStore`): two first starts, a crash
  between any two steps and a keyring that comes and goes leave the device with
  the identity it showed first, and no change of a setting is lost.
* `PairedIsMutual`, `BothUnlessCut` (`Pairing`): whoever has paired is bound to a
  peer with the same secret that is bound to it, and the other one pairs too, or is
  gone, unless the first one's connection dies before its tag is through.
* `InjectsWhatWasMeant` (`InputInjection`): a release leaves nothing down, the
  pointer stays on the captured output, but for a button without a position, which
  may find it where the device starts, and the picture and the pointer agree under
  every zoom up to the rounding of the crop.
* `RequestsAreKept`, `PictureRecovers` (`ScreenStream`): no keyframe request is
  swallowed by a frame under way, whether it is sent, skipped or fails, and an
  accepted viewer without a decodable picture gets one.
* `NoEcho` (`ClipboardSync`): a side sends only what its own user copied.
* `NoRebuildStorm`, `DialSettles` (`ViewerSession`): the rebuilds of both ends do
  not provoke each other, and the spinner ends.
* `ShowsWhatIsPinned` (`ViewerWindow`): a session runs exactly behind the screens
  that show one, and only with the pinned key, whatever the verdict the user saw.
* `OneLiveSession`, `Authenticates` (`WebViewer`): no connection is left running
  behind the page, a page in the foreground has one or gets one, and a reconnect
  authenticates with the password remembered.
* `WatchdogSparesReported` (`RendezvousClient`): the watchdog resolves on a restart
  only while no session is live, or one is whose start the host loop has yet to
  report. The session itself is not safe from it: see Findings.
* `FollowsTheFingers` (`TouchInput`), `KeyboardIsTrue` (`SoftKeyboard`): but for the
  gesture that an unseen finger comes into or goes from, the button is held only
  under one finger, movements start from the fingers that make them, and a click
  is a tap of as many fingers; and what the keyboard repeats, offers and labels is
  true.
* `RelayIsRenewed` (`RelayCredential`): a start ends, and a lapsed credential is
  replaced or known to be missing once nobody is connected.

`CopiesWholeFiles` is checked with one transfer id per name: with two
transfers of one name at once (`ft_overlap`), or a `.part` that cannot be cut,
it does not hold.

Where a property joins several (`InjectsWhatWasMeant`, `ShowsWhatIsPinned`,
`OneLiveSession`, `FollowsTheFingers`, `KeyboardIsTrue`, `EndsAgree`,
`RelayIsRenewed`), the modules define a mutant for conjuncts beyond the one that
`PROJECT.json` names.

### Bounds

`MaxSession` bounds the connections ever built: two are enough for a message,
verdict or key to cross a rebuild; three for one to cross two. `MaxEvents` and
`MaxCmds` (two) bound the channels, which are unbounded in the code: a full
channel holds the sender up, so every order of the messages is still taken,
only not with more than two waiting. `Traffic` is the message alphabet of an
instance. `ThrottleAfter` is 3 in the code and 2 in the runs.

`Window` (2 chunks), `AckEvery` (1, and 2 in the first instance, where a missing
last ack would show) and `MaxFlight` (3 messages a direction) are small against
16 KiB chunks, acks every 256 KiB and a 1 MiB window, and keep what matters: files
longer than a window, acks that are owed only now and then, and a window that
can be open while older chunks are under way. `Faults` and `MaxFaults` say which
faults an instance has and how many: two are what it takes to lose a link and
then resume across a restart. `Inodes` bounds the `.part` files ever created. The
first instance has no viewer restart, since a restarted viewer's ids repeat (see
Findings), and a window that belongs to two files means nothing.

`MaxSocket` bounds the sockets ever opened (three: an old one, the one that
replaced it, and a stranger's), `MaxSevered` how many connections go (one; the
second viewer, the restart and the reconnect are in other runs), `MaxQueue` the
frames under way in a direction of a socket or channel, `MaxOffer` the offers of
a host session, `Watchdog` the failed attempts the 150 s stand for.
In `rv_outage`, `MaxQueue` is one and `MaxOffer` three: an offer that is replaced by
a rebuild, and one of the process that the watchdog starts. `HelloUnderWay` keeps a viewer from queueing a second hello behind one that has
not arrived.

`Broker`: two sessions, of which one is gated and flaky, and a queue of one; the
handover, the replaced agent that lingers and the one that returns all occur.
`AccountServer`: three requests of any kind by two people, and one device; a race
is between two requests, and the third prepares or observes it. `DeviceStore`:
three processes; two race for the identity and the third finds what they left.
`Pairing`: four attempts, three of the same code, so that one may leave and
another take its place. `InputInjection`: a grain of 3, a width of 7 pixels and
`AbsMax` 255, so that nothing divides evenly, and an output that the middle of the
desktop lies outside of. `ScreenStream`: two displays and
two viewers, so that everything of the first one may be left to the second, and
two unhandled events. `ClipboardSync`: three copies and two connections.
`ViewerSession`: two losses, so that the second one meets the rebuild for the
first. `ViewerWindow`: two users whose hosts have two keys each. `WebViewer`: three
faults and two offers a session. `TouchInput`: four fingers, one of them
beside the video, with cancels and new channels; `SoftKeyboard`: two fingers, words
of one and two letters, and a text of three characters.
`RelayCredential` has the values of the code.

`MCHostSession` and `MCBroker` keep deadlock checking on. The other
configurations switch it off: every transfer, request, process, attempt and
connection may be used up, and then nothing is left to do.

### Fairness

`live` uses `FairSpec`: the driver's pump is weakly fair, the host loop strongly
fair (only the model's bound on the command channel ever disables it), and the
driver finds its command channel empty again and again, since it drains it
faster than a 4 ms host pass or a frame fills it. Nothing obliges viewers,
network, capture or encoder to act.

`copies` assumes for its first instance that the sending threads and the two
loops that handle messages run on: each is an operating-system thread or a loop
that polls without blocking on anything else. Nobody has to offer or to cancel,
and no host has to restart.

`rv_outage` assumes weak fairness of every arm of the clients' select loops, of
the announce timer, and of the hub's tasks, and that a connection attempt
eventually succeeds. No connection has to go, and no user has to open a viewer.

`broker`: the broker's thread, the agents' threads and systemd's start of an
agent are weakly fair; nobody has to log in or out, to watch or to move on the
screen, and no retry has to succeed. `host_side`: the hub's and the clients' tasks
of a pairing, and the host loop, the capture and the encode thread, weakly; the
viewer's picture loss report strongly, since it is sent whenever packets are
missing and the event queue's bound may disable it; a frame that is made (`Made`)
strongly too: an encoder does not skip every frame, or fail on every one, for ever. `viewer_side`: the driver, the
pump and a host that answers, weakly; of the page, that timers fire, requests
return and the host answers. `server_side`: time, and the host's own threads; that
the server ever answers is not assumed.

## Findings

Where a comment of the source and the code disagree; `PROJECT.json` quotes each.
`ft_overlap` has a run of its own, whose trace TLC prints: two transfers of one
name share a `.part`; what is renamed to the final name is a mixture, although
each digest was verified (comment `filexfer.rs` 12-14).

The others are stated at the end of their modules. TLC refutes each on the
configuration named when it is put in the place of its properties:

| property | configuration | what happens |
|---|---|---|
| `CaptureStopsWithTheViewer` | `MCHostSession_live` | the driver rebuilds a live connection (`driver.rs` 1086-1091) without a `Disconnected` event, and the host loop pauses capture in that arm only (comment `host.rs` 436-437) |
| `EncodesOnlyForAccepted` | `MCHostSession_live` | after such a rebuild the encode thread's gate is open on the previous viewer's authorization until the next `Connected` is handled (551-552) |
| `NextSessionStartsReleased` | `MCHostSession_live` | after such a rebuild the keys the previous viewer held are down in the next session (429-430) |
| `KeyframeForEveryViewer` | `MCHostSession_live` | after such a rebuild `resume` returns early and the next accepted viewer gets no forced keyframe (528) |
| `Screen!NothingBeforeTheHello`, `Screen!FirstIsWhole` | `MCHostSide_parts` | the same two, from the encode thread's and the decoder's side |
| `Screen!ZoomIsTheViewers` | `MCHostSide_parts` | the zoom rectangle is shared and reset by nobody: a viewer starts on the crop of the one before (201, 208) |
| `Screen!ShowsTheSelected` | `MCHostSide_parts`, `MayFail <- {"start"}` | a display that failed to start is taken for the current one, and selecting it again does nothing (783) |
| `Screen!MissesNoTarget` | `MCHostSide_parts`, `MayFail <- {"build"}` | the bitrate is stored before the rebuild that may fail, and not tried again (`software.rs` 78-79) |
| `Input!NothingLeaks` | `MCHostSide_parts`, `Backends <- {"mac"}`, or `EmitFails = TRUE` | the macOS backend has no `release_all` (`input/src/lib.rs` 98-101); on Linux what is tracked changes before the event that may be refused, and a refused release is not tried again (`uinput.rs` 205-216, 254-259, 265-278) |
| `Input!NoPositionIsTheLast` | `MCHostSide_parts` | the last position starts as the middle of the desktop, and a first button without one is put there, whatever output is captured (comment `uinput.rs` 43-44; 112, 195) |
| `Input!ZeroStaysPut` | `MCHostSide_parts` | (0,0), "no position", is remapped before the backend looks for it (`uinput.rs` 190-193) |
| `Input!KeysCarryModifiers` | `MCHostSide_parts` | the web keyboard's Shift is in the modifiers, which the Linux backends do not read (web-viewer `lib.rs` 1619-1620) |
| `Clipboard!ClipboardWaitsForTheHello` | `MCHostSide_parts` | the clipboard thread sends whenever a channel is open (`host.rs` 1089-1090) |
| `Clipboard!Converges` | `MCHostSide_parts` | two copies at the same time change places |
| `Pair!BothOrNeither` | `MCHostSide_parts` | who verified the other's tag returns; if its own is lost with its connection, or with the hub, the other waits for it without a timeout (`pairing_client.rs` 6; 93-108, `signaling.rs` 471-474) |
| `Pair!PresentPeersPair` | `MCHostSide_parts` | who greeted a peer that left sends no second Hello (`pairing_client.rs` 68-69) |
| `IdentityIsKept`, `NoLostUpdate` | `MCHostSide_parts`, `Flock = FALSE`, or `LockMayFail = TRUE` | on Windows `lock()` locks nothing (`identity.rs` 606-609); elsewhere an identity is loaded without the lock when it cannot be had (611) |
| `DeliveredIsVerified` through `Resume` | `MCFileTransfer_copies`, with `Failing <- {"truncate"}` or `{"read"}` in `Resume` | the result of `set_len` is dropped, and a `.part` that could not be cut is delivered with an old tail; so is one that could not be read back whole, since its hash goes on from what was read (`filexfer.rs` 197-198) |
| `ChunksArriveInSequence` through `Resume` | `MCFileTransfer_copies` | chunks sent while the channel is down are dropped and the sending thread goes on; nothing closes the gap after the reconnect (16-18) |
| `OneIdOneFile` through `Resume` | `MCFileTransfer_copies` | a restarted viewer's transfer has the id of an earlier one that the host still has a receiver for (135) |
| `AnnouncingViewerCompletes` | `MCRendezvousClient_outage` | the offer is lost with the host's socket, the candidate that follows on the next one counts as a reply, and the viewer stops announcing (`rendezvous.rs` 191-193) |
| `WatchdogSparesSession` | `MCRendezvousClient_outage`, with either `Tray` | a session that starts between the look at `session_active` and the new process image, or whose start has not been reported, is taken down (`rendezvous.rs` 169-170; 287, 293, 171-184); with the tray companion nothing stores the flag at all (`main.rs` 1454-1455) |
| `ActiveIsTheSession` | `MCRendezvousClient_switch` | a rebuild for another viewer ends the session without a report, and the flag stays set (`host.rs` 385) |
| `PeerChangesByHello` | `MCRendezvousClient_switch` | a late answer of the viewer that was taken over from switches the host back to it (`rendezvous.rs` 365-366) |
| `HandoverSettles` | `MCBroker_handover` | with two sessions logged in the agents replace each other without end (`broker.rs` 9-11) |
| `StreamsOnlyWhileCapturing` | `MCBroker_handover` | frames between the end of a session and the agent's stop go to the transport (`host.rs` 855-856) |
| `AtMostOneToken` | `MCAccountServer_api` | two rotations that interleave leave both tokens (`api.rs` 259-260) |
| `TokenIsItsDevices` | `MCAccountServer_api`, `Devices = {desk, laptop}` | a refresh rotates the token of the device that took the row id meanwhile (335-336) |
| `Credential!FreshIsFull` | `MCServerSide_parts` | another device had the account's credential rotated before (`main.rs` 208-209) |
| `Credential!RestartSparesSession` | `MCServerSide_parts` | a session between the look and the restart is cut (200-201) |
| `Session!HonestHostIsProven` | `MCViewerSide_parts` | a proof is checked against the next connection's fingerprint (`viewer.rs` 322-323) |
| `Session!LeavingHangsUp` | `MCViewerSide_parts` | the pump keeps the transport after the window let it go (viewer `main.rs` 380) |
| `Session!CandidatesReachTheirConnection` | `MCViewerSide_parts` | a candidate behind the offer that makes the viewer rebuild goes to the old connection (`driver.rs` 1352-1353) |
| `Window!SignOutForgets` | `MCViewerSide_parts` | a job that ends after the sign-out leaves its token or its list (viewer `main.rs` 762-771) |
| `Web!StoredHasWorked` | `MCViewerSide_parts` | a password is stored before the host has judged it (web-viewer `lib.rs` 301) |
| `Web!RecoveredIsKept` | `MCViewerSide_parts` | a connection that recovers during the backoff is torn down (633-635) |
| `Web!AnnouncedIsServed` | `MCViewerSide_parts` | a hello is said once, on a relay that may close, and nothing says it again |
| `Touch!HeldWhileTouched` | `MCViewerSide_parts` | the last lift is read from `ev.touches()`, the page's: a drag stays on when its finger lifts while another rests beside the video; nor does anything listen to `touchcancel` (web-viewer `lib.rs` 1419-1420; 1445) |
| `Touch!MovesFromItsFingers` | `MCViewerSide_parts` | a finger that comes or goes unseen changes the primary finger without a new anchor (1068-1070) |
| `Touch!QuickTapRightClicks` | `MCViewerSide_parts` | two fingers that land in one event are timed from an earlier gesture (1080) |
| `Keyboard!HeldLettersAreTracked` | `MCViewerSide_parts` | a second finger's key takes the place of the letter held (1917-1918) |
| `Keyboard!OffersReplaceTheWord` | `MCViewerSide_parts`, `Extras <- {"dictation"}`, `MaxText <- 4` | dictation leaves the suggestions, and one that is tapped then deletes the end of what was dictated (2051-2052) |
| `Keyboard!DeletesTheSpace` | `MCViewerSide_parts` | what was typed between the two taps of the space bar is deleted (1804) |

`X!P` names `P` of the instance `X` in the module of that configuration. Seen on
the way, without a model: quick connect refuses every host that has an identity
(viewer `main.rs` 449-453 against 18-22); `revoke_user_session` has no caller in
`register_device` (`api.rs` 148-149); `config.rs` 46 says that the TTL's default is
12 h, the code 600 s; `main.rs` 1457 says "before it lapses", the refresh comes
after; a host whose first fetch of a credential fails, or whose entitlement is
denied then, has no refresh thread.

## Proofs

The runs check small instances; the theorems hold for every value of the
constants, from the assumptions on the constants that the modules name. The
eight modules of theorems share one form: an invariant that is inductive, proved to
hold at first and to be kept by every action, and the property as what it implies.
`PROJECT.json` lists the theorems with the properties they state.

| module of theorems | theorems | assumptions | hypotheses |
|---|---|---|---|
| `HostSession_proofs` | `TypeCorrect`, `Invariance`, `ReportedActive`, `ViewOnlySafe`, `AuthorizationCurrent`, `Obedience`, `VerdictReachesItsViewer` | `DriverAssumption`, `HostAssumption` | |
| `RendezvousClient_proofs` | `HubInvariance`, `AccountIsolation`, `EntriesAreLive`, `NoEviction`; `ClientInvariance`, `ClientsKeepToTheirAccount`, `ReplayIsConsistent`, `WatchdogSpares` | `HubAssumption`, `ClientAssumption` | no tray companion, for `WatchdogSpares` |
| `DeviceStore_proofs` | `IdentityStays`, `KeyStaysOpen`, `ChangesStay` | `FlockAssumption`, `NoOneAssumption` | a lock that locks and does not fail |
| `AccountServer_proofs` | `TypeCorrect`, `AccountsKeepToTheirOwners`, `OneAccountForFree`, `DevicesKeepAToken` | `AccountAssumption` | |
| `Broker_proofs` | `TypeCorrect`, `NeverLeftUnlocked`, `TheActiveAgentCounts` | `BrokerAssumption` | |
| `FileTransfer_proofs` | `TypeCorrect`, `DigestIsOfTheDisk`, `WholeFilesOnly`, `EndsAgreeInvariant` | `TransferAssumption` | one id per name; disks that can be read, and cut |
| `HostSide_proofs` | `AppliedTextsStay`, `KeyframesAreMade`, `PairingIsMutual`, `InputIsWhatWasMeant` | `NoOneAssumption`, `InputAssumption`, `ScreenAssumption` | encoders that build, for `KeyframesAreMade`; not the macOS backend and a system that refuses no event, for `InputIsWhatWasMeant` |
| `ViewerSide_proofs` | `KeyboardTellsTheTruth`, `NoSessionIsLeftBehind`, `ThePinnedIsShown`, `GesturesFollowTheFingers`, `LossesBoundTheRebuilds` | `ViewerAssumption` | the page's own keyboard and nothing else types, for `KeyboardTellsTheTruth` |

The assumptions are parameters of their types and bounds that are positive. A
hypothesis is a choice among the parameters that every passing run makes, and names
a case in which the code does not do what the property says: TLC refutes the
property when the parameter is chosen otherwise (Findings, for most; a control
channel that replaces another below a finger leaves the keyboard's cells as they
were).

### HostSession

The properties are not inductive. `Inv` adds what the argument rests on: the
events in the channel are in the order of their connections (`Order`); a data
event of a connection is behind its `Connected`, in the channel or already
handled (`Announced`); messages come from a connection that had an answer
(`Source`), `peer` is settled for every connection that was up (`Known`), a
viewer sends a right password only if its user knows it (`Honest`); and an open
gate belongs to the connection handled last (`Gate`), with the status that goes
with it (`Reported`). From `Order` and `Announced`, a data event handled while
the gate is open is of the accepted connection, which is `Obedience`.

`VerdictReachesItsViewer` needs the other direction, the command channel, where
neither acks nor answers say which connection they are for. `AckInv` adds to `Inv`
that an offer reaches the host loop in its turn and is answered only then
(`Offering`), that no queued event is older than the last accepted connection
(`Accepting`), and that an acceptance under way is for the present connection
or lies ahead of that one's answer (`Verdict`): the driver drops it before the
connection can come up.

### RendezvousClient and SignalingHub

The account check looks at the sender's identity in the frame and at the entry of
the addressee; that this says something about the two sockets is the invariant:
a frame on its way up carries the identity of its socket (`Stamped`), an entry
is a registered socket of its own device (`Serves`), and a socket's device is
settled before anything is sent on it (`Identified`). `HubInv` takes the set of
messages as a parameter: with any set it is the invariant of `HubSpec`, where
nothing is known of the clients, and with `Messages` it is a part of `ClientInv`,
the invariant of the clients as `run` writes them. `ClientInv` adds that a
client holds a socket that was opened for it (`Attached`) and the types and
bounds of what clients keep, so what is proved of arbitrary clients holds of
these.

`CacheInv` says which connection everything that the host hands over, has cached or
has under way belongs to; a cache that holds one offer and candidates of another
would need a candidate to overtake the offer it comes after. `WatchdogSpares`
rests on `Flagged`: without a tray companion the flag is behind a live session by no
more than the report of its start. It says what the look at the flag is worth, and
no more than that: between the look and the restart a session may come, which is
the finding `WatchdogSparesSession`.

### DeviceStore

The invariant adds what the locks buy: a run between `look` and `write` holds
`identity.lock`, and nobody else is there; one between `open` and `save` holds
`settings.lock`, so that what it loaded is still what the file has. Any run may die
at any step. Where `lock()` does nothing, or fails, TLC refutes both properties
(Findings).

### AccountServer

Between any two statements of a handler other requests run, and a restart drops
what is under way. So each invariant says, for the place where a request stands, what
it may still write. `Owned`: a login's passkeys are its account's owner's, and a
session is minted after the right password only. `Closed`: while a server was never
open, a request about to insert holds the operator's token if there is one, and
once one has gone through there is a user. `Rotated`: a row id is the id of one
device, and a device without a token has its rotation under way or cut.

### Broker

`NeverLeftUnlocked` goes by where the capture-control thread stands (`Rested`): no
thread starts, waits to lock or ends with a handle, and one that has come to rest
without a handle has locked again. `TheActiveAgentCounts` goes by the order of
connections and their events: an agent in `pending` has not been hung up on
(`Channels`), one whose process has ended has no thread (`Threads`), and the end
of a connection is reported once (`ClosedOnce`), so a late one cannot be taken for
the end of the agent that came after.

### FileTransfer

Two transfers of one name share a `.part` (`ft_overlap`), and a `.part` that could
not be cut is delivered with its old tail: the theorems name as hypotheses that
there is one id per name (`OneIdPerName`) and that reading, and cutting, do not
fail.

`DigestIsOfTheDisk` says that what a receiver has hashed is what its `.part` begins
with. `WholeFilesOnly` is the refinement: `FileTransfer` implements `FileCopy`,
every step being a step or a stutter of it. Its invariant says that no `.part` is
another's, or a delivered file (`Apart`), that offers and contents under way are
those that were offered under that name (`Genuine`), that a receiver writes to the
`.part` of its name (`Attached`), and that where cutting works the digest is of
all of it (`Exact`).

`EndsAgreeInvariant` relates the two ends over everything under way between them.
`Lives` says it for a viewer's first life, in which every id is offered once: what
the queues hold of a transfer is an offer, then its chunks in their order, then its
end, what a receiver has on disk is a prefix of the file (`OnDisk`), acks are
nowhere ahead of it (`Acked`), and the sender no more than a window ahead of the
acks (`InWindow`). Host restarts and lost links are in it; a restarted viewer's ids
repeat, and then the window belongs to two files.

### HostSide

A part's invariant is kept by its own steps, and the steps of the others leave its
variables alone. *Clipboard*: what a side has in its clipboard its user copied, or
it is remembered in `last_hash`; all that is under way was copied at the other end.
*Screen*: a request that was taken up is in the frame under way, which is forced, or
left to the encoder by one that came to nothing.
*Pairing*: every message in the hub or in an inbox is one that its sender could
have sent then, a tag is of an attempt that is bound, and whoever is bound stays
so to the same peer; hence who has paired is the peer of its peer. *Input*: what
is down is tracked, the zoom lies on the screen, and the pointer on the output or
where the device starts; lemmas about rounded division bound how far crop and
pointer are apart, for every width and every zoom. That the pointer is *always*
on the output was the first attempt, which failed, and rightly so: it is the
finding `NoPositionIsTheLast`.

### ViewerSide

*Keyboard*: a suggestion is offered only while the text ends in the word it
replaces, and nothing repeats meanwhile (`KeyInv`). *Web*: the guard `connecting`
stands for exactly one attempt, which waits at a timer or at an await (`OneAttempt`),
and an attempt under way has torn down what was there. *Window*: no job runs behind
a session's screens (`Undisturbed`), and the session that is there was dialed under
the key pinned for its owner. *Touch*: a drag and an armed long press are one
finger's, movements are measured from the primary finger, and a pinch from the two
that are down, as long as no finger has come or gone unseen (`TouchInv`).

*Session*: why the rebuilds of both ends do not provoke each other for ever is a
count. A connection of the host is spent on an offer and its answer: those taken and
under way are no more than what the first connection and the losses brought, two
for each, and never none (`Turns`). Each of the viewer's connections was made for
an offer or waits for one (`Spent`). So the numbers of both ends are bounded by the
connections that were lost.

### What stays with TLC

Liveness is outside what the prover does: `LossEndsSession`,
`RebuildReachesSignaling`, `AnnouncingViewerHears`, `CaptureEndsWithTheViewer`,
`HandoverResumes`, `TransfersEnd`, `BothUnlessCut`, `PictureRecovers`,
`DialSettles`, `Authenticates` and `RelayIsRenewed` are checked on the instances
above and stated by no theorem. So is `DeliveredIsVerified`, which is false.

## Not modelled, and why

Audio, power, the capture backends and the service files are calls into the
platform; what audio keeps is one bounded buffer that drops its oldest samples. Of
the codecs, only what decides about size, bitrate and keyframes is modelled. Of
the viewers, drawing, statistics, menus, file dialogs and the decoding of swipes
are not. WebRTC, DTLS, the PAKE, TLS, WebAuthn and the signatures are external: the
models take from them what the code relies on (a connection's fingerprint is
the one in the answer behind it, a proof verifies exactly over the right
fingerprint, a digest identifies its bytes). The account client has no state: what
it asks for is in `AccountServer` and `RelayCredential`. The development signaling
server, the LAN client `signal.rs` and the entitlement trait are stand-ins. Of the
driver, candidate gathering, TURN allocation and the bitrate estimate are not
modelled, of the broker the displays and the input, of the API renaming and
listing.

## Plan

Every safety property that a passing run checks is stated by a theorem. What would
come next:

1. `RelayCredential`, of which liveness alone is checked: how its clocks bound the
   time without a relay.
2. `AccountServer`: one session or device for each ticket and for each ceremony.
3. `Pairing`: at most two members in a room.
4. `FileTransfer`: how much of what it promises survives two transfers of one
   name, instead of the hypothesis that there are none.
5. `SoftKeyboard` with dictation and under a replaced channel: what still holds
   then, in place of the hypotheses.
