# A verification development for Teave

Teave is a native application environment for Linux: applications drive the
graphics cards, input devices and virtual terminals themselves, and a small
privileged service, **Teave-sv**, opens those devices for one application at a
time. This directory holds TLA+ modules that model the service, the sockets it
is spoken to over, and the application-side code that takes over a virtual
terminal and the graphics cards and draws on them; TLC configurations that check
them; and TLAPS proofs of every safety property the runs check.

Contents: 1 the system, 2 the modules and the code, 3 the runs, 4 fairness,
5 proofs, 6 where the code disagrees with its comments, 7 what is not modelled,
8 plan.

## 1. The system

| Part | Where | State it keeps | Operations |
|---|---|---|---|
| Teave-sv manager | `teave-sv/mgr` | the current and the temporary connection (`so_ws`), the active process (`a_p`) with its devices, `sig_fd` | `loop`, `process_socket_conn_event`, `process_accepted_socket_event`, `process_proc`, `process_*_req`, `process_signal_event`, `cleanup` |
| Devices of the service | `teave-sv/dev` | an open descriptor; for a card, DRM master | open / `drmSetMaster`, `drmDropMaster` / close |
| Epoll manager | `teave/epoll` | `ep_regs`, a map from descriptor to registration; the kernel holds pointers into it | `register_`, `deregister` |
| Sockets | `teave/socket` | a descriptor, its path, whether it is the server's | `server_setup`, `client_setup`, `accept`, send and receive data, descriptors, credentials |
| Message protocol | `teave/sv` | none (a request waits for its response) | `Sva::req_*_fd`, `Sv::req_quit`, `Svs::send_fd`, `recv_ucred_msg` |
| Signals and loop control | `teave/event` | handlers, signal mask, `ev_loop_act`, `we_had_fatal_sig` | `setup_signals`, `sig_handler`, `process_signal` |
| Virtual terminal | `teave/tty` | modes of the terminal found at start | `Tty::Tty`, `Tty::~Tty`, `Vt_fncs` |
| Graphics devices (application) | `teave/gdev` | list of devices, their connectors, crtcs, saved crtcs, registrations | `load_devs`, `setup_dev`, `get_crtc`, `process_event`, `schedule_vblank` |
| Rendering | `teave/gl`, `teave/compositor` | EGL/GBM objects per device, two buffers per connector | `init_gbm`, `init_egl`, `load_gdev_gl`, `drm_add_fb`, `release_buf`, `set_crtc`, `Gbuf::suspend` |
| Settings, runtime directories, users | `teave/setting`, `runtime`, `user` | options, paths | `parse_argv`, callbacks, `mkdir` |
| Logging, errors, utilities, udev wrappers | `teave/logger`, `err`, `debug`, `util`, `device` | buffers, reference counts | formatting, files |

### How they interact

The service and an application share a Unix stream socket, on which all messages
have one size. The
application sends a request (a graphics device, an input device, a virtual
terminal, any file, or "quit") with its credentials attached by the kernel and
waits for the response, to which a descriptor is attached. The service is one
thread around `epoll_wait`; the kernel gives it back pointers to `Epoll_reg`
objects, whose function it calls. It has two connection slots: a new connection
becomes the *temporary* one, displacing the temporary one before it; the first
message on it moves it to *current*, displacing that. A message also decides who
the *active process* is: in prod mode the first to ask, until it quits; in dev
mode whoever asked last. Devices opened for the active process are kept in
`a_p`; dropping `a_p` closes them and drops DRM master, which makes the
descriptors the application has useless. Signals are read from `sig_fd` in the
loop, and handled by `sig_handler` before and after it.

On the application's side everything runs in one thread too. It shares with
other processes the terminal (the kernel's modes outlive the process that set
them), the cards' crtcs, and its open files (the service has each of them open as
well, so that closing one does not take it out of the kernel's epoll set).

### What is hard here, and what makes each part correct

* **Stale registrations and slots.** Handlers free registrations that the rest
  of the batch points to, and move connections between slots while a message is
  being served. The slots, the kernel's open sockets and the registrations must
  agree after every handler (`ConnsAccounted`).
* **Exclusive access.** A card must be programmed by one process only, whatever
  order requests, hang-ups, replacements, signals, failures and crashes come in
  (`MasterBacked`, `LentToMaster`, `Exclusive`, `OnlyHolderEnds`, `Revoked`,
  `ImplementsLease`).
* **Answers.** A client blocks until its response comes; it must come, be its
  own, or the connection must end (`Answered`, `AnswerMatches`, `ImplementsConn`).
  Nothing but the path ties a response to its request, and a signal may make the
  client give up a call whose response is still to come (`Skew`,
  `SoundUntilAbandoned`); full buffers may make the service wait for the client
  (`ServiceFree`, `CallEnds`).
* **Ends.** Connections of clients that are gone must be let go, a signal must
  end the service wherever it arrives, and the path must not lead nowhere
  afterwards (`HungUpDropped`, `QuitHeard`, `QuitNotLost`, `EndsOnSignal`,
  `NoDeadPath`, `Serves`).
* **State that outlives processes.** Terminal modes and crtcs must be as before
  when applications end, also one after another and after failures half way
  (`Unlocked`, `Drawn`, `ImplementsStack`, `Restored`).
* **Order of construction and destruction.** Exceptions leave constructors
  anywhere; EGL, GBM and DRM objects depend on each other (`Layered`, `Freed`,
  `FbsOwned`, `RegsAccounted`, `EventsReachLive`).
* **Buffers of several screens.** Connectors of a device share one pool of buffers
  and the numbers of their frame buffers; what one does must not show on
  another's screen (`FramesKept`, `ImplementsPool`).

`PROJECT.json` lists each hazard at the line where it bites, with the properties
that would show it.

## 2. The modules and the code

### TeaveSv: the service, its connections and its devices

A handler of the service is one action, because the service is one thread. What
can happen between handlers is the actions of `Environment`.

| Variable | Code |
|---|---|
| `status` | the process: in the loop, after it returned, ended, killed |
| `cur`, `temp` | `so_ws[I_CUR]`, `so_ws[I_TEMP]` |
| `a_p` | the active process: `pid`, `gdevs`, and `idevs`, `vt`, `devs` as requests (`devs`) |
| `node` | `ep_regs` seen from the kernel: `node[c]` is the connection whose `Epoll_reg` now lies where `c`'s did; with `NodeReuse` a new one may lie where a freed one was |
| `batch` | what `epoll_wait` returned and the loop has not dispatched |
| `waiting` | the connection on which `recvmsg` blocks the whole service |
| `pending` | signals not yet read |
| `sock`, `backlog`, `owner`, `peer`, `inq`, `outq` | the kernel's sockets: state, listen queue, other end and its state, messages in each direction |
| `master`, `lent` | DRM master of each card; who else has the service's descriptor of it |
| `want`, `gone` | the request a client waits on; processes that exited |

| Actions | Code |
|---|---|
| `EpollWait`, `EpollInterrupted`, `StaleCall`, `Finish` | `Mgr::loop`, `Mgr::run` |
| `Accept`, `AcceptFails` | `process_socket_conn_event`, `Socket::accept`, `~So_w` |
| `Serve` (`HungUp`, `Refuse`, `GrantGdev`, `FailGdev`, `ServeDev`, `ServeQuit`, `ServeGarbled`, ...) | `process_accepted_socket_event` with `process_proc` and the request's handler |
| `QuitSignal`, `CleanupSignal` | `process_signal_event`, `process_signal`, `cleanup` |
| `Connect`, `SendReq`, `SendQuit`, `RecvRes`, `RecvEnd`, `Disconnect` | `Sva`, `Sv`, the client's `Socket` |
| `Exit`, `Killed`, `Restart`, `ForeignTakes`, `ForeignDrops`, `Signal` | kernel, users, other display servers |

`recvmsg` that fails gives *garbled* credentials and message (`Bogus`, `Junk`):
its result is kept in a `size_t`, so that the test for a failure never fires. The
message keeps the code of an empty `Msg`, which no request has; the pid is
whatever is in memory, that of a process or not.

When descriptors are short (`FdsExhaust`), `accept4` and `open` fail, and so does
the log of it: `Logger` opens its file for every message, and throws. `Logged`,
`Send` and `SendError` say what that does to a handler: the exception leaves it,
the loop and `main`, and an error that was to be sent after the log is not sent.

### CardLease: what the service promises

`CardLease` is the abstract service: one holder, a table of cards, and access to
them that ends in the step that ends the holder's turn, except when the service
is killed. `TeaveSv` implements it (`ImplementsLease`) with `a_p.pid` as the
holder, `a_p.gdevs` as the table and `Access`, computed from `lent`, as access.

### SvConn: what the service promises on one connection

`SvConn` is the abstract connection: one answer to each message, in the order of
the messages and on the connection they came on, until the service drops it, after
which what was sent can still be read. `TeaveSv` implements it on each of its
connections (`ImplementsConn`): `inq[c]` and `outq[c]` are its two directions,
`Serving(c)` says that the connection is still queued or held by the service.
`Answers` says which responses a message may get.

### SvClient: a client's calls

`SvClient` is one client (`Sva`, `Sv`, and the `Socket` under them) with a service
that does what `SvConn` says, over buffers that hold `Capacity` messages in each
direction. It takes its service's steps from `SvConn`, with one thing added: the
service has one thread, so that a response for which there is no room stops it
(`Blocked`). `Begin`, `Send` and `Receive` are `Sva::req_fd` from its call to its
return; `SendFails`, `ReceiveEnd` and `Interrupted` are its exceptions: the
service is gone, or a signal handler of the application ran, for which
`setup_signals` leaves `SA_RESTART` to chance (`sa_flags` is uninitialised). A quit
request (`Sv::req_quit`) does not wait, though a refusal of it is answered. A
response to a call that was given up stays in the buffer for the next call, which
compares paths; a refusal's path may be memory that was never written. Message
numbers, in `answers` and `got`, are history: the code has none.

### SvProcess: the process around the loop

`pc[i]` says how far `main`, `Mgr::Mgr`, `Mgr::run` and `~Mgr` are for each of
several processes. `Start` to `Block` are the constructor up to the blocking of
signals, cut where a signal or another process can tell the difference: before
and after the old path is removed, and after `bind`. In the states of `Handled`
the handler of a pending signal may run between any two steps (`Handle`); in those
of `Blocked` the loop reads it (`ReadSignal`). `sig_fd` starts as garbage, because
`Mgr` does not initialise it: a signal before the loop has `cleanup` close some
number, which may be a descriptor in use (`broken`), and the constructor then
fails. Settings and directories are taken to be right; a start that fails because
of them would be a `StartFails` without a signal. `path` is the file all processes
share. The error paths are `StartFails`
(a second `bind`, a broken descriptor), `WaitFails`, the exit on a second fatal
signal, and `Kill`.

### Tty: the virtual terminal

`vt[v]` holds the kernel's modes of each terminal, and `org[a]`, `vt_num[a]`,
`file[a]` the fields of each application's `Tty`. Each ioctl of the constructor
(`ReqVtFd`, `get_cur_act_vt`, `get_kd_kb_mode`, `get_kd_mode`, `get_vt_mode`,
`make_active`, `WaitActive`, `SetVt`, `SetKb`, `SetKd`) and of the destructor
(`BackVt`, `BackKb`, `BackKd`) is an action, because the kernel, users and other
applications come in between: `Ask` and `Switch` are a switch, `Reset` and
`OwnerGone` what the kernel does when the process that must agree to it is gone.
The kernel knows `KDSKBMUTE` or does not (`mutes`); where it does, the keyboard's
mode is never set. Three history variables say what the properties need:
`under[a]`, the `Tty`s that were open on the terminal when `a` began to save;
`over[a]`, the applications that have had a newer `Tty` there since and have closed
it; and `spoilt[v]`, whether a `Tty` of the terminal crashed or two overlapped
without being nested.

`over` is needed because the destructor does not give everything back. `VT_SETMODE`
makes its caller the process that is asked before a switch, also when it puts
`VT_PROCESS` back for an older `Tty`, and the destructor unmutes keys that the older
one had muted. Once that process exits, nobody is asked: the next switch resets the
terminal, text and all, under the `Tty` that is up (`Reset`). `Drawn` says what the
newest `Tty` keeps as long as those in `over` run, and what it keeps for good when
there are none.

### TtyStack: what applications promise each other

`TtyStack` is the abstract terminal: those who use it are stacked (`beneath`), and
only the one on top changes it. `look` is whose the screen is, `asked` who is asked
before a switch, `keys` whether the console hears them. One that leaves gives the
screen back to the one beneath it, or the whole terminal to the console
(`GiveBack`); one whose start failed has changed nothing (`Fail`). What is not given
back is in it as well: after a `Leave` the keys may be the console's, and the one
asked may be any that has had the screen over the one beneath (`left`); when such a
one exits, the kernel may take the screen (`Exit`, `Take`), after which nothing is
promised to the one that had it (`Whole`, `Safe`). `Spoil` and `Recover` are crashes
and entangled `Tty`s, and the console's return. `Tty` implements it on each of its
terminals (`ImplementsStack`) with `under` and `over` as `beneath` and `left`, the
modes as the screen and the keys (`Look`, `Keys`), the process of `VT_SETMODE` as
`asked` and the processes that ended as `gone`.

### GdevMgr: an application's graphics devices

The application constructs a manager, uses it, and destroys it, several times
with one `Epoll_mgr`. `AddDev` is one turn of the loop of `load_devs` with
`setup_dev`, `load_dev_cons` and `get_crtc`; `ThrowEarly` and `ThrowLate` are
exceptions before and after the registration, which destroy the devices but not
the manager; `NoScreens` is `front()` of an empty vector. `regs` is `ep_regs` by
descriptor number, `poll` the kernel's set by open file; `lit` is what crtcs
show; `asked` are vertical blanks with the pointer they carry. Hardware is any
assignment of the boards of `Hardware` to the cards. `schedule_vblank`,
`process_event` and `SetCrtc` are what a running application does.

### Gl: drawing, and taking it down

`eg[d]` are the fields of `Egl_gbm_dev` that are set, `libs[d]` the objects EGL
and GBM have for it: they differ after a failure, since `init_egl` terminates the
display and leaves `egl_dis`. `buf`, `front`, `locked`, `fb`, `shows` are the
`Gbuf`s, `front_buf`, buffer objects, frame buffers and crtcs. `release_buf`
leaves the number of a removed frame buffer in `drm_id`, and DRM hands numbers
out again, lowest first. `Gbuf::suspend` acts on one `Gbuf` at a time, whatever is
left in its `drm_id` (`Suspend`, and `ClearBuf` in the destruction); `strayed[d]`
is history: one was suspended whose old number is that of another `Gbuf`'s frame
buffer, which then goes. `~Gdev` restores the crtcs first, as far as DRM lets it
(`RestoreCrtcs`), and `~Egl_gbm_dev` is modelled one call at a time (`TearNext`),
so that what is alive between two calls is visible.

### FramePool: what a connector may rely on

`FramePool` is the abstract device: a connector has two buffers at most, taken from
the free ones (`Lock`); to draw on it (`Flip`) or to give a buffer back (`Release`)
changes no other connector's screen; and when drawing is over screens show what they
did before (`Restore`). After a failed call, or once what was given back is given
back again (`ReleaseAgain`), a screen may come to show the buffer of another
connector (only after a flip) or go dark when another gives a buffer back
(`ReleaseBroken`), but never does it show one that nobody has, into which the GPU may
draw. `Gl` implements it on each of its devices (`ImplementsPool`) with the buffer
objects of a connector's `Gbuf`s (`HeldBy`), the buffer object behind the frame
buffer its crtc shows (`OnScreen`), `failed` and `strayed` (`Broken`), and the device's
destruction (`Over`).

## 3. The runs

| Run | Asks | Bounds |
|---|---|---|
| `sv_prod` | Does prod mode keep its tables, hand the service on only by its holder, and implement the lease and the connections? | 3 connections, 2 processes, 1 card, 1 message in flight, crashes, descriptors that run out, registrations re-used; 500 thousand states |
| `sv_dev` | Does a replaced process lose its cards in that step, and does everybody get its own answer, with every signal and failing calls? | 2 connections, 2 processes, 1 card and the terminal, 2 messages in flight |
| `sv_live` | Is a waiting client answered or told, is a gone one let go, is a signal heard? | 2 connections, 2 processes, no cards, no re-use of registrations |
| `sv_process` | Is a quit lost between handlers, blocking and the wait? What is left of the path? | 2 processes, 3 kinds of signals, any number of each |
| `sv_client` | What do interrupted calls and full buffers do to a client and to the service? | 2 paths, buffers of 2 messages, 6 messages sent |
| `tty` | Do applications leave terminals usable, keep theirs while they run, and stack? | 3 applications, 2 terminals, both kinds of kernel; 376 thousand states |
| `gdev` | Do registrations follow devices, are screens numbered through, and do screens come back, when constructors throw anywhere? | 2 managers in turn, 2 cards of 7 kinds of boards |
| `gl` | Are objects taken down in order and all of them, do connectors draw without disturbing each other, and is the pool of buffers implemented? | 2 devices, 2 screens, 3 buffer objects, one failing call of its own or a stray suspension while drawing; 871 thousand states |
| `sv_stale_event`, `sv_garbled`, `sv_again`, `gdev_screens` | Section 6 | as small as shows it |

*Why the bounds are enough.* The service has two slots. With three connections
there is one in each and one more to displace either; the second process is the
"other" of every exclusive claim. One card shows every order of two requests for
one card; the table of a process never relates two cards. One message in flight
is what the repository's client does; `sv_dev` has two, for a client that quits
after a request. `sv_client` sends one message more than fills both buffers and
the service's hands (2 + 2 + 1), which is the least that stops both. `sv_process` needs two processes for the path, which is a set
of one. Three applications are the least that nest two deep and have a third
follow. Two cards are the least that can share crtc numbers; the boards are a
lit one, one whose first connector is absent, one with a dark screen, one with
two screens that only one crtc can drive, one without screens, and two of another
make. A second manager is the least that meets what the first left behind. Two
screens have four `Gbuf`s; with three buffer objects each pattern of held and empty
ones but all four at once occurs, and an empty one with an old number is what
matters.

*What the runs assume.* `sv_live` has `NodeReuse = FALSE`: with re-use a stale
event can make the service wait for a message on a connection that has none, and
then nothing is answered (run `sv_stale_event`), and descriptors that do not run out
(`FdsExhaust = FALSE`): without them the service ends or accepts nobody, which
`sv_prod` shows to be safe and nothing makes live. `AnswerMatches` is not checked
in `sv_prod`: there a quit request can be refused, and the refusal, which nobody
waits for, is read as the response to the next request (listed as a hazard).
`tty` does not go on once two `Tty`s of a terminal have overlapped without being
nested (`Untangled`): nothing orders applications in dev mode, and what then
happens is listed as a hazard. A reset under a `Tty` that is up, because an
application that had a newer one there exited, is not such a case and is explored. `Restored` is claimed where every connected
screen was lit and no two cards share crtc numbers (`Orderly`), and while the
application keeps DRM master. `FramesKept` is claimed until a call fails (a
failed `drmModeAddFB` leaves an old number in the buffer, and nothing is thrown) and
until a `Gbuf` is suspended whose old number another one has got (`strayed`): then a
screen does go dark under its connector, which TLC shows within twelve states when
the condition is left out. `ImplementsPool`, `FbsOwned`, `Layered` and `Freed` are
claimed in those cases too. The two together multiply the states, and `gl` leaves
out that an application that still draws meets both (`OneTrouble`); the proofs
do not.

`CHECK_DEADLOCK FALSE` stands where the modelled program ends: `sv_client`,
`sv_process`, `gdev`, `gl`. The service itself and the terminals never stop.

## 4. Fairness

`TeaveSv!Fairness`: the service's thread runs when it has something to do
(`WF_vars(Service)`), since it is one process the scheduler runs; and a client
blocked in `recvmsg` wakes up when there is something to receive. Nothing is
assumed of applications beyond that: they need not send, read or exit.

`SvClient!Fairness`: the service answers unless it waits for this client
(`WF_vars(Answer)`), which is `TeaveSv`'s fairness seen from one connection; and
the client's thread goes on when its system call can return (`WF_vars(Client)`).
Signals, drops and the client's end are not assumed to happen.

`SvProcess!Fairness`: each process takes its next step (`WF_vars(Progress(i))`).
The delivery of signals outside the loop, kills and failures of `epoll_wait` are
not assumed to happen. `EndsOnSignal` therefore also covers a signal that stays
pending until the loop reads it.

## 5. Proofs

`TeaveSvProofs` proves, for any number of connections, processes, cards,
requests and messages, both modes and all values of the switches:

| Theorem | States |
|---|---|
| `TypeCorrect` | `Spec => []TypeOK` |
| `ConnectionsAccounted` | `Spec => []ConnsAccounted` |
| `MastersBacked` | `Spec => []MasterBacked` |
| `ExclusiveTurns` | `Spec => Exclusive` |
| `HolderEnds` | `Spec => OnlyHolderEnds` |
| `TurnsRevoke` | `Spec => Revoked` |

The assumptions are the named ones of `TeaveSv`: the mode, bounds that are
numbers, signals that exist, and names that are different.

* `TypeCorrect` goes by the kinds of steps: `Serve` (the handlers of a message),
  the other handlers (`Loop...`), the end of the service (`End...`) and
  `Environment`; so do the other inductive proofs.
* `MasterBacked` is not inductive: a card's master could be granted to somebody
  who is no process. `MasterInv` adds that the sender of a message on a
  connection is a process of that connection (`...Senders` lemmas) and that
  nothing is in the table of nobody.
* `ConnsAccounted` is inductive once the types are known. Its proof splits it
  into `Accounts`, about slots, sockets and registrations, and `Queues`, about
  the listen queue, since no handler but `Accept` disturbs both. `TurnOwned` and
  the promotion lemmas say that the connection a message came on is the current
  one after its promotion, which the handlers rely on.
* The action properties follow step by step: `Turnover` says when a step may
  change the active process, `OtherSteps` that all others leave it alone,
  `EndsReset` what the end of the service does, `DroppedCards` what destroying
  an `Act_proc` does to masters and descriptors.

`TeaveSvRefinement` and `TeaveSvLeaseProofs`, which extend it:

| Theorem | States |
|---|---|
| `ConnectionsServed` | `Spec => ImplementsConn` |
| `AnswersMatch` | `Spec => []AnswerMatches`, in dev mode |
| `LentMastered` | `Spec => []LentToMaster` |
| `LeaseKept` | `Spec => ImplementsLease` |

* `ConnectionsServed` maps every action to a step of `SvConn` on each connection:
  a handler serves the one its message came on and drops at most the others; the
  environment sends, reads and leaves on one. What a step cannot show by itself is
  the invariant `Ends`: a connection is unused just as long as it has no client,
  no response is left for a client that is gone, and nobody waits in the listen
  queue of a service that has ended.
* `AnswersMatch`: in front of the request a client waits on there are only quit
  requests, and either it is unserved and there is no response, or nothing is
  unserved and there is one response (`Asked`). A quit request that is served closes
  the connection. In prod mode it may be refused: the refusal is then read as the
  response to the next request, whose own is left for the one after it.
* `LentMastered`: a descriptor that is on its way to a process, or that it has, is
  that of the card's master. It is lent in the step that grants it, and whatever
  takes the master away takes its use with it, as both go with the `Gdev`.
  Its proof needs `Ends`, for descriptors in the queue of a client that goes.
* `LeaseKept` needs `LentToMaster` and `MasterBacked` to know that a card without
  a master is one that nobody has access to, which is when the lease grants it.

`SvClientProofs` proves for any paths, buffers and number of messages:

| Theorem | States |
|---|---|
| `ClientTypeCorrect` | `Spec => []TypeOK` |
| `ClientSkew` | `Spec => []Skew` |
| `ClientSound` | `Spec => []SoundUntilAbandoned` |
| `ServiceStaysFree` | `Spec => []ServiceFree` |

`Skew` says which messages the unread responses answer, and nothing of those still
unanswered. The inductive invariant adds the numbers of the messages in the queue
(`Numbered`) and, while no call was given up, that all that is under way has the
path of the call (`Matched`). `ServiceFree` follows from the counts.

`SvProcessProofs` proves for any number of processes:

| Theorem | States |
|---|---|
| `ProcessTypes` | `Spec => []TypeOK` |
| `QuitKept` | `Spec => []QuitNotLost` |
| `PathsLive` | `Spec => []NoDeadPath` |

`QuitNotLost` needs that the loop has its `sig_fd` whenever it goes on
(`LoopInv`): only the signal that closes it also sets `quit`, and that one is
read in the loop only. `NoDeadPath` needs that the path never leads to a process
that has not bound its socket (`PathInv`): one whose start fails before it has a
socket leaves the path as it is.

`TtyProofs` proves for any number of applications and terminals:

| Theorem | States |
|---|---|
| `TypeCorrect` | `Spec => []TypeOK` |
| `TerminalsUnlocked` | `Spec => []Unlocked` |
| `ScreenKept` | `Spec => []Drawn` |
| `TtysStack` | `Spec => ImplementsStack` |

All three properties speak of terminals no `Tty` has spoilt. There the modes follow
from the newest `Tty` alone, which is the invariant `Tidy`: every `Tty` under the newest
is up, what the newest has saved is what the one just beneath it relies on, or the
console's modes if there is none (`SavedInv`), and the terminal is set as far as the
newest has come (`SetInv`). Because the kernel may reset a terminal under a `Tty` that
is up, once a process in `over` has exited, most of that is known on a condition: of
a `Tty` that is up (`Kept`) as long as all in its `over` run (`Whole`), and of what a
newer one saves as long as that is so for the one it found (`Sure`). The conditions
only ever come to fail (`WholeBefore`, `Weaker`), so that every step keeps what is left
of them. A `Tty` nobody has been over keeps its owner, its muting and its modes
unconditionally, and `Taken` says why a reset never meets it: who is asked is the
newest itself or in its `over`. `Coupled` says that a kernel that can mute never changes
the keyboard's mode. `Ordered` says that of two `Tty`s of a terminal exactly one is
under the other. The steps of a constructor or destructor share `Moved`; the end of a
`Tty` leaves the next one the newest (`Ended`, `TtyGone`).

`TtysStack` maps the first ioctl that saves (`get_kd_kb_mode`) to `Arrive`, those
that set or put back one mode to `Draw`, the last one of a destructor to `Leave`, the
throw of a constructor to `Fail`, a crash to `Exit` or `Spoil`, and a reset to `Take`
or `Recover`. That the `Tty` that acts is the one on top is the same `Tidy`: where it
is not, the terminal is spoilt. `PutBack` says what the modes are after a leave, which
`TtyGone` needs as well.

`GdevMgrProofs` proves for any cards, boards and number of managers:

| Theorem | States |
|---|---|
| `TypeCorrect` | `Spec => []TypeOK` |
| `RegistrationsAccounted` | `Spec => []RegsAccounted` |
| `EventsLive` | `Spec => []EventsReachLive` |
| `NumbersContiguous` | `Spec => []IdsContiguous` |
| `ScreensRestored` | `Spec => []Restored` |

The assumptions are that there are finitely many cards and that a board is a list of
crtcs and one of connectors. `FdInv` says that open files have different numbers;
that one is free for the next (`FdFree`) is a pigeonhole argument. `RegInv` is
`RegsAccounted` per number. `AskedInv` adds that a blank was asked for by this manager
or an earlier one, since files of earlier ones may stay polled after a throw, and the
property rests on that blanks are only asked for once the constructor is through.
`IdInv` says that the numbers given out are just those below `con_id`, each once, from
which the count follows by a bijection.

`ScreensRestored` rests on `LitInv`: each connector of a device was saved with the crtc
and the picture that the console had there, and a crtc shows what it did except
where a connector of a device puts the application's buffer, which nothing does
before the constructor is through. `~Gdev` goes over its connectors in turn; what the crtcs show
after each (`Restoring`) is a function that calls itself. The induction theorems
of the library need an operator as a parameter, which the provers cannot give, so
the proofs go by the least counterexample instead (`RestoringDef`, that the
function is what its equations say; `LeftBefore`, what crtcs show after the first
`n` connectors). Each turn puts a crtc back to what the console had there, which takes
nothing from a crtc that already is as it was. Which connector gets which number
and crtc is a choice of lowest ones in the model, as in the code; `Ranked` and
`LowestPair` say that there is one to choose, which `TypeCorrect` needs.

`GlProofs` proves for any number of devices, screens and buffers:

| Theorem | States |
|---|---|
| `TypeCorrect` | `Spec => []TypeOK` |
| `LayersKept` | `Spec => []Layered` |
| `AllFreed` | `Spec => []Freed` |
| `FbsKept` | `Spec => []FbsOwned` |
| `FramesStay` | `Spec => []FramesKept` |
| `PoolImplemented` | `Spec => ImplementsPool` |

The invariant has three parts. `ObjInv` is about the objects: what has been made of
each device, that what exists is set (not the other way round, after a failure), and
what the destruction has come past. `DrawInv` is about buffers, device by device: each
buffer object the application has is in one `Gbuf`, and each frame buffer has a `Gbuf`
with its number; that a number is left for a new one is counted from that
(`Held`). `Live`, which holds until a call fails or an old number that another `Gbuf` has
got is suspended, adds that each `Gbuf` with a buffer object has the number of its own
frame buffer, and that a front one is on its screen. `Cleared` joins the two: a surface
goes after its buffers. `release_buf` and `Gbuf::suspend` differ in what they leave in
the `Gbuf`, and share the rest (`Drops`, `DropKeeps`): the frame buffer of a number goes,
which is that of the `Gbuf` itself, of none, or, for a stray number, of another.

`PoolImplemented` maps `drm_add_fb` to `Lock`, `set_crtc` to `Flip`, or to `CallFails`
where the screen stays as it is, `release_buf` and `Gbuf::suspend` to `Release` as long
as nothing has gone wrong and to `ReleaseBroken` after that, a suspension that gives no
buffer object back to `ReleaseAgain` or a stutter (`PoolDrop`, `PoolSuspend`), and the
restoring of the crtcs by `~Gdev` to `Restore`; to the other devices each is a stutter
or no more than a failed call (`PoolIdle`, `PoolOther`). Besides the invariant above it
needs `Dim`: a crtc shows only frame buffers that exist, and, as long as nothing has
gone wrong, nothing for a connector without a front buffer. `FbHeld` joins the screen to the pool: a frame
buffer's number is in the one `Gbuf` that has its buffer object.

Only model-checked: liveness (`Answered`, `HungUpDropped`, `QuitHeard`, `CallEnds`,
`EndsOnSignal`, `Serves`), which is out of the prover's reach under fairness. Every
invariant, action property and refinement of the passing runs is a theorem.

## 6. Where the code disagrees with its comments

* `sv_stale_event` (`EventsAreLive`): the loop uses pointers of a batch after a
  handler freed them.
* `sv_garbled` (`ActiveIsReal`): a failed `recvmsg` is served as a message.
* `sv_again` (`ReRequestReplaces`): a card the process already has cannot be
  opened again, because the new `Gdev` is made before the old one is destroyed.
* `gdev_screens` (`ScreensNumbered`): crtc numbers of different cards are
  compared, and the second card of one make loses screens.

`PROJECT.json` quotes the lines. Others were found while modelling and are
listed there as hazards: in dev mode a process' second request destroys the
devices of its first, though CMakeLists.txt:87-88 speaks of a new process; a
response whose descriptor the kernel had to drop counts as a success; `cleanup` closes an uninitialised `sig_fd`; a
registration left behind by a constructor that threw keeps the next device from
being polled; a `Socket` that ends removes whatever file has its path;
`check_egl_extensions` asks the first device for all; exceptions are made
without `throw` in `drm_add_fb` and `set_crtc`; a `Gbuf` whose `drm_id` was left by
`release_buf` (gl_mgr.cpp:299-303) removes, when it is suspended (gdev.cpp:99-101),
whatever frame buffer has the number by then, and may darken another connector's
screen; and the destructor of a newer `Tty` (tty.cpp:46-47) leaves its own process as the
one asked before a switch and unmutes the keys of the `Tty` beneath, though tty.h:32-34
speaks of settings saved to be able to revert to them.

## 7. What is not modelled, and why

Settings, users and most utilities are sequential code without shared state.
The repository reads no settings file: `parse_argv` splits the command line into
options, and `Settings` calls what is registered for them. Runtime directories are
made by `mkdir` for each part of a path, where one that exists is a success, so
that the order of processes does not matter. The
compositor is an interface. The choice of a screen's mode, the measuring of
vertical blanks and the images of `Egl_img` do not affect what the modules say.
Partial sends are left out (a message is small and has one size, by which it is
sent and received, and a Unix stream socket takes it as one buffer), as is a
response that arrives without its descriptor because the application has none
left. Which display an extension is looked up in (`check_egl_extensions` always
takes the first) is not modelled: `Check` may fail for any device. Setting a
terminal's mode is taken to work, since a failure is only logged. `teave/include`
is third-party code, most of the lines of the repository.

## 8. Plan

Order, most important first; the first seven are done.

1. `TeaveSv` with `CardLease`: the service; nine theorems.
2. `SvProcess`: signals, start, end, the path; three theorems.
3. `Tty` with `TtyStack`: terminals across applications; four theorems.
4. `GdevMgr`: devices, crtcs, registrations; five theorems.
5. `Gl` with `FramePool`: buffers, set-up and teardown; six theorems.
6. `SvConn` and `SvClient`: what a connection promises, that `TeaveSv` keeps it,
   and what a client makes of it; six theorems.
7. The proofs of these.
8. Descriptor numbers of an application, for responses without a descriptor and
   for a `Tty` whose constructor throws.

The abstract specifications (`CardLease`, `SvConn`, `TtyStack`, `FramePool`) are all
stated and shown to be implemented. Left to do: an abstract `Epoll_mgr`, which would
relate `regs` and `poll` of `GdevMgr` to `node` and `batch` of `TeaveSv`.
