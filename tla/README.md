# PresenceVNC: TLA+ models and proofs

PresenceVNC is a touchscreen-friendly VNC viewer: a Qt main window, a view
widget for one remote desktop, and a worker thread per connection that runs
libvncclient. The repository carries the whole LibVNCServer tree with it, whose
server is what the viewer's protocol is defined against. This directory holds
TLA+ modules for the parts of both that are hard to test, TLC runs on small
instances, and TLAPS proofs for all instances.

Paths below are relative to the repository: `src/src/...` is the viewer,
`src/libvnc/libvncclient/...` and `src/libvnc/libvncserver/...` the library.

1. [The system](#the-system)
2. [What is hard here](#what-is-hard-here)
3. [The modules](#the-modules) and how they correspond to the code
4. [The runs](#the-runs): what each checks, its bounds, fairness
5. [What is proved](#what-is-proved)
6. [What the code does besides](#what-the-code-does-besides): observations
7. [What is left](#what-is-left) and [what is not modelled](#not-modelled)

## The system

### The viewer

| Component | State | Operations | Interacts with |
|---|---|---|---|
| **Connection thread** (`vncclientthread.cpp`) | `m_mutex`, `m_stopped`, `m_cl`, `m_passwordError`, `m_password`, `m_eventQueue`, `m_image`, `m_frameBuffer`, the static `outputErrorMessageString` | `run()`, library callbacks (`newclient`, `updatefb`, `cuttext`, `passwdHandler`, `outputHandler`), `stop()`, `mouseEvent()`, `keyEvent()`, `clientCut()`, `setPassword()`, a 500 ms error timer, the destructor | the view, by `BlockingQueuedConnection` signals and by direct calls under `m_mutex`; libvncclient, by calls and callbacks |
| **View** (`vncview.cpp`) | `m_quitFlag`, `m_initDone`, `m_viewOnly`, `m_dontSendClipboard`, `m_mods`, `m_buttonMask`, `m_frame`, zoom | slots of the thread's signals, input handlers, `startQuitting()`, destructor | thread, main window (status signals), clipboard, settings |
| **Status** (`remoteview.cpp`) | `m_status` | `setStatus()` | whoever listens to `statusChanged()` |
| **Main window** (`mainwindow.cpp`) | `vnc_view`, toolbar, static `old_status` | `connectToHost()`, `disconnectFromHost()`, `statusChanged()`, zoom, full screen | creates and deletes views |
| **Full-screen button, scroll area** (`fullscreenexitbutton.h`, `scrollarea.h`) | visibility, two timers, the widget shown | show, hide, re-enable, message | main window |
| **Framebuffer** (thread and view) | `m_frameBuffer`, `m_image`, `m_frame`, `old_frame_size` | allocation, update, paint, resize | both threads |
| **Pointer gestures** (`vncview.cpp`) | static tap flags and times, `m_buttonMask` | press, release, timers, wheel, zoom keys | thread's queue |
| **Keyboard, key menu** (`vncview.cpp`, `keymenu.cpp`) | `m_mods`, check boxes | key events, `sendKey()`, `sendKeySequence()`, `unpressModifiers()` | thread's queue |
| **Connect dialog** (`connectdialog.cpp`) | stored hosts with positions and qualities | accept, history | settings |
| **Preferences** (`preferences.cpp`) | settings | dialog, migration | settings |

### The library

| Component | State | Operations |
|---|---|---|
| **Handshake and sharing** (`rfbproto.c`; `auth.c`, `rfbserver.c`) | `cl->state`, protocol versions, `neverShared`, `alwaysShared`, `dontDisconnect` | the messages of both sides from the version to ServerInit; which clients a new one closes |
| **Clients of the server** (`rfbserver.c`, `main.c`) | the list of records, `refCount`, `sock`, mutexes and conditions | connect, iterate, close, input and output thread, free |
| **Sockets** (both `sockets.c`) | the read buffer of the client, `outputMutex`, what the kernel holds | `rfbWriteExact()`, `rfbReadExactTimeout()`, `ReadFromRFBServer()`, `WriteToRFBServer()` |
| **Updates** (`main.c`, `rfbserver.c`; `rfbproto.c`, `vncviewer.c`) | `modifiedRegion`, `copyRegion`, `copyDX`, `requestedRegion`, `newFBSizePending`; `updateRect` | draw, copy, resize, request, send, read |
| **Regions** (`rfbregion.c`) | lists of spans of spans | union, intersection, difference, offset, iteration |
| **Rectangles** (`rfbserver.c`, `tight.c`, `corre.c`, ...) | none | how an update is cut into rectangles, how many are announced |
| **Encodings** (`rre.c`, `corre.c`, `hextile.c`, `tight.c`, `zlib.c`, `ultra.c`, `zrle*.c`, `zywrletemplate.c` and their counterparts) | remembered colours, compression streams, levels | encode and decode a rectangle |
| **Cursor** (`cursor.c`) | `screen->cursor`, the pixels under it, a client's position and flags | show, hide, set, move, send the shape, convert its forms |
| **Colours** (`translate.c`, table templates) | a client's format and table | set format, colour map, new framebuffer |
| **Scaling** (`scale.c`) | the chain of scaled screens with reference counts | find or make a screen, keep it fresh, correct rectangles |
| **File transfer** (`tightvnc-filetransfer/*`; `rfbserver.c` for UltraVNC) | descriptors, progress flags, download threads | requests, blocks, cancels of both directions |

### What makes them correct

* thread: the client is used only while it lives and freed once; input reaches
  the server in order and once; a cancelled password dialog does not return;
* view: quitting ends, nothing it waits for waits for it, a dialog has somebody
  to answer to, view-only sends no input;
* window: an enabled toolbar has a view behind it, full screen can be left, a
  lost connection is noticed;
* gestures and keyboard: what is pressed on the server is released;
* settings: no start, save or kill loses one;
* updates, cursor, scaling, colours, encodings: what a client shows is what the
  application drew, or is still to be sent;
* connection: both sides agree on every message, bytes come once and in order,
  a call waits only for its peer, no record is freed that is in use;
* files: what arrives is what was asked for, in order and whole.

## What is hard here

* **Two threads that wait for each other.** The worker posts a call to the GUI
  thread and sleeps until it ran; the GUI thread waits for the mutex the worker
  may hold, or for the worker to end.
* **Order.** `stop()` against the start of `run()`; `disconnect()` against a
  call that is posted already; status signals that are replayed; `finished()`
  against everything else.
* **State read without the mutex**: `m_stopped`, `m_cl`, `m_passwordError`, the
  static error message; a client's socket tested before its reference is
  counted, before the mutex of the condition is taken, or before `select()`; a
  download's record that is closed field by field.
* **Retries and timers**: three password attempts, an error timer that looks at
  flags of the next attempt, `wait(700)` twice, tap timers that outlive the
  gesture, writes of the server that time out; reads and writes of the viewer
  do not, so that a silent server holds the thread, and whoever waits for the
  mutex that it holds.
* **Nested event loops**: the password dialog and `processEvents()` while
  quitting, in which the next connection can begin.
* **Two copies of one truth**: modifiers and buttons in the view and at the
  server, regions and what a client has, references and their users, colours
  that an encoder leaves out because the decoder remembers them, streams that
  both ends count, positions that number a list.
* **Errors that nobody looks at**: a short `write()`, a failing `uncompress()`.
* **Boundaries**: spans that touch, the last row or column, counts that are
  announced before they are known, tiles at the end of a palette, values at the
  end of a byte.

`PROJECT.json` lists the hazards one by one with the line where each bites and
the properties about it.

## The modules

Modules of the viewer:

| Module | Models |
|---|---|
| `InputChannel` | Abstract specification of the input path: accepted events are sent in order and once, none is accepted once the connection is being stopped, none is sent when it is over. |
| `VncClientThread` | The connection thread, and the calls made into it, by the most general GUI thread. |
| `RemoteView` | The statuses and what `setStatus()` emits (an operator). |
| `VncSession` | Extends `VncClientThread`: the real GUI thread of one view, with what `MainWindow` makes of its status. |
| `MainWindow` | The window, its scroll area and full-screen button through any number of connections. |
| `FrameBuffer` | The buffer shared by libvncclient, worker and view. |
| `PointerInput` | Touches, buttons, wheel and zoom keys turned into pointer events. |
| `KeyboardInput` | Modifiers from the keyboard, the toolbar and the key menu. |
| `HostHistory` | The connect dialog and its list of hosts. |
| `Configuration` | Migration and saving of settings over several starts. |

Modules of the library:

| Module | Models |
|---|---|
| `RfbHandshake` | Both sides of the handshake, and the sharing of the desktop, for several viewers. |
| `ServerClients` | The list of client records with its threads and iterators. |
| `RfbSockets` | The two byte streams of one connection. |
| `RfbUpdates` | The cycle of draws, requests and updates. |
| `RfbRegion` | Span lists and the operations on them. |
| `RfbRectangles` | The cutting and counting of the rectangles of an update. |
| `RfbEncodings` | RRE, CoRRE and hextile. |
| `RfbTight` | The Tight encoding of one rectangle. |
| `RfbCompressed` | zlib, ultra and ZRLE with their streams. |
| `RfbWavelet` | The transform of ZYWRLE. |
| `RfbTranslate` | Pixel formats, colour maps, translation tables. |
| `RfbCursor` | The cursor drawn into the frame buffer or sent as a shape. |
| `RfbCursorShape` | The forms of a cursor's shape and their conversion. |
| `RfbScale` | Scaled screens. |
| `TightFileTransfer`, `UltraFileTransfer` | The two kinds of file transfer. |

`MCVncClientThread`, `MCVncSession`, `MCPartsLiveness`, `MCPartsSafety` and
`MCTightFileTransfer` give the constants their values for TLC. The modules whose names end in `_proofs`
hold the theorems; each says at its top which modules it is about.
`Numbers_proofs` has the lemmas about numbers that several of them cite.

`VncSession` composes the view with the thread. The other parts share no state
with each other in the code, except through what the neighbouring module
treats as input (a region is a set of pixels in `RfbUpdates`, and
`RfbRegion` is about it being one; a rectangle is sent in `RfbUpdates`,
`RfbRectangles` cuts it and the encodings are about its bytes; a message is a
record in `RfbHandshake` and some bytes in `RfbSockets`). They are therefore
separate specifications, and the two `MCParts` modules check several of them in
one run each: the initial state chooses a part, and only that part moves.

### VncClientThread

`wpc` is the place in `run()`. The steps are cut where another thread can see
a difference: at every access to shared state, at every lock and unlock, at
every emitted signal and at every call of the library that may block.

| `wpc` | Code |
|---|---|
| `lock` | `QMutexLocker locker(&m_mutex)`, :283 |
| `retry` | the loop condition and the fresh client, :286-298 |
| `configure` | host, port and listening, :300-314 |
| `listen`, `accepting` | `listenForIncomingConnections()` |
| `connect`, `handshake`, `newclient` | `rfbInitConnection()` |
| `password`, `emitPassword`, `usePassword` | `passwdHandler()` and what the library does with its answer |
| `initFailed`, `failCheck` | `rfbInitClient()` frees the client; :317-326 |
| `unlock`, `loop`, `wait`, `handle`, `relock`, `drain` | the message loop, :329-350 |
| `setImage`, `emitImage`, `emitCut` | the callbacks inside `HandleRFBServerMessage()` |
| `relockExit`, `cleanup`, `finished` | :352-356 |

Critical sections of the GUI thread contain nothing that blocks, so each is one
step with the guard `mutex = "free"`; those of the worker are long, so `mutex`
records them. `emission` is the call the worker has posted and waits for.
`stop()` is split in its unlocked and its locked part.

Abstractions: an event is a value; a message on the wire is the callbacks it
makes; a password is null, empty or given; of an error message only the class
matters that `checkOutputErrorMessage()` distinguishes. Data that is not
initialised by the constructor (`m_passwordError`, `m_cl`) and the static
message start with any value.

### VncSession

`gpc` is the place of the GUI thread: its event loop, a handler waiting for the
mutex (`takeInput`, `unpressModifiers`, `stop`), the password dialog, the waits
and the nested event loop of `startQuitting()`, the destructor, or the end of
the program (`aborted`: the object of a running `QThread` is destroyed;
`crashed`: `statusChanged()` dereferences a null `vnc_view`). Slots run in
`eventLoop` and, with fewer possibilities, in `processEvents` and `dialog`.
`SetStatus` runs the main window's slot for every status that
`RemoteView::setStatus()` emits, in the same step: they are direct connections.

`wait(700)` is a choice: the thread ended in time, or the time is over. The
same holds for `wait(4000)` in the destructor of the thread.

The GUI steps that call into the thread are conjunctions with the actions of
`VncClientThread`, and all others leave its variables unchanged. That a session
refines the most general client is therefore a fact about how the two modules
are written, not about the code; the proofs use it as a lemma (`SessionIsThread`)
to carry the thread's invariant over.

Restrictions: the session is the program's first view (several in a row are in
`MainWindow`); one modifier key; pointer events are one class; the window
cannot be closed while the modal password dialog is open; Maemo-specific code
is not compiled in.

### MainWindow

`mw` is the window (`vnc_view`, the toolbar, the static `old_status`, full
screen), `shown` the widget of the scroll area, `alive`, `status`, `quitFlag`
and `viewOnly` the views. `QScrollArea::setWidget(0)` does nothing, so a view
that lost its connection stays until the next one replaces it, and two views
can exist. `Heard` runs `statusChanged()` for the statuses that `setStatus()`
emits, one after the other (`Signal`). `quitting` is the view whose
`startQuitting()` is on the stack: the user's actions and the other views'
signals go on in its nested event loop. Connecting there re-enters
`connectToHost()` while a view is deleted further up the stack; the model stops
there (`reentered`) and claims nothing. `crashed` is a null pointer: the zoom
slider released after the connection was lost (`mainwindow.cpp:425`), or
`Connected` after `Disconnecting` (:252).

### FrameBuffer

A buffer is a number, and the one with the highest number is alive:
`newclient()` deletes the previous. `cl`, `m_image` and `m_frame` are images of
a buffer with a size. `wfb` is the worker between two callbacks or waiting in
`emitUpdated()`; `painting` is a paint event that has begun. `old_frame_size`
is the static of `updateImage()`, shared by all connections. The zoom factor is
left out.

### PointerInput, KeyboardInput

Time in `PointerInput` passes in ticks; `press_time` and `up_time` are what
`QTime::elapsed()` returns, up to the largest value that makes a difference;
single-shot timers are never early and may be late, and cannot be cancelled.
`TimerFires`, `Press` and `Release` are the branches of `mouseEventHandler()`
in the order of the code; `serverMask` is what was last sent. The static state
survives a view (`NewView`).

In `KeyboardInput` `serverKeys` is what is down at the server, `held` what is
down on the keyboard. A combination is sent by one call of `sendKey()` per
step; `keys` is the rest of it. `checked` are the entries of the key menu.

### HostHistory, Configuration

`position` and `quality` are the groups of the settings, `hostnames_sorted` the
list that an open dialog read. An editable combo box has a current index and a
text, which need not agree. `Accept` is the whole of `ConnectDialog::accept()`,
renumbering included.

`Configuration` has the file (`disk`), the settings of the running process
(`memory`), and the points at which `QSettings` may write; the program can be
killed at any time. Settings are the version, the zoom keys and the last host.

### RfbHandshake, ServerClients, RfbSockets

`RfbHandshake` has the phases of each viewer (`viewer`), the state of its client
record (`state`), and the messages in flight (`up`, `down`). A reader that finds
another message than it expects has misread the connection (`Misread`). The
comparison of a new client with the others is one step for each other client,
as the server runs a thread per client.

`ServerClients` has the linked list with its pointers (`clientHead`, `next`,
`prev`) and mutex, the `life` of each record, and the places of its input
thread (before `select()`, in it or handling a request, signalling, joining,
unlinking, freeing). Between the test of the socket (`main.c:531`) and
`FD_SET()` (:502) another thread can close: `select()` then gets -1 and fails,
or never wakes (`InputSelectsNothing`, the place `blind`). The places of its
output thread (`OutputTests` and `OutputWaits` are two steps, because the test
comes before the mutex) and of iterators (`WalkCounts` comes after the test of
the socket). A walker that reads a freed record is `lost` and stays so.

`RfbSockets` has what each wire holds (`downWire`, `upWire`), how far each call
is, the read buffer of the viewer, and histories of what was asked to be
written (`written`, `sent`) and what arrived (`viewerGot`, `taken`). `torn`
says that a writer gave up in the middle of a message.

### RfbUpdates, RfbCursor, RfbScale

The screen is one row of pixels, and a region a set of them: the code treats
rows and columns alike. A pixel has one of a few colours, because a copied
rectangle is right only if its source was. `toServer` and `toClient` are the
messages in flight. The server runs in `rfbProcessEvents()`, one thread.

`RfbCursor` adds the cursor to one client's updates: `frameBuffer` with what is
drawn into it, `drawn` as the application's own, `picture` as what the client
shows of it, `cl` as the record's regions and flags.

In `RfbScale` a pixel of a scaled screen is not a colour but the columns it was
blended from, with those that were drawn on since: this is what can be stale.
`scaledScreenNext` is the chain of screens, `scaledScreenRefCount` their counts.

### The encodings and colours

`RfbRegion`, `RfbRectangles`, `RfbEncodings`, `RfbTight`, `RfbCompressed`,
`RfbWavelet`, `RfbTranslate` and `RfbCursorShape` translate algorithms:
operators named after the functions of the code, an action that takes an input,
encodes it and decodes it with what both ends remember from before. zlib, LZO
and JPEG are external: a compression stream is a sequence of numbered blocks
that is read only in order, by an end that has read all of them. Where the three
samples of a pixel are treated alike there is one. Widths of bytes and limits
of tiles, palettes and buffers are constants, so that a small instance reaches
them.

### File transfer

`TightFileTransfer` has the flags and descriptors of one client (`rcfd`,
`rcfu`), the threads that downloads start, at their places `open`, `read`,
`write` and `test`, and what the client received (`received`) and the server
stored (`uploaded`). `CloseUndoneFileTransfer()` is three steps for a download
(`CloseUndoneDownload`, `CloseDescriptor`, `ClearName`; `closing` is what is left
of them), because threads look at the fields; only a cancel locks the mutex
(`MessageThread` is its owner then), a failed upload does not. `restarted`
remembers that a thread opened the file again in between. `UltraFileTransfer` has the one descriptor of both
directions and a directory whose names can be removed and given again while a
file is open; `copying` is what the viewer makes of what it is sent. A block that
is written may be `Damaged` (`Written`): of `write()` only -1 is an error, and
the result of `uncompress()` is not looked at.

## The runs

| Run | Instance | Properties |
|---|---|---|
| `ThreadProperties` | 2 events, at most 2 accepted, both ways to connect, both security types; server, user and caller owe nothing | `ClientAlive`, `CancelIsFinal`, `ChannelSpec` (refinement of `InputChannel`), `AcceptedIsSent`, `StoppedThreadEnds`, `StopReturns` |
| `SessionSafety` | all four kinds of input, at most 3 accepted, all modes | `SessionIInv` (the inductive invariant), `JoinNeverStarves` |
| `SessionProgress` | one kind of input, at most 2 accepted, both ways to connect, both security types, not view-only; server, user and caller owe nothing | `GuiReturns`, `QuitCompletes`, `LostConnectionNoticed` |
| `PartsLiveness` | the parts that users, timers and threads drive, see below | seven invariants, five temporal properties |
| `PartsSafety` | the parts with safety properties only, see below | fifteen invariants, one action property |

The other seven runs end in a violation; they are in the next section.

**Thread and session.** The only unbounded data is the input. Two different
events show order, loss and duplication in a queue; in the session three
accepted events let a modifier be pressed, another event follow and the
destructor's release still find a place (`UserInput` and `ClipboardChanged`
keep one free). Everything else is finite in the code: three password attempts,
one posted call, one thread on each side. The number of retries, rectangles,
messages and slots is not bounded in the runs.

**`PartsLiveness`**, by part:

| Part | Properties | Instance |
|---|---|---|
| pointer | `Button1HasOwner`, `HeldTapIsSent` | the two times at their smallest with a difference (1 and 2 ticks), two buttons, three kinds of zoom key; both zoom keys, any number of gestures and views |
| keyboard | `ModifiersMatchServer`, `CombinationRestoresModifiers` | all modifiers, one letter; a modifier alone, a letter alone, a letter with two modifiers |
| frame | `FrameIsLiveAfterUpdate` | two sizes, four buffers: a change of size in each of two connections |
| main | `WindowIsUsable` | two views at a time, any number one after the other |
| updates | `NoPixelForgotten`, `UpdatesConverge` | up to three pixels, two colours, copies to both sides, two draws and one resize: enough for a copy whose source or target was drawn on, or is copied again, while an update is in flight |
| clients | `CountedIsAlive`, `ClosedClientEnds` | two records with their threads, one iterator that walks again and again |
| sockets | `StreamIsWhole`, `CallsEnd` | two writers of three bytes, reads of one and three with a buffer of two, wires of two bytes: every call is cut, the buffer is filled and passed by, and both directions are full at once |

**`PartsSafety`**, by part:

| Part | Properties | Instance |
|---|---|---|
| history | `HistoryIsKept` | three hosts, a list that is empty or has a migrated host, any number of dialogs |
| config | `MigrationKeepsSettings` | all versions, any initial settings, any number of starts |
| handshake | `HandshakeAgrees`, `NeverSharedIsExclusive` | two viewers, minor versions 3, 7 and 8, every server setting |
| region | `RegionIsSet` | a grid of two by three pixels, every region reachable from unions, intersections, differences and shifts |
| encodings | `DecodedIsEncoded` | all tiles of three sizes in two or three colours, one after another with what both ends remember |
| rectangles | `UpdateIsTiled` | images of five by five pixels with solid areas, four regions, all splitters, with limits of a few pixels |
| cursor | `CursorLeavesNoTrace` | three pixels, a cursor wider than its mask and an empty one, copies, three steps between updates |
| transfer | `TransfersAreWhole` | a file of two blocks and an empty one, a directory, two download threads, three transfers |
| ultra | `UltraTransfersAreWhole` | two names, two inodes, blocks that can and cannot be compressed, and damaged ones; one uploaded block in the run (longer uploads rest on the proof) |
| tight | `TightIsDecoded` | all pictures of three samples in two sizes, all four streams, levels that change between rectangles, pixels of one to four bytes |
| compressed | `CompressedIsDecoded` | pictures chosen so that every subencoding of ZRLE wins, tiles that end in the middle of an image, several qualities |
| wavelet | `WaveletIsUndone` | all two-valued tiles of three by two, three-valued ones of two by two, and tiles of five by five; both levels; filters that keep, clear and clip |
| translate | `ClientShowsColours` | true-colour formats of one to four bytes, both orders, colour maps that change |
| scale | `ScaledViewIsFresh` | five columns at half size, which five does not divide; two clients that share screens, one told of sizes; five steps |
| shape | `ClientShowsTheCursor` | shapes on both sides of a byte's end, in two and more colours |

The bounds `MaxBuffers`, `MaxDraws`, `MaxResizes`, `MaxWrites`,
`MaxCursorSteps`, `MaxTransfers`, `MaxUploadBlocks`, `MaxUltraBlocks`,
`MaxChunks`, `MaxBlocks`, `MaxScaleSteps` and `MaxAccepted` are in guards of
the modules; a part stops when it has used them up. The limits of the code that
are far larger there (`maxRectSize`, `ZRLE_PALETTE_MAX_SIZE`, the bits of a
byte, ...) are constants with small values, so that their edges are reached.
The
colours of a screen are alike, so its first pixel has the first of them in the
initial states of `updates` and `cursor`.

`CHECK_DEADLOCK FALSE` is set where the program really can stop: a session can
deadlock (`ExitDeadlockHandled` below), a stopped thread has ended, a
handshake is over, both ends of a connection are closed, a record is freed, a
part has used up its bounds.

**Waits that the code does not end.** The liveness properties of thread and
session name them, as alternatives that begin with `[]`: `WaitsForServer` (a read
or write of libvncclient tries again for as long as the socket would block,
`sockets.c:126-244`), `WaitsForUser` (the password dialog), `WaitsForCaller`
(listening and not aborted), and `MutexIsKept`, one of them with the mutex. What
is left is what the code does promise. `AcceptedIsSent`: an accepted event waits
for nothing else. `StoppedThreadEnds`: of a stopped thread only the server can
keep. `StopReturns`: `stop()` is kept only by a worker that holds the mutex, not
by one that a server stalls in a message or that waits for a slot of the message
loop. `GuiReturns` and `QuitCompletes`: the waits of `startQuitting()` and of the
destructor end even then, by `wait(700)` and `wait(4000)`; only taking the mutex
can last, and the user's dialog.

`ClosedClientEnds` likewise excludes two windows by name: an output thread
between its test of the socket and its wait (`MissesSignals`), and an input
thread between its test and `select()` (`MissesShutdown`).

### Where the code does not keep a comment

| Run | Claim | What TLC finds |
|---|---|---|
| `ThreadAbortUnlocked` | `vncclientthread.cpp:273` "should be safe without locking" | `stop()` writes through `m_cl` before it is assigned, or after it is freed. |
| `ThreadCleanupUnset` | `:206` "m_cl is free()d when event loop exits" | Stopped before it has locked the mutex, `run()` hands an uninitialised pointer to `rfbClientCleanup()`. |
| `SessionAuthErrorEarly` | `:214` "only after the 3rd unsuccessful try" | One password is refused, and the timer fires before `run()` has begun the next attempt, which clears `m_passwordError`. |
| `TightCloseRestarts` | `filetransfermsg.c:588` "In case of concurrency we need to use Critical Section" | A failed upload closes a download; its thread comes after the descriptor was closed and before the name is cleared, opens the file again and sends it from the start. |
| `SessionExitDeadlock` | `vncview.cpp:70` "handled in startQuitting()" | A lost race between `startQuitting()` and a password request: both threads wait for ever. |
| `SessionLateCallback` | `vncview.cpp:90` "don't get any more callbacks" | A call that is posted already is delivered by the nested event loop. |
| `SessionViewOnlyInput` | `main.cpp:37` "Don't send mouse/keyboard input" | The filter is installed by the first update; mouse events before it are sent. |

### Fairness

*Thread and session.* The worker is scheduled (`WF`) where it does not wait for
the server: nothing makes a read from it, or a write to it, end, for
`ReadFromRFBServer()` and `WriteToRFBServer()` have no timeout. (`connect()` is
ended by the operating system, and `WaitForMessage()` has a timeout.) A message
has at most 65535 rectangles, so if rectangles go on for ever, messages end again
and again. Nobody has to answer the dialog or to connect to a listening viewer.
The GUI thread serves posted calls while it is in an event
loop, and a thread waiting in `QMutex::lock()` gets a mutex that is free again
and again (`SF` on the steps that take it: Qt queues waiters in the operating
system, and the worker sleeps in `select()` between two locks). `finished()` is
a queued signal and is delivered even if other events keep coming (`SF`). The
user owes nothing.

*Pointer.* Time passes (`WF` of `Tick`) and the event loop runs the timers that
are due (`WF` of `TimerFires`). The user need not release a button.

*Updates.* The server's event loop and the client go on (`WF` of `ServerStep`,
`ClientStep`). The application need not draw; `UpdatesConverge` is about the
time after its last draw.

*Clients.* The threads of a record and iterators that have begun go on (`WF` of
`OutputThread`, `WalkOn`); an input thread gets the list's mutex although
others take it again and again (`SF` of `InputThread`). No client has to come,
close or have anything to send.

*Sockets.* Calls that have begun go on (`WF` of `WriterStep`, `InputReads`,
`ViewerGoesOn`); the kernel need not move bytes in a direction that nobody
reads. Nobody has to begin a call.

## What is proved

For every value of the constants that the assumptions named in the modules
allow: any sets of events, buttons, hosts, viewers, clients, files and colours,
any width of screens and bytes, any times, any lengths of messages. None of the
bounds of the runs is used. Assumptions say what kind of value a constant is
and, where the code or a caller guarantees it, a little more:
`EventsAssumption` (a release exists for a press), `CombinationsAssumption` (the
last key of a combination is no modifier: a modifier is an entry of its own in
`keymenu.cpp`), `ClientsAssumption` and `ScaleAssumption` (finitely many
clients, for their references are counted).

Every theorem has the shape *initial states satisfy the invariant, every step
keeps it, it implies the property*, with a lemma per action; the temporal step
is one line at the end.

### Viewer

**Thread** (`VncSession_proofs`). `IInv` is inductive: `TypeOK` and

* `MutexOK`: `run()` holds the mutex exactly at `LockedPoints`;
* `EmissionOK`: a posted call belongs to the callback the worker is in;
* `NoStopWhileConnecting`: since `stop()` needs the mutex, an attempt to
  connect is never stopped; it is needed because a stopped attempt would reach
  the clean-up with a freed client;
* `ClientOK`: what `m_cl` points to at every place. `ClientAlive` alone is not
  inductive: the places between two uses have to be covered too, and that a
  client that never existed reaches the clean-up only of a stopped thread;
* `PasswordOK`: the flag, the counter and the last answer together. A null
  password with the flag set would be asked again.

From it: `ClientIsAlive`, `FinishIsClean`, `LoopSignalsAreSafe`,
`CancellingIsFinal`, `AtMostThreeTries` and `ImplementsChannel`. The refinement
maps the queue behind the sent events to what is accepted, and `m_stopped` and
the end of `run()` to the phases; it needs `CleanFinish`'s reason, that a
finished thread is stopped, and two facts about sequences (`MoveHead`,
`AppendBehind`).

**Session** (the same module). Every step of the session is one of the
thread or leaves it alone (`ContractStep`), so `IInv` is inherited.
`SessionIInv` adds where the GUI thread can be while it is inside `stop()`,
while the view quits and after the signals were disconnected. From it:
`SessionImplementsChannel`, `DialogIsAnswered`,
`JoinIsServed`, `ViewOnlyIsKept`.

**The other parts of the viewer** (`Viewer_proofs`).

* *Pointer.* `Button1HasOwner` is inductive with the types (`PointerInv`): it
  says for each combination of the static flags and held zoom keys whether the
  left button is down. A gesture may send several masks in one step; `SentLast`
  is about the last.
* *Keyboard.* `ModifiersMatchServer` is inductive. `CombinationRestoresModifiers`
  needs `CombinationInv`: what is left of a combination is a part that reads the
  same from both ends around a key that is not a modifier, followed by keys that
  undo, last first, what was sent before. Since a modifier toggled twice is what
  it was (`ToggledTwice`), the statement is about a history `A` of the modifiers
  after each key.
* *Frame.* `FrameInv` adds to the property that the static `old_frame_size`
  agrees with the widget once a buffer was shown (`SizeIsFollowed`), which needs
  that the first rectangle of a buffer begins at the origin (`FirstAtOrigin`).
* *Window.* `WindowInv` adds `StatusIsHeard`: what the window last heard is the
  status of its view. The property alone is not inductive because
  `statusChanged()` compares with what it heard before. The lemmas `HearsStart`,
  `HearsPassword`, `HearsEnd`, `HearsLost`, `HearsConnected` run through the
  statuses that `setStatus()` emits, one by one.
* *Settings.* `ConfigInv`: while the program runs, its copy is migrated and says
  the same as the file, which is why it may be written at any time or be lost.
* *Hosts.* `HistoryInv`: the list that an open dialog shows is that of the
  settings, its positions number it from 0 without a gap or a repetition, and
  an offered quality that the user did not touch is that of the host. Sorting by
  position gives a list without repetitions (`SortedIsList`: the rank of a host
  is the cardinality of those before it), and accepting an entry renumbers it
  again to such a list (`HostIsAdded`, `HostIsMoved`). The action property
  `HistoryIsKept` follows from it for each step.

### Library

* *Handshake* (`RfbServer_proofs`). `AgreementInv` has for each phase of the
  viewer the situations it can be in: what its record's state is, and exactly
  which messages are under way in both directions. That none is misread
  (`NothingIsMisread`) and that nobody waits for the other follow from the
  situation. A step of one viewer leaves the situations of the others
  (`SituationStays`, `StepOfOne`), except the step that closes them.
* *Sharing.* `SharingInv`: of two normal clients that are open, the thread of
  one has the other still to compare with (`OneSeesTheOther`). This is what makes
  two overlapping comparisons safe.
* *Clients.* `ClientsInv`: the count of a record is the number of its users
  (`Counted`, by cardinalities of finite sets), the output thread has ended
  before its record is unlinked, and a record that is freed has no user
  (`OutputJoined`).
* *Cursor.* `CursorInv`: outside of an update the buffer is what was drawn; each
  pixel that the server takes the client to have is right (`PixelsAreRight`); and
  where the cursor is drawn, pixels are sent and not copied
  (`NoCopyUnderCursor`). The last is the strengthening: without it a copy could
  put a piece of the cursor into the client's picture.
* *Updates* (`RfbUpdates_proofs`). `UpdatesInv` describes what the client will
  show when it has read everything in flight (`Reading`, a function over the
  messages), and that each pixel is right there, or in `modifiedRegion`, or in
  `copyRegion` with a source that will be right (`PixelsAreKept`). The other
  conjuncts are why a rectangle fits the buffer that it meets (`EverythingFits`):
  the encodings come before requests, a size that is pending modifies the whole
  screen, and a size that the client was not told of is not used.
* *Sockets* (`RfbUpdates_proofs`). `SocketsInv`: what was asked for is what
  arrived or is under way followed by what the one writer that holds the mutex
  has still to write, or by what a closed connection lost (`DownIsWhole`;
  `UpIsWhole` for the other direction). The lemmas about cutting and joining
  sequences (`Cut`, `Moved`) carry the proof.
* *TightVNC's file transfer* (`RfbServer_proofs`). `DownloadInv` says at each
  place of the download thread what it still has to do (`AtOpen`, `AtRead`,
  `AtWrite`, `AtTest`); it holds while downloads did not overlap and no thread
  reopened its file in the middle of `CloseUndoneFileTransfer()`, which is what
  the property is about. `ClosingInv`: a descriptor outlives
  its download only until the step that closes it. `UploadInv` and `PermissionInv` are its other two parts.
* *UltraVNC's file transfer.* `UltraInv`: a descriptor open for reading is on the
  inode of which the viewer was told, at the block it will get next; one open for
  writing is on an inode that has a block, as sent or damaged, for each that was
  taken.
* *Cursor shapes* (`RfbDisplay_proofs`). `ShapeInv`: every form that the shape
  has is what was painted. The lemmas are about bitmaps of rows of bytes: a bit
  of a byte of a row is one point (`BitsOfRows`), with rows that end in the
  middle of a byte, and the mask that is grown around a bitmap by shifting its
  bytes covers it and its neighbours (`MaskIsAround`).
* *Encodings* (`RfbEncodings_proofs`). `EncodingIInv`: what the server believes that the client knows of
  background and foreground, the client knows. That a tile is drawn as it was is
  `SubrectsAreDrawn`, for every picture and background, by an induction over the
  pixels in the order of the loops: the rectangles found so far have the colour
  of what they cover, and cover what is marked as done (`Encodes`). A rectangle
  has one colour and is in the picture because of what its greatest rows and
  columns are (`BiggestIsOfOneColour`), and the loops reach every pixel
  (`RowsReachAll`); `TestedColours` says what a tile of one or two colours is.
* *Tight.* `TightInv`: both ends have done the same number of blocks in each
  stream, and every rectangle came out; it is inductive because a rectangle is
  decoded from itself alone, and that is what the lemmas show for every image.
  `PaletteInsert` moves an entry past others and keeps the colours a set
  (`InsertKeepsColours`), so that a palette that did not overflow has every colour
  of the image once (`PaletteIsFilled`), by induction over the runs; what
  the two filters write is read back (`MonoIsRead`, `IndexedIsRead`,
  `GradientIsRead`, the last by induction over the pixels: the estimate uses
  only pixels before); the server compresses exactly when the client counts
  enough bytes (`BytesAreExpected`); and `TightLengthsAreRead` is the arithmetic
  of a length in three digits of which the last has a bit more.
* *Wavelets of ZYWRLE.* A Harr step is its own inverse on pairs and stays in
  range (`HarrIsUndone`), hence a row, a column, a level and, by induction
  over the levels, the transform (`TransformIsUndone`); the filter touches
  no low value. `TileIsHeld`: the order on the wire, sub-image by sub-image
  and then the rest, reaches every point, so that the client's search for a
  point's place finds it. `WaveletInv` says what is on the wire.
* *zlib, ultra and ZRLE* (`RfbCompressed_proofs`). `CompressedInv` adds to
  `CompressedIsDecoded` that a client without a block is in no stream, and that
  ZYWRLE keeps the levels at which it is asked for. That a rectangle comes out is
  `ZrleIsRead`. Each way that a tile can go is read back from its tokens with any
  others behind them (`RawIsRead`, `OneColourIsRead`, `RleIsRead`,
  `PaletteRunsAreRead`, `IndicesAreRead`), and leaves those: a run is as long as
  its bytes say (`LengthIsRead`), the reader, which finds the end of each run
  while it reads, starts a run where the writer did (`StartIsRead`,
  `SkippedIsRead`), the index of each pixel is in the bits of its byte where the
  client looks (`IndexIsInByte`). A palette that did not overflow has every colour
  once (`PaletteIs`). Hence `PlainTileIsRead`, and by induction
  `TilesAreRead`, since the tiles that are sent are those that the client
  cuts (`TileIsNext`). That the tokens fit the buffer of twice the pixels is
  `SentFits`: a way other than raw is taken only if its estimate is below that
  of raw pixels (`ShortestIs`), a tile has at most a byte for each pixel more
  than its estimate, and so at most twice the bytes of its pixels
  (`BytesAreFew`); the tiles' areas add up to the image's (`AreaOfTile`).
* *Colours* (`RfbDisplay_proofs`). `TranslateInv`: the table of a client is
  always the one that would be chosen now for the server's format and map and
  the client's format, its map is that of its format, and a pixel that is not
  due was sent through that table. It needs that pixels drawn are those of the
  server's format, whatever frame buffers replace it. The rest is
  arithmetic: samples are apart in a pixel and had back from it
  (`FieldsAreApart`, `SamplesAreKept`), swapping the bytes of a sum of samples is the sum of the
  swaps, whatever bytes the samples cross (the tables by component swap each
  by itself; `SwapAdds`), and rescaling is right to within half a step
  (`RescaledIsNear`, and `MapIsNear` for the colours of BGR233).
* *Scaling.* `ScaleInv`: a screen has as many references as clients
  (`ScreensAreCounted`), one that has clients is on the chain and up to date
  (`ScreensAreFresh`), and a view lags only where it is to be sent something
  (`ViewsAreFresh`). The arithmetic is in `CorrectionCovers` (the corrected
  rectangle contains the pixel of each of its columns), `RectIsUpdated` and
  `BlockIsInScreen` (no column beyond the screen is blended); they rest on a few
  lemmas about integer division, since products are beyond the provers' search.

A proof that failed found a mistake in a model, since corrected: a viewer that
closes its connection has to lose its read buffer too (`CloseViewer`). TLC had
not shown it because the messages and wires of its instance were too short,
which are longer now. Other definitions were rewritten so that they can be
reasoned about, with the same states: the sorted list of `HostHistory` by rank
instead of a sort, the statuses of `MainWindow` as nested signals instead of a
fold, what a client will show in `RfbUpdates` as a function over the messages,
in `RfbEncodings` the search for rectangles as a function over the pixels
and the colour of a drawn pixel as that of the last rectangle that it is in, in
`RfbTight`, `RfbWavelet` and `RfbCompressed` the folds over runs, pixels, levels and
tiles as recursive functions. `RfbTranslate` now takes the number of values of a byte as a
constant and says in its assumption what a pixel format is.

### Only model-checked

* All liveness: `ENABLED` and fairness are beyond the prover.
* `ExitDeadlockHandled` and the other claims that are violated.
* What two algorithms over data compute: `RegionIsSet` and `UpdateIsTiled`,
  whose recursive operators mirror the code's recursion (the prover loses its
  arithmetic in a module that has one). The theorems of the library with an
  operator as parameter cannot be used, so an induction over data has to be
  done anew for each set it is about; `SetInduction` in `Numbers_proofs` is its
  form: a set that holds 0 and what follows each of its numbers holds all of
  them. The other lemmas of that module are about division, which the
  provers do not find by themselves.

## What the code does besides

Met while modelling, in the models or named in their comments as left out, and
not turned into runs of their own.

**Session and window.** A first update that is delivered while the view quits
makes it emit `Connected` after `Disconnecting`, and
`MainWindow::statusChanged()` then uses the null `vnc_view` (`mainwindow.cpp:252`;
the model ends in `crashed`). A view that quits by itself, on an error message,
while its worker goes on connecting can later be destroyed with a call posted
between the two: nothing serves it, `wait(4000)` runs out and the program
aborts. The static error message of an earlier connection can make a new view
quit. `remoteview.h:380` promises that `setStatus(Preparing)` in `Connecting`
emits `Authenticating` and `Preparing`; the code emits `Connecting` first.
`remoteview.h:203` says that `startQuitting()` must not block; it waits for the
mutex, which `run()` holds in the handshake for as long as the server is silent,
then twice for 700 ms, and runs an event loop. A modifier that the destructor releases is
lost when the worker sees `m_stopped` before it drains its queue: the key stays
down at the server. `setCut()` ends view-only mode's
ban on the clipboard (`vncview.cpp:382`). The zoom slider released after the
connection was lost dereferences a null view (`mainwindow.cpp:425`). In the
nested event loop of `startQuitting()` the user can connect again: the old view
is deleted under its own `startQuitting()`, or the new one is orphaned by
`vnc_view = 0` (:232).

**Gestures and keys.** The second press of a double click of the right or middle
button is ignored (`vncview.cpp:533-546`). Events with a negative position are
ignored (:492), so a release outside can be lost; the next one ends the drag.
A timer is set for the time that `elapsed()` must exceed (:482, :508), so one
that is on time can come too early. A combination of
the key menu with a modifier that is down already releases it first and sends
another combination. The physical release of a modifier that the view does not
know to be down releases all that it knows (`UnknownModifierReleased`). Keys
released while another window has the focus stay down, except modifiers.

**Settings.** The migration reads and writes `left_zoom` where it means
`right_zoom` (`preferences.cpp:52-56`), so the right zoom key is not migrated.
Two instances of the program with stale lists give hosts equal positions. A
host that is typed while the first entry is current does not move to the top.

**Updates.** `updateRect` is set once (`vncviewer.c:208`). A change of size
between ServerInit and SetEncodings is never told to the client. With a thread
per client, an update can be sent between the copy in the frame buffer and
`rfbScheduleCopyRegion()`. `clientOutput()` loops without waiting while an
update is pending and not requested (`main.c:452`). `nRects` has 16 bits, and
0xFFFF also announces a LastRect marker.

**Clients and sockets.** `rfbClientIteratorNext()` follows a pointer to a record
that may be freed before its reference is counted (`rfbserver.c:173-195`), and
`rfbClientIteratorHead()` counts none. `clientOutput()` can miss the signals
that its client is closed (`main.c:445`), and `pthread_join()` (:541) then never
returns. `clientInput()` uses `cl->sock` in `FD_SET` (:502) after another thread
closed it, and can then wait in `select()` for ever, since a timeout (:518) skips
the test of :531. Two clients of a desktop that is never shared can close each other.
`rfbWriteExact()` returns with `outputMutex` held when a write returns 0, and
reads `cl->sock` before it takes the mutex; a writer that gives up unlocks
before its caller closes the client. The timeout of `rfbReadExactTimeout()` is
for each `select()`. `WriteToRFBServer()` waits without one.

**Regions and encodings.** `sraRgnIteratorNext()` has `=+ 2` for `+= 2`
(`rfbregion.c:754`). Spans that touch and are equal are not always merged. The
encoders of subrectangles read `seg[i]` before they test `i < w`. Buffers,
palettes and levels of the compressing encoders are static, so two output
threads clash. With ZYWRLE and a quality of -1 or 9 the server uses wavelets
that the client does not undo. A client that mixes zlib and ZRLE loses its one
stream. Decoding errors of ZRLE tiles and errors of its output stream are
ignored (`zrle.c:205` of the client). A change of the quality takes effect at
the client before the rectangles that are under way.

**Colours.** `rfbSendSetColourMapEntries()` always sends colours from 0,
unscaled, and uninitialised ones beyond the count. Three-byte pixels with
tables for each sample read the tables without the factor 3. A frame buffer
replaced during a handshake leaves the client with another format than the
server's. `SetPixelFormat` replaces a table without the update's mutex.

**Cursor.** Two output threads share one buffer for the pixels under the cursor.
A client that gives up shapes sees none until the pointer moves. The empty
cursor is ignored by libvncclient; the last column is never drawn; a null
cursor is dereferenced in `rfbScheduleCopyRegion()` (`main.c:310`). Full colours
of a bitmap are shifted and not scaled; the mask from an alpha channel is one
column off; a converted form stays in the old format after a change of frame
buffer; a shape too large for the buffer fails an update whose region was
subtracted already.

**Scaling.** Widths that the factor does not divide leave columns that are never
sampled; the rounding of doubles can ask for a column too much; a factor above
the width gives a screen without columns and a division by zero. A new frame
buffer neither resizes nor refreshes scaled screens. With a thread per client a
screen is refreshed before it is counted, and counts change under different
mutexes. A request that crosses a change of scale is read in the new
coordinates.

**File transfer.** TightVNC: overlapping downloads share one record; a failed
upload closes the download too, silently; a record is freed while its download
thread runs; a listing with a bad length leaves the name unread; capabilities
are announced even when the transfer is disabled; a cancel before the thread
opened the file is ignored. UltraVNC: a request while a file is open leaks the
descriptor; a failed write ends an upload silently, a short one and a packet that
cannot be uncompressed do not even end it; a packet during a download
stops it; an abort that crosses the end of a file is taken for a question; a
rename without `*` gets no reply.

## What is left

1. *Proofs.* `RegionIsSet` and `UpdateIsTiled`, for which the recursive
   operators would become functions.
2. *Models.* The server with a thread for each client around `RfbUpdates`,
   `RfbCursor` and `RfbScale`, where the observations above name the windows;
   several clients in `TightFileTransfer`; a client that leaves during one.

## Not modelled

* Viewer: drawing, layout and zoom arithmetic; argument parsing (without state;
  its result is the initial states of `VncSession`); Maemo code; the KDE wallet
  (compiled out with `QTONLY`); port numbers and URLs; the length that
  `toUtf8()` gives a clipboard text; the pixel data.
* Library: the parts of libvncserver for HTTP, UDP, chat, extensions
  and recordings; opening sockets; the listing of directories; the
  conversion of colours in ZYWRLE; zlib, LZO (`minilzo.c`) and JPEG, which are
  third-party; the examples, the tests and the terminal server, which are other
  programs.
