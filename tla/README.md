# Verification of juise

juise is an environment for Junos automation scripts. Its web front end, CLIRA, is a
page on which users run commands on devices. It talks to them through **mixer**, a
daemon that multiplexes the RPCs of many clients (browser pages and juise scripts)
over shared, cached ssh sessions. This directory holds TLA+ models of the mixer with
its clients and devices, of the muxer through which a page talks to it, of the parts of
the page and of its apps; the TLC configurations that check them on small instances; and
proofs, for instances of any size, of the safety properties of the mixer, of the muxer and
its refinement of what it promises, of the apps, and of all but one of the page. The
inventory and the plan cover the rest of the repository.

    tlc -workers 2 -config MixerAuth.cfg Mixer.tla          # any Mixer*.cfg
    tlc -workers 2 -config Muxer.cfg Muxer.tla
    tlc -workers 2 -config WebPage.cfg MCWebPage.tla
    tlc -workers 2 -config WebApps.cfg MCWebApps.tla
    tlc -workers 2 -config ClaimRouting.cfg MixerClaims.tla # a divergence
    tlapm MixerSafety.tla          # the mixer's proofs: authentication (on MixerTyping)
    tlapm MixerRelaySafety.tla     # ... what is relayed
    tlapm MixerAnswerSafety.tla    # ... what is answered
    tlapm MuxerSafety.tla          # the muxer's
    tlapm ParserSafety.tla         # the command parser's
    tlapm PageSafety.tla           # those of the rest of the page
    tlapm AppsSafety.tla           # the apps'

## 1. Inventory

### Mixer (`mixer/`)

A single thread runs `main_loop` (`mixer.c`): one pass over the list of sockets
prepares a `poll()` array and closes one socket that has failed, `poll()` waits up
to `POLL_TIMEOUT`, a second pass visits every socket, and `mx_request_check_health`
releases the requests that have ended badly.

| component | state | operations | what makes it correct |
|---|---|---|---|
| websocket (`websocket.c`) | receive buffer, counts of requests made and completed, state | poll, receive, handle each message, relay a reply, report an error, close | a message acts on the request it names and on no other; replies go to the request they answer; a client hears one final word per request |
| request (`request.c`) | `mx_request_list`: state, client, session, channel, muxid, credentials | create, find (by id or muxid), start, restart, error, release by client or by session, health check | a request that waits has its session; every request comes to an end; its memory outlives its channel |
| session (`session.c`) | ssh connection, state, channels in use and released, count of wrong passwords | find, open, check host key / agent / key file / password, close, poll | no credential before trust; established means authenticated; bounded password tries |
| channel (`channel.c`) | state, client, request, end-of-frame automaton | open, reuse, write, read, release, close | a channel is silent when it is handed on; a reply is relayed whole |
| loop and password cache (`mixer.c`) | list of sockets, poll array, cache | main_loop, `mx_sock_close`, cache find and save | always comes round; events go to the socket they were polled for |
| listener (`listener.c`) | listening sockets | accept and spawn | -- |
| database (`db.c`) | host keys, targets, passwords | look up, save | -- |
| forwarder (`forwarder.c`), console (`console.c`), buffers, debug, utilities | buffers | port forwarding, debug shell, logging | bytes in order |

How they interact: a websocket handler calls into request, session and channel
synchronously and never waits; the session poller calls back into the websocket
(`mx_websocket_write`) for each chunk of a reply. The components share memory and
point to each other (request to client, session and channel; channel to client
and request), and the pointers are cleared one by one when an object goes. The
user's answers (host key, passphrase, password) arrive as messages of their own,
any number of passes later, possibly from another client's websocket.

### CLIRA: the page (`web/core/`)

JavaScript runs one callback at a time; what is hard is the order of the callbacks
(replies, timers, scripts, animations, the user) and what they find in the variables
they share.

| component | state | operations | what makes it correct |
|---|---|---|---|
| muxer (`clira.muxer.js`) | `muxMap`, queue until authinit is answered, pending messages until the websocket opens, a partly read frame | open, rpc, slax, answer, data, close, onmessage | an RPC hears one end, after its whole reply; nothing goes out before authentication |
| command parser (`parser.js`, `parser.types.js`) | the readings (possibilities) of a line | extend by a word, drop, score, render, check, run | it finds every reading and no other; a suggestion means what it was offered for; a command in full is that command |
| command files (`parser.js`) | files and prerequisites being loaded, one flag for all | load the list, a script, its prerequisites; merge; reload an app | a load ends whatever comes when |
| running commands (`clira.js`) | the page's muxer; per command what is shown, held back, asked | open a muxer, run, reply, prompts, end | what is shown at the end is the whole reply; the caller hears one end |
| configuration (`clira.js`, `apps/configuration`) | per operation the step it is in; device of the pane | configure, load, commit, rollback, paste | success means that what was loaded is committed; a chain cut short is told |
| forms (`views.js`, `clira.js`, `on-device.js`) | values, errors by kind, counts | focus out, change, choices arrive, reset, execute | the count that enables a button is that of the errors |
| outputs and history (`controllers.js`, `views.js`, `history.js`) | containers, views over each other, history | execute, push, destroy, collapse, close, re-run | the form on top is seen; the history is in order of use |
| preferences (`clira.prefs*.js`) | `localStorage`, the page's copy, open forms | open, edit, save, cancel, clear | what is stored is what was saved |

### CLIRA: the apps (`web/apps/`)

| component | state | operations | what makes it correct |
|---|---|---|---|
| monitor-interface | chosen interface, timer, counts, figures | list, choose, fetch, reply, error, timer | one loop; an error ends it; figures of the chosen interface |
| vcf (virtual chassis fabric) | statistics shown, interval, bars | draw, press, check, tick, reply | one interval when it should be, none otherwise |
| map-mpls-lsp | stage of each run, one map of hosts, dialog | LSPs, locations, names, interfaces, line, statistics | a stage ends when all have answered; points in order |
| app-manager (with `py/app-manager.py`) | per pane its request; a lock file; directories | install, update, wait for the lock, time out | success is told of what is there |
| others | -- | one command each | -- |

### The rest

| component | state | operations | hard behaviour |
|---|---|---|---|
| mod_juise (`mod_juise/mod_juise.c`) | per-connection CGI child, pipes | spawn, write, read, reap, close | child exit, output and connection close in any order |
| juise, juise-askpass (`juise/`, `juise-askpass/`) | options | drive libslax; relay one question | -- |
| jsio, extensions, xmlrpc (`libjuise/xml/`) | table of sessions of a script, read buffer | open, execute, close | end-of-reply marker over several reads; session reuse |
| patricia, parse_ipaddr (`libjuise/data/`) | tree | add, delete, find, next | tree against set of keys |
| fbuf, trace, pid_lock, rotate_log (`libjuise/io/`) | files | lock, rotate | two processes and one lock file |

Behaviours that are hard to test and drive the choice of properties. In the mixer:
overlap of the requests of one client (they all write its state); two requests that
open a session to one device at the same time; a client that leaves while its RPC runs;
an answer that arrives when its request is gone; reuse of a channel with a reply
still to come; a device that drops a connection or a channel in any state;
messages that name a request by muxid only. In the page: replies that come after the
user has gone on; a global that two panes or two runs share; timers armed by a reply
while another reply is out; chains of requests that are cut in the middle; counters kept
up incrementally. `PROJECT.json` lists each with its line. Further hazards, for which
there is no property yet, are in section 5.

## 2. The model

    MixerState  <-- MixerRequests <--+
         ^                           Mixer <-- MixerClaims
         +--------- MixerLoop <------+  ^
                                        MixerTyping <-- MixerSafety
              MixerAnswerSafety --> MixerRelaySafety -------^

    RpcService  <== Muxer <-- MuxerSafety     (Muxer implements RpcService)
         ^
         +-- Commands --+
         +-- Configure -+
         +-- Form ------+
         +-- Prefs -----+-- WebPage <-- MCWebPage <-- PageClaims
             Parser ----+      ^------- ParserSafety <-- PageSafety
             Outputs ---+

    Loader, MonitorInterface, Vcf, MapMplsLsp, LspView, AppManager
                           +-- WebApps <-- MCWebApps <-- AppClaims
                                  ^------- AppsSafety

Of the mixer:

* **MixerState** -- constants, variables, the two lists and their look-ups,
  `mx_request_set_state`, `mx_sock_close` of a session. Ids are only given out
  once and the lists grow at the head, so a list is a set of ids and its order is
  the descending order of ids: `TAILQ_FOREACH ... break` is `Newest`.
* **MixerRequests** -- `mx_websocket_handle_request`: one action per message and
  outcome (`HandleRpcReuse`, `HandleRpcOpen`, `HandlePassword`, `HandleError`,
  `HandleDataOpens`, ...), down to `mx_session_open`, `mx_session_check_*`,
  `mx_channel_netconf` and `mx_request_rpc_send`.
* **MixerLoop** -- `main_loop`: closing, polling, the pollers of websockets and
  sessions (`mx_channel_handle_input`, `mx_websocket_write`), the health check,
  accepting a client.
* **Mixer** -- clients and devices around the daemon, `Init`, `Next`, `Spec`,
  `FairSpec`, the type invariant and the properties.

Of CLIRA:

* **RpcService** -- the abstract specification of what the muxer promises its
  callers: an RPC hears replies and then one of complete, error and close. `Muxer`
  implements it (`ImplementsService`), and the parts of the page that send RPCs are
  built on an `INSTANCE` of it, so that they are checked against the promise and not
  against the frames of a websocket.
* **Muxer** -- one muxer object of a page, its websockets, and the mixer as the page
  sees it.
* **Parser** -- a step is a word typed; then `postProcess`, and `Enter` or a suggestion.
* **Outputs** -- command input, containers, views over each other, history.
* **Commands** -- `runCommand` with a view, without one, and as a stream, and the muxer
  they share.
* **Configure** -- `configure`, `loadConfig`, `commitConfig`, `rollbackConfig`, and the
  panes of "load configuration" that chain them.
* **Form**, **Prefs** -- the fields of a form and its count of errors; preferences and
  the forms that edit them.
* **Loader** -- command files and their prerequisites.
* **MonitorInterface**, **Vcf**, **MapMplsLsp**, **LspView**, **AppManager** -- the apps
  with timers, chains of requests or a server process of their own.
* **WebPage**, **WebApps** -- the parts side by side. They share no variable but the
  muxer, which Commands has; a behaviour is one of some part, its `scene`, and the
  others stay as they were. This keeps one run for all of them without multiplying
  their states.
* **MCWebPage**, **MCWebApps** -- the values TLC uses.

`MixerClaims`, `PageClaims` and `AppClaims` state what comments and README say and the
program does not do. `MixerTyping` and the modules named `...Safety` hold the proofs.

### The mixer's state

`socks`/`sock`, `requests`/`request` and `channel` are the C lists and structs by
id (`None` is NULL). `pc` and `cursor` say where the poll loop stands, `rbuf` the
messages of the receive buffer not yet handled, `reqid` the local variable of that
name, `shifted` whether a close has moved the list against `mx_poll_owner`. Around
the daemon, `inbox` and `peer` are the clients' ends, `prompts` the questions
users see, `device`, `data`, `eof` and `down` the devices' ends. `trusted`,
`authStarted`, `authed`, `got`, `answers` and `tainted` are history: no action's
guard reads them.

### The mixer's grain

The daemon is sequential, so what other processes can see of it changes at system
calls. A step is one message, one chunk of reply on one channel, one socket
visited or one socket closed. Clients and devices act between any two steps, which
is at least as often as they can. Two final states mark behaviour C leaves
undefined or endless: `crashed` (use or double release of freed memory, a NULL
client, a NULL name) and `spinning` (a write that fails forever).

### What the mixer's model abstracts

* A message is a record that arrives whole: framing, attributes and partial
  `recv` are left out. `MaxBatch = 2` in ClaimReqid puts two in one buffer.
* A reply is `ReplyChunks` reads, the last of which completes the end-of-frame
  marker; the automaton of `mx_channel_netconf_detect_marker` is left out.
* A credential is null, empty or some text. Which text is right is the device's
  choice: every attempt may succeed or fail. Agent and key file are outcomes.
* The mixer writes to a client in one go; the client's socket buffer is large
  enough. A write to a client that has gone first succeeds, then fails.
* There is no clock: `poll()` may return with nothing to do (its timeout).
* The database is two sets; SQL and crash recovery are left out.
* A target has one canonical name.

### The muxer

An action is one browser callback or one call of the page; JavaScript runs each to
its end. Muxer starts when `openMuxer` has created and opened a muxer.

| action | code |
|---|---|
| `PageRpc`, `PageData`, `PageCloses` | `muxerRpc`, `muxerSendData`, `muxerClose` |
| `SocketOpens` | `onopen`: `opened`, then the pending messages |
| `SocketCloses`, `ConnectionLost` | `onclose`, and the `onerror` before it: `forceClose` |
| `SocketReceives` | `onmessage` and `muxerMessage`: append, wait for the rest, or dispatch every whole frame; `authinit` runs the queue |
| `MixerAuthenticates`, `MixerReplies`, `MixerFinishes` | what the mixer sends for one message (`websocket.c`) |

`ws`, `opening`, `opened`, `pendingMessages`, `authmuxid`, `authwebsocketid`,
`queue`, `muxMap`, `reading` and `data` are the fields of those names. `ready`
is each websocket's `readyState`; `up` and `down` are what is on it. An RPC is its
muxid; since the queue is first in, first out, the model numbers an RPC when the
page asks for it and not when it leaves the queue. A frame is `FrameLen` pieces, and
a websocket message any number of them up to `MaxPiece`: the stream may be cut
anywhere but inside a header. The callbacks of every websocket share one muxer
object, whichever websocket that has now; the model keeps this, since it is where
an old websocket disturbs a new one.

The refinement maps an RPC to `idle` before it has a muxid, to `asked` until its
first end, and to that end afterwards; whatever frames, queues and websockets do
meanwhile is a stutter.

### The page and the apps

An action is one callback or one act of the user, with everything it calls
synchronously. What goes on outside JavaScript is in the actions' choice: which reply
comes next and what it says, which script the browser runs, which timer fires.

| module | actions and the code they model |
|---|---|
| Parser | `NextToken` extends every reading by a word (`parse`, `parseOneToken`), `EndOfInput` is `postProcess`, `ExecuteCommand` what Enter does with the best; `Render` is the text of a suggestion |
| Outputs | `ExecuteInput`, `MruClick`, `PushView` and `DestroyTop` of forms, `HeaderClick`, `IconClick`, whose animation ends in a step of its own (`SlideEnds`) |
| Commands | `RunCommand` with its muxer, the callbacks `runCommandInternal` gives the muxer (`Replied`, `Completed`, `Failed`, `ConnectionEnds`), and the prompts |
| Configure | `LoadConfig`, `CommitConfig`, `RollbackConfig`, `ClickCommit` of a pane; the device takes or refuses; the callbacks of each RPC of a chain, with a reply in pieces of which one may hold the whole `<rpc-error>` |
| Form | `InsertForm`, `ValueChange` with the checks of the field, `ChoicesArrive`, `Reset`, `Execute` |
| Prefs | opening a form over the dialog (`GeneralPref`, `OtherForm`), `EditField`, `Save`, `CloseForm`; adding a device with its connection check |
| Loader | the list arrives, a script runs and calls `commandFile`, prerequisites run, the delayed merge fires, an app is reloaded |
| MonitorInterface | `fetchInterfaceStats`, its reply, its error, its timer, `onInterfaceChange`, closing the view |
| Vcf | drawing, the button, the checkbox, the tick of the interval, replies |
| MapMplsLsp | the reply of each stage (`LSP`, `location`, host names, interfaces) |
| LspView | the geocoder's answers in any order, the line, the dialog and its statistics |
| AppManager | the page's callbacks and timers; each AJAX request's process on the server, with the check for the lock file and its creation as two steps |

What they abstract: texts, formats, HTML and drawing; a reply is its pieces by number
or what the code finds out about it; words of a command are names and which names they
abbreviate; an error of a field is its kind; an animation is its end; delays are
steps that may come any time later. Of the libraries (Ember, jQuery, Google maps) the
models have only what the code relies on. The variables are the fields and globals of
those names in the code; each module says at its variables what they stand for.

## 3. The runs

All mixer instances have one device: sessions to different devices share nothing but the
loop and the lists, and one device is where sharing happens. Two requests are the
least that overlap, share a session or reuse a channel.

| run | question | bounds | distinct states |
|---|---|---|---|
| mixer_auth | Can messages of two clients, in any order, lead to credentials before trust, an unauthenticated established session, a request whose session was changed under it, or too many tries? | 2 clients, 2 requests, 2 sessions, key file then password, unknown host, `MAX_PWFAIL` 1; a script's request may be answered on another websocket; clients leave at any point | 948 k |
| mixer_relay | Do replies reach the request they answer, whole and once, over reused channels and with clients leaving, devices failing, writes lost? | 2 clients, 2 requests, 2 channels, 2 chunks per reply, all faults but reset | 761 k |
| mixer_strangers | Clients with the same muxid: data and error messages about another client's request at every point of its life, the poll array out of step with the list. Are completions counted right and final? | 3 clients (the third is needed to move the list under a websocket whose other end is gone), 2 requests, 1 extra message, `create="no"`, resets | 874 k |
| mixer_progress | Is every RPC answered? | 2 clients, 2 requests, password and host key with refusals, connect and handshake failures, under `FairSpec` | 39 k |
| muxer | Does every RPC hear one end, after its whole reply, however frames are cut, connections are lost and old websockets interfere? Does the muxer implement RpcService? | 2 RPCs, 2 websockets, 1 data message, 1 reply frame each, frames of 3 pieces, up to 4 pieces in a message, under `FairSpec` | 144 k |
| web_page | Each part of the page by itself, in its scene | below | 652 k |
| web_apps | The loader and each app, in its scene; the loader under fairness | below | 364 k |

The bounds are named constants that appear only in guards that create things
(`MaxSock`, `MaxClient`, `MaxRequest`, `MaxChannel`, `MaxExtra`, `MaxBatch`; `MaxRpc`,
`MaxSocket`, `MaxData`, `MaxReply`, `MaxPiece`; those of the page and the apps below).
Every action of every next-state relation happens in at least one of these runs. The
muxer needs two websockets for one to be closed under the other, and two RPCs for one to
wait while the other ends.

The scenes of the page:

| scene | bounds, and why they are enough |
|---|---|
| parser | inputs of up to 3 words out of 6, two sets of 2 commands: abbreviations that fit two arguments, an argument that takes any word, an enumeration in a bundle, `multiple`, a command that is the beginning of another. Three words are a keyword, its value and one more |
| outputs | 3 outputs, 1 form over each, 3 inputs (a command, an unknown one, `clear`); three outputs are the least in which one is between others |
| commands | 2 commands of 3 kinds, 2 muxers, replies of up to 3 pieces (the third is the first to be held back) |
| configure | 2 operations on one device, each of up to 3 RPCs: one operation between two steps of the other |
| form | 3 fields (text with pattern and range, number with choices, plain mandatory), 4 events: an error of each kind raised and cleared with another in between |
| prefs | 2 preferences with 3 values, 2 forms, 2 edits, 1 known device: two forms over one global |

The scenes of the apps:

| scene | bounds, and why they are enough |
|---|---|
| loader | 2 loads of 2 files, one with a prerequisite; the second load overlaps the first |
| monitor | a physical and a logical interface, 4 fetches, counters up to 2: a late reply, a timer and a change of interface at once |
| vcf | 4 requests, 4 intervals |
| map | 2 runs, 2 addresses, 2 LSPs: one run enlarges the map while the other counts |
| view | 3 points, 2 hosts, 2 polls |
| manager | 1 app, 1 pane, 4 requests: an installation, one told to wait, the check, the next |

`poll()` always returns, so the loop can always take a step, and MixerProgress checks
that there is no deadlock. In the other mixer configurations the
daemon may reach `crashed` or `spinning`, its two final states; the muxer, the page and
the apps may have nothing left to do when a bound is reached or the user does nothing.
They set `CHECK_DEADLOCK FALSE`.

### What the properties say

Mixer:

* `TypeOK`; the lists hold only ids that were given out.
* `NoCredentialsBeforeTrust`, `EstablishedIsAuthenticated`: history against state.
  Session states are written through `mx_request_set_state` by whatever happens to
  a request, and by the health check, so they do not follow from any one function.
* `StatesAgree`: a waiting or running request has its session, in its own state or
  failed. Two requests may open sessions to one target at once; one must not
  advance the other's.
* `PasswordAttemptsBounded`: over several prompts and requests.
* `ChannelCarriesItsRequest`, `ReplyRouting`, `CompleteIsWhole`: what waits in a
  channel belongs to its request; what is relayed under a request's name is its
  reply; "complete" comes after all of it. They hold as long as no client left
  during its RPC (`tainted`), and ClaimRouting shows that this matters.
* `ChannelHasItsRequest`: a channel's request is not freed under it.
* `CompleteIsFinal`, `CompletedWereMade`: a client's bookkeeping.
* `EveryRequestAnswered`: liveness.

Muxer:

* `OneEnd`: an RPC of a page hears one of complete, error and close, once and last.
  The mixer may report an error twice, and a close may follow either.
* `WholeReplies`: the reassembly loses and repeats nothing.
* `AuthFirst`: what waits for the answer to `authinit` waits on every path, also when
  data from a view reopens a websocket that was closed.
* `EverySentIsTold`: liveness of the muxer, for RPCs that left the queue.
* `ImplementsService`: the refinement of RpcService.

Page:

* `FindsAllReadings`: the readings that `parse()` finds by extending those of the words
  before are all there are, by a definition that looks at the whole input.
* `KeptStandForAll`: dropping readings loses no command and values, and shows none twice.
* `SuggestionsParse`: what a suggestion puts into the input parses to what it stood for.
* `FullySpelledWins`: no abbreviation beats a command typed in full.
* `MruIsRecency`: the pulldown is the history without repetition, latest first.
* `TopFormIsVisible`: among the forms pushed over an output, the last one is seen.
* `TrueIsWhole`, `EndsAreHeard`: a caller told of success has the whole reply, as has the
  view; it hears one end. The exceptions the property names are what the code does: a
  partial reply before an error, no view for an alert.
* `TrueIsCommitted`, `ConfigEndsAreHeard`: the same of `configure`, whose load and
  commit other operations come between.
* `FieldTellsErrors`: the errors of a field are those of its value and its count theirs.
* `PrefsAreStored`: the page runs on what is stored, and what is stored was entered.

Apps:

* `OneLoop`, `ErrorStops`: one timer, of the chosen interface, and none after an error.
* `AverageBelowPeak`: the running average over a count that is shared and restarted.
* `OneInterval`: two controls, one interval.
* `NamesBeforeInterfaces`: a stage that ends by counting ends when nothing is out.
* `LineFollowsLsp`: answers in any order, a line in the order of the path.
* `SuccessIsInstalled`: what a pane says against what is on the server's disk.
* `LoadsResolve`: liveness of the loader.

### Fairness

The mixer's `FairSpec` assumes weak fairness of the daemon as a whole (it is one thread,
and `poll()` has a timeout), of each device's reply to an RPC it was sent, and of each
user's answer to a prompt. Nobody has to connect, to send or to leave. Weak
fairness of `Daemon` is enough as a pass is finite: every step of it removes a
message or a chunk or moves `cursor` down the list. Faults that the code has no
answer to (a lost write, a lost connection under a shared session) are not in this
run; ClaimAnswered shows the second.

The muxer's `FairSpec` assumes that the browser delivers the events of each
websocket (open, message, close) and that the mixer answers each message on an open
one. Connections are never required to fail, nor the page to do anything.

`WebApps!Spec` assumes for the loader that a browser runs a script it has fetched and
fires a timer, and that the web server answers the request for the list. It assumes
nothing of the apps: no property of theirs needs it.

### Divergences

Runs that end in a violation, one for each, exhibit a disagreement between code and text:

| run | what the repository says | what the run shows |
|---|---|---|
| claim_reqid | websocket.c:588 "If no request id is passed in, then use the muxid to find the request" | `reqid` keeps the value of an earlier message in the buffer |
| claim_routing | mixer/README:66-67 mixer "sends it back to the browser for the browser to handle it"; mtypes.h:107-109 the request caches what it takes "to properly send the results to the client" | after a client left, its reply is relayed as the reply to the next request on the channel |
| claim_answered | clira.muxer.js:261-262 "oncomplete: callback function when the reply is complete", "onerror: callback function when bad things happen" | a request on a shared session is never told when the session is lost |
| claim_paste | configuration.js:221 "Remote taget to load configuration to" | a pane's text goes to the device of the pane opened last |
| claim_shown | monitor-interface.js:406-408 the flag lets "an existing fetchInterfaceStats routine know that the interface selection has changed and it needs to return" | the figures of the interface that was left, under the name of the one chosen |

The modules of claims state more that TLC refutes in the same way; they have no run
in `PROJECT.json`, which keeps one for each part:

| property | what the code does |
|---|---|
| `MixerClaims!FailedIsClosed` | the health check sets a failed session to normal; it stays on the list |
| `MixerClaims!LoopComesRound` | a failed write to a client is repeated forever |
| `PageClaims!ParseLosesNothing` | objects have no `length`, so data with fewer keys counts as the same, and a reading with other values is dropped |
| `PageClaims!CloseHidesOwn` | closing a failed command toggles the element that has its number as id, which is another command's |
| `PageClaims!StatusTellsLoad` | a refusal whose `<rpc-error>` comes in two pieces is told as success |
| `PageClaims!EnabledOnlyWithoutErrors` | handlers of one event add to the same count of the form, of which the binding keeps the last, and mandatory fields are counted twice: the count drifts from the errors |
| `PageClaims!SaveStoresOwn` | Save of one form stores the values of the form opened last |
| `AppClaims!DoneMeansLoaded` | one boolean for all files: a load resolves while another file waits for its prerequisites |
| `AppClaims!ReloadReplaces` | the file is taken off its list; the commands its old program registered stay |
| `AppClaims!HiddenHasNoBars` | a reply that comes after "hide" draws the bars again |
| `AppClaims!TextsTellBars` | an update sets the heights and the texts of one direction only |
| `AppClaims!InterfacesBeforeMap` | replies are counted twice, so the map is drawn before all interfaces are known |
| `AppClaims!OneInstaller` | the lock file is looked for and then created: two processes hold it |

Further divergences seen while modelling. In the mixer: a data message for a request
whose client left authenticates to a host nobody accepted (session.c:111); after a
session failed to open, the client is told twice (request.c:278 after session.c:501); the
password cache is written under the name of the device and read under the full target
(session.c:384), so it never hits; mixer/README:70-71 says any future request uses the
connection already negotiated, but a newer session to the target that has not been
authenticated yet hides it. In the muxer: RPCs still queued when the connection fails are
never told, because `forceClose` goes through `muxMap` only (clira.muxer.js:158), and the
first callback that throws ends its round; the `onclose` of an old websocket makes the
muxer forget the new one, and what is pending then goes nowhere. In the page:
`prefsChangeMuxer` is never called; the error callback of `runCommand` hands a jQuery
object to `parseRPC`, which throws, so "Fatal RPC error" is never shown; a reply to a load
that cannot be parsed throws, and its caller is not told; a preference that is cleared
keeps its old value; the autocomplete field waits a fixed delay for choices. In the apps:
the monitor's timer goes on after its view is closed; statistics of one host may be shown
in the dialog of another; the intervals of `animateCircle` are never cleared; an AJAX
request gives up after ten seconds while its process installs on;
`installFromWebServer` removes the app, and then always fails.

## 4. The proofs

All bounds are arbitrary, so the theorems hold for any number of clients, sessions,
requests, channels and messages; of RPCs, websockets, frames and pieces; of fields,
preferences, containers, commands and operations; of intervals, fetches, runs, addresses,
points, panes and apps. Nothing else is assumed than what each module says of its
constants:

| module | assumption |
|---|---|
| MixerState | `ConstantsAssumption`: bounds are natural numbers, a reply has at least one chunk, option sets are subsets of what the model knows |
| Muxer | `MuxerAssumption`: bounds are natural numbers, there is a websocket, a message has room for a piece, a frame is more than its header |
| Commands, Configure, Form, Outputs, Prefs | bounds are natural numbers, kinds are those the model knows, a form has finitely many fields, no device or pane is the absent one, defaults are values |
| Parser | `ParserAssumption`: commands and arguments are of the shape the command files give them, a word is not empty. `WordsAssumption`: a command says no word twice, only its words are keywords, a word typed in full is the beginning of itself. `ArgumentsAssumption`: no argument is declared twice, and between a word and an argument without a name that is called the same there is no other argument without a name |
| Loader, MonitorInterface, Vcf, MapMplsLsp, LspView, AppManager | bounds are natural numbers, there are finitely many addresses, "all" and "none" are no interfaces |

Each theorem about a run's property is `Spec => []property`, by an inductive invariant that
implies it. Where a theorem has a hypothesis it is about which messages clients send, and
this section says why it is there.

### The mixer

* **MixerTyping**: what the operators return, given well-typed arguments (`SetState`,
  `CloseSession`, `OpenOutcomes`, `SendRpc`, ...), that each step of the
  environment, of the loop and of the message handlers keeps the types, and the
  theorems `TypeInvariant == Spec => []TypeInv` and
  `TypeCorrect == Spec => []TypeOK`. `TypeOK` is not inductive: a message handler
  follows the pointers of the request it continues, which are NULL for requests of
  clients that left. `TypeInv` adds `WaitingIsAttached`: unless the daemon has
  crashed, a request that waits for its user has its client and a session.
* **MixerSafety**: `SafetyInv`, inductive together with `TypeInv`, and from it
  - `SessionsStayWithTheirRequests` (`StatesAgree`),
  - `PasswordTriesAreBounded` (`PasswordAttemptsBounded`),
  - `TrustComesFirst` (`NoCredentialsBeforeTrust`), without data messages,
  - `EstablishedMeansAuthenticated` (`EstablishedIsAuthenticated`), without data messages.
* **MixerRelaySafety**: `CarriesInv`, inductive together with `SafetyInv`, and from it
  - `ChannelsCarryTheirRequest` (`ChannelCarriesItsRequest`),
  - `RepliesGoToTheirRequests` (`ReplyRouting`).
* **MixerAnswerSafety**: `BasicInv`, and on it `AnswerInv`, `CountInv` and `OwnInv`, from which
  - `CompletionIsTheOnlyAnswer` (`CompleteIsFinal`), without data messages,
  - `CompletionIsWhole` (`CompleteIsWhole`), without data messages,
  - `NoMoreCompletionsThanRequests` (`CompletedWereMade`),
  - `ChannelsKeepTheirRequest` (`ChannelHasItsRequest`), without data and error messages.

Authentication. `StatesAgree` breaks if two requests point to one
session, so `SessionsAreOwn`: `mx_request_start_rpc` does not record the session in
a request that reuses one, which makes every recorded session that of one request.
Setting the state of a client must not set that of a session, so `KindsAreKept`:
ids are not reused. `FailuresCounted` says that a session that may still be tried
has a try left. `TrustIsGiven` carries trust from the host key's acceptance to the
answer to a later prompt. `ErrorsAreDetached` and `EstablishedRequests` say what
the health check may mark established. The last two theorems need the hypothesis
that clients send no data: `mx_session` then opens sessions for requests whose
client is gone, which skips the question about the host key. `QuietStep` and
`StillStep` deal once with all steps that open and authenticate no session.

Relaying. What waits in a channel is more than one state of it: the device's replies to
come, the chunks that have arrived, the request, the end-of-frame flag. `CarriesInv` says
of every channel that no client left during its RPC (`tainted`) that these together are at
most one reply, to the request of the channel, with nothing behind its last chunk; and that
a channel that is not in use is silent, so that it can be handed on.

Answers. A step of the mixer is of one of three kinds (`Kinds`): it sends no RPC and
completes none (`Winds`: channels only shrink, requests only lose what they have), or takes
a request or goes on with one, and perhaps sends its RPC on one channel (`Starts`), or
relays the last chunk of a reply (`Completes`). Each handler is shown to be of its kind
once, and each invariant is then shown to survive three kinds instead of every handler.
`AnswerInv` says that a request that waits for its user has no answer and nothing
on a channel (`WaitsUnanswered`); that a request whose reply is relayed has none either,
as its session was not closed (`RunsUnanswered`); that one that is completed is gone
(`CompletedIsGone`); that the reply to a request comes on one channel (`RepliesApart`).
`CountInv` bounds the completions of a websocket plus the requests it may still be told
of by those it made. `OwnInv` says that a channel in use, its request and its client
point to each other, and that requests that wait or have failed have no channel: those
are the ones the health check and a closing session free.

Data and error messages name any request by its muxid. A data message makes `mx_session`
open another session for a request that has one, and with it the request may wait again
while a channel runs it; an error message frees a request under its channel. The invariants
above are then not kept, and mixer_strangers checks `CompleteIsFinal` with one such message
instead. `NoMoreCompletionsThanRequests` holds with all of them.

### The muxer

**MuxerSafety** has five theorems without hypotheses.

* `MuxerIsTyped` from `TypeInv`, which tells what was sent from what may be sent.
* `OneEndIsKept` (`OneEnd`) from `EndInv`: an RPC in `muxMap` or in the queue
  has had no end, and none is in both. `EndStep` says what every step does
  to the ends, and `DispatchEnds` that the frames of a message end each RPC once, as
  the first end takes it off the map.
* `MuxerIsAService == Spec => ImplementsService`: the initial states map to those of
  RpcService; every step ends the RPCs of a set (none, mostly), or asks for one, or is a
  stutter of the abstract specification, by `EndInv` again: what ends was asked for and
  has not ended.
* `AuthComesFirst` (`AuthFirst`) from `AuthInv`: until the muxer is dropped there is one
  websocket, whose stream is whole frames and holds an answer to `authinit` only after
  one was sent (`Online`); afterwards new websockets come only for data messages, and
  nothing runs what the queue still holds (`Offline`).
* `RepliesAreWhole` (`WholeReplies`) from `WholeInv`: until the muxer is dropped, what an
  RPC was told and what is still in the stream for it (`Relayed`, over `WholeFrames(Stream)`)
  are the reply in order; afterwards what is left of the first websocket's last frame does
  not pass for the beginning of what another websocket brings (`StaleInv`).

The stream is cut anywhere, so these rest on lemmas about frames: whole frames in a
concatenation are those of the first part and then of the second (`FramesConcat`), reading
takes them off the front (`FramesAreCut`), and a dispatch tells as many callbacks as there
are frames (`CallbacksAreCounted`, `DispatchCounts`). They are by arithmetic on positions,
since the model picks the frames of a stream by their position and not by recursion.

### The command parser

**ParserSafety** begins with what folds compute. The operators of Parser and Outputs are
folds (`FoldLeft`, `FlattenSeq`), which the community modules define by a recursive function
on sets. `IterExists` shows that such a function exists, by the least number for which it
would not; from it come `Flattened` (where the elements of a flattened sequence
are), `MruRecency`, `StandForStep` and the like. On these rest three theorems:

* `ShownStandForAll` (`KeptStandForAll`): at each place of the list `postProcess` walks,
  what is kept stands for what was seen (`StandFor`). Two readings are compared by the data
  of the first only, so which of them is kept depends on the order; what is proved is
  that nothing is lost that is not given by one that is kept.
* `WordsTypedWin` (`FullySpelledWins`) from `WordsInv`. A word earns a reading at most 35
  points, and that many only as a word of its command, said in full and in its place
  (`ScoreGrows`). So after n words no reading has more than 35n, one that has
  as many says exactly the first n words of its command (`Scored`), and each command that
  begins with these has such a reading (`FirstOf`), which is the first of that command, so that
  `postProcess` keeps it and not another of the same data. Missing keywords then cost
  five points each, so the best is a reading of a command that is no longer than the input.
* `ReadingsAreFound` (`FindsAllReadings`) from `ReadingsFound`: each possibility stands for
  a reading and each reading is stood for. `ReadingGrows` says that the readings of one
  more word are those of the words before with one role that fits (`RoleFits`);
  `NewReads`, that `NewPossibilities` finds just these roles; and `TakenFor`, that the
  reading a possibility stands for can be read off its matches.

`WordsAssumption` and `ArgumentsAssumption` are what the command files of the repository
keep to. Without the first a command that says a word twice could never be said in full, as the
parser takes the word for the one it has seen. The second
is what makes `missingPreviousNokeywords` and the order of arguments say the same: the
code lets an argument without a name come early if an earlier argument is called as it is
("show location", whose argument is `location`).

### The page

A step of WebPage is one of a single part, so **PageSafety** has an invariant for each part,
and `PageInv` is their conjunction, with `ParserTypes` for the parser.

* `PreferencesAreStored` (`PrefsAreStored`) from `PrefsInv`: the page's copy is what is
  stored; all preferences are stored or none; any form's values are values that were
  entered, as Save may take them from any form.
* `FieldsTellTheirErrors` (`FieldTellsErrors`) from `FormInv`: a field's count is the
  cardinality of its errors, whatever order checks come in.
* `TopFormsAreVisible` (`TopFormIsVisible`) from `OutputsInv`: pushing, destroying and
  toggling over a history that grows at the front.
* `SuccessIsWhole` and `CommandEndsAreHeard` (`TrueIsWhole`, `EndsAreHeard`) from
  `CommandsInv`: what is shown of a command is told by what has come of its reply and by
  the prompt it may be held back by; and a command is forgotten by its connection only
  behind one whose callback made `forceClose` throw (`Forgotten`).
* `SuccessIsCommitted` and `ConfigurationEndsAreHeard` (`TrueIsCommitted`,
  `ConfigEndsAreHeard`) from `ConfigInv`: an operation has one RPC at a time (`OneStep`);
  what a load put into a candidate is still there, or committed, or was rolled back by
  another operation (`LoadThenCommit`); a pane waits for one operation (`OneWaits`).
* `RecentIsRecency` (`MruIsRecency`) from `HistoryInv`: what the list was made from is the
  history, but for a history that has been cleared since. `MruRecency` is what the fold
  gives: each input once, and by last use.
* `PageIsTyped` (`PageTypeOK`) from the above and `OutputsBounds`, `CommandShapes`,
  `ConfigureTypes`, `FormCounts`, `PrefsTypes`: a command that has shown a piece has been
  sent it, in the state its callbacks are in; an RPC of a chain that is out is one of an
  operation and for a device; the count of a form's errors is a sum over its fields, which exists
  as they are finitely many (`SumExists`, `SumIsInt`).

### The apps

**AppsSafety** proves the eight safety invariants of WebApps, each from an inductive
invariant over the variables of one app.

* `IntervalsAreCleared` (`OneInterval`) from `VcfInv`: the one interval that
  runs is that of `updateInterval`. The count alone is not inductive, since the controls
  clear what the variable names.
* `OneTimerAtMost` (`OneLoop`) and `ErrorsEndTheLoop` (`ErrorStops`)
  from `MonitorInv`: while the list of interfaces is asked for nothing else is under way,
  and what is armed is armed about an interface. `FetchArmsOne` says that a fetch arms the
  one timer, having cleared the one before; `NoneIsLeft` that clearing leaves none.
* `AveragesStayBelowPeaks` (`AverageBelowPeak`) from `TrafficInv`: the figures that are
  known are natural numbers in both directions. `AverageIsBounded` is the arithmetic: the
  quotient of an average's new sum is at most the higher of the old peak and the new value.
* `HostsAnswerFirst` (`NamesBeforeInterfaces`) from `MapInv`: what was counted
  and what is still out are together no more than the map has entries. The map only grows
  (`MapGrows`), whichever run adds to it, so when the count reaches the size of the map
  nothing is out.
* `LinesFollowTheLsp` (`LineFollowsLsp`) from `LineInv`, with `PathIsInOrder`: what the sort
  of the points gives, whatever order they came in.
* `SuccessIsTrue` (`SuccessIsInstalled`) from `ManagerInv`: whatever is being
  reloaded, and whatever a process of an installation or an update has answered, is on
  the disk. `StepKeeps` says once what all steps keep; `ProcessStep` is its use
  for the server, `PaneIsTold` and `PanesStay` for what a pane shows.
* `AppsAreTyped` (`AppsTypeOK`): most of it is no invariant of its own. That the
  monitor's count stays below its bound takes that a reply is counted once
  (`MonitorTypes`: counts and RPCs out are no more than what was sent); that the map's
  does, that what a run counted and twice what it waits for are at most
  twice the addresses (`MapTypes`); that a line's points are those of the LSP, `ViewTypes`.

### What is only model-checked

* `SuggestionsParse` of the parser: it compares values that are selected from a sequence
  (`SelectSeq`, a RECURSIVE operator, of which the prover knows nothing) over a text that
  is read again from its beginning.
* `EveryRequestAnswered`, `EverySentIsTold`, `LoadsResolve`: liveness under fairness.
* `CompleteIsFinal` when clients send data messages (mixer_strangers, with one of them).

## 5. Not modelled, and the plan

Next, in this order:

1. Proofs: `CompleteIsFinal` and `CompleteIsWhole` of the
   mixer for clients that send data messages, from an invariant over which requests such
   a message makes wait again; that the parts of the page built on RpcService make only
   its steps; `SuggestionsParse`, with the values as a fold instead of a selection and with
   what it needs of the command files (no enumeration without a name, for one).
2. **NetconfMarker** -- the automaton of `mx_channel_netconf_detect_marker`
   (channel.c:443) as a recursive function, against "the marker occurs in the input".
3. **Frames** -- the framing of `mx_websocket_handle_request` (websocket.c:534) for every
   way to cut a stream, including headers (a header that is cut gives `muxerMessage` a
   length of zero, clira.muxer.js:191, and its loop does not advance).
4. **CgiChild** (mod_juise), **Jsio** (session table and read buffer), **PidLock**,
   **RotateLog**, and **Patricia** against sets of keys.

Hazards outside the models, beyond those in `PROJECT.json`: `mr_hostkey` is freed twice
when a request is restarted (request.c:369); the assertion on `MAX_POLL` (mixer.c:193);
a health check that is late by the timeout of `poll()` (mixer.c:278); a host key that is
deleted and inserted in two statements (db.c:153); the password cache's two names
(session.c:384); two daemons and one pid file (pid_lock.c); the reaping of CGI children
(mod_juise.c).

Not planned: option parsing, logging, formatting, XML and text handling, layout and
drawing, packaging and vendored code. They keep little state, and unit tests
reach what there is. The forwarder is started from the command line only and
CLIRA does not use it. Of the page, checkboxes, selections and radio buttons have no
errors to count, and the grids of the preferences are a library. `PROJECT.json` gives the
reason for each component.
