# TLA+ specifications of web-tn-multiplexer

web-tn-multiplexer is a terminal multiplexer: a Node.js server keeps shells in
PTYs, arranges them as workspaces, tabs and split panes, and serves browsers, a
TUI and a command line tool over one WebSocket protocol.  This directory holds
TLA+ modules of its core, TLC configurations that check them on small
instances, and proofs that TLAPS checks for every instance.  Paths below are
relative to `src/packages/`; `server/` stands for `server/src/`.

    tlc -workers 2 -config service.cfg SessionService.tla   # one run
    tlapm SessionModel_proofs.tla                           # one proof module

`PROJECT.json` lists the runs, the lines each definition models (`map`), the
hazards and the properties that cover them, and for every property a mutant: a
plausible bug (an operator named "Mutant" in a comment just before the
definition it replaces) with which TLC finds that property violated.

## 1. Inventory

The server is one process with one event loop: a turn of the loop is atomic,
and whatever is interesting happens at `await`s, timers, callbacks and at the
borders with shells, clients and files.

| Component | State | Operations | Talks to |
|---|---|---|---|
| Session model (`server/session/SessionModel.ts`) | maps of workspaces, tabs, panes; orders; active and focused elements; id counters | reserve and commit, split, close, move, swap, replace, zoom, focus, reorder, groups | called by the service only |
| Layout tree (`server/session/LayoutTree.ts`) | the binary tree of a tab | split, remove, insertAtEdge, swap, setRatio, resizeBy, neighbor, cycleOrder | pure, called by the model |
| Session service (`server/session/SessionService.ts`) | openings that await a shell, records of command panes, caches | every session RPC; exits of shells; restore | model, TerminalManager, EventBus, PersistScheduler |
| Saving (`server/session/PersistScheduler.ts`, `server/persist/`) | debounce timer, save under way, chained save; lock file | touch, flush, cancel; acquire, release | called by the service and the shutdown |
| Output path (`server/terminal/*`, `server/ws/*`) | mirror queue, pause flag, handoff hold; per client a subscription state and a buffer | data, drained, subscribe, unsubscribe, retryStale, hold, release | PTY, xterm mirror, sockets |
| Terminal input (`server/terminal/TerminalHost.ts`) | backlog of input, modal queue | writeInput, writeModal, closeInput | sockets, agent RPCs, PTY |
| Size authority (`server/clients/SizeAuthority.ts`) | owner of each tab's size, attachments of panes | noteInteraction, onViewChanged, onFitChanged, onKindChanged, onClientGone, attach, detach | model, client registry |
| Handoff (`server/handoff/`, `server/pty/AdoptedPtyProcess.ts`) | panes held, phase | run, hold with timeout, rollback, execve, adopt | terminal hosts, scheduler, lock |
| Graph (`server/graph/`, `server/persist/GraphStore.ts`) | per link a trigger, per supervisor a notifier, targets assumed busy, sends under way; the stored graph and its queue of changes | status and availability of agents, tick, changes of the graph, stop, start | agent monitor, prompts, other machines, the graph file |
| Agents (`server/agent/`) | trackers, names, launches | judge, update, start, prompt | processes, screens, model |
| Questions (`server/ask/AskService.ts`) | questions by pane and by id, subscribers | open, answer, cancel, client gone | bus, RPC |
| Machines (`server/machine/`) | links to other machines | connect, relay, retry | ssh, sockets |
| Client connection (`client-core/src/net/`) | socket, target generation, timers; held input | connect, retarget, disconnect, reconnect; send, hold, release | WebSocket, stores |
| Web and TUI stores (`web/src/store/`, `tui/src/model/`) | a copy of the session, kept from events; views | apply snapshot and events | connection |

What is hard, and what makes each part correct:

* **Session service.** Opening anything starts a shell and waits a grace
  period; meanwhile any other call or exit comes in.  The model must stay
  consistent, no shell may run without its pane and no pane stay without its
  shell, an empty session must be on its way to a new workspace, and clients
  that follow the events must have the server's structure.
* **Session model.** Long sequences of legal calls over six maps that must
  agree.
* **Layout tree.** It must hold the tab's panes once each, remove what was
  split, and its answers must agree with what is on the screen.
* **Saving.** Timer, chain, cancel and flush interleave with saves that fail; a
  flush must mean "on disk".
* **Output path.** The mirror lags behind the output; a client joins, falls
  behind and comes back; flow control and a handoff both stop the reading.  No
  client may see a gap or a repetition, nobody may stay cut off.
* **Terminal input and input gate.** What is typed passes a gate that holds it
  while a pane opens or an image is pasted, then a queue that waits for modal
  input.  Requests, time limits and exits end all that in any order.  Programs
  must read it in the order typed, modal input whole, and nothing may stay held.
* **Client connection.** Session checks, timers and closes of sockets arrive
  after the decision that asked for them is void.  One socket; whoever is told
  that a connection is being made gets one; disconnected means disconnected.
* **Size authority.** Exactly one client that may decide decides, and sizes
  follow, while clients change what they are and panes what tab they are in.
* **Handoff.** All panes held, or all released; nothing lost across `execve`, of
  which only descriptors and two files are left; a number that is free again is
  handed out again.
* **Graph.** One report of an agent makes several links decide in one turn; a
  send takes several turns, in which its link may go, be paused or used up.  A
  completion is sent once or skipped with a reason, nobody sleeps on beside a
  free target, one prompt at a time goes to an agent, limits hold.
* **Questions, lock.** Closed once, held once.

## 2. Plan

Modules in order of importance; all but the last two lines are done.

1. `PersistScheduler` - saving; its proofs are Part 1 of `Durability_proofs`.
2. `IdList`, `SessionState`, `SessionModel`, `*_proofs` - the session model.
3. `SessionService`, `SessionService_proofs` - the service around the same operators,
   with the PTYs and a client's replica.
4. `LayoutTree`, `LayoutList` - the tree, and the list of panes it implements;
   `SessionState` uses the list, so the two compose.
5. `OutputPath`, `OutputView` - output, and the view it promises to a client; its proofs
   are Part 1 of `Terminal_proofs`.
6. `Connection`, `Connection_proofs` - the socket of a client.
7. `InputGate`, `TerminalInput`, composed by `InputPath` - input from keys to PTY; its
   proofs are Part 2 of `Terminal_proofs`.
8. `SizeAuthority`, `SizeAuthority_proofs` - who decides sizes.
9. `TriggerState`, used by `GraphEngine`, `GraphEngine_proofs` - links between agents.
10. `Handoff` - the server that replaces itself; its proofs are Part 2 of `Durability_proofs`.
11. Next modules: the lock of the state directory with two processes; in the modules that
    exist, restore at startup, the exit of a PTY inside the output path, changes
    to an existing link.

## 3. Modules and the code

### PersistScheduler

The session is a version number; a save writes the version at its start.
A promise is what waits for it: `running` saves, continuations `after` a save,
continuations that are `ready` to run.  Between the settling of a save and the
run of its continuation any other call may come: the code's `.then` runs some
microtasks later.  Actions: `Touch`, `TimerFires`, `CallFlush`, `Cancel`,
`SaveSucceeds`, `SaveFails`, `ContinuationDropped`, `ContinuationSaves`; the specification
is `SaverSpec`, so that one module can extend this one and `Handoff`.
`excused` is a history variable: the newest version was cancelled or its save
failed - the code does not save again before the next touch.

### IdList, SessionState, SessionModel

`SessionState` has the operations of `SessionModel.ts` as operators from model
to model, on one record: `order`, `tabIds`, `wsOf`, `leaves`, `zoomed`, `tabOf`,
`active`, `focused`, `focus` and the counters.  A map is a total function with
None (0) or the empty sequence outside its domain.  A tab's layout is the list of its
leaves: that this list is what the tree gives is `ImplementsList` below.
`Consistent` is the agreement of the maps.  `SessionModel` is the state machine
whose steps are these operations in any order, with reservations that are
committed later or given up.

### SessionService

`ops` holds the openings under way.  An opening takes three turns: the call
(`CallCreateTab`, ...), the moment its place is known and the shell starts
(`PlaceKnown`, `SourceGone`), the end of the grace period (`SpawnEnds` with the
shell alive or already exited with 0, `SpawnFails`, `SpawnOrphaned`).  All other
RPCs are one action.  `ShellExits` is `wireExit`.  A close that empties the
session starts an automatic workspace in the same action (`RecreateIfEmpty`).
`terminals` are the panes with a shell, `editors` what command panes restore,
`rep` the copy of the structure that a client keeps from the events
(`web/src/store/session.ts`); events are applied in the order they are published.
`skewed` records that a split ended in another tab than the one it had read.
A group closes one workspace per turn (`CallCloseGroup`, then `GroupCloses` or
`GroupEndsEarly`; `closing` is what is left of it); which workspaces belong
together is data, so any set of them may.

All operations in one behaviour are too many to explore: a behaviour draws its
calls from one of the sets in `Menus`, and shells start, fail and exit in all of
them.  In those that are also in `Crowded` two openings may be under way at once.

### LayoutTree, LayoutList

The tree of one tab with split ids, directions and ratios; each operation of
`LayoutTree.ts` as an operator, recursive where the code is.  `place` is the
TUI's `computeLayout`, whose frames say what is left of, above or next to what.
`LayoutList` is the same tab as a list of panes: what `SessionState` assumes.

### OutputPath, OutputView

Output is counted in chunks of one size.  `produced` by the program, at most one
chunk `inStream` (the read buffer), `written` to the mirror and pushed to the
clients in one turn, `parsed` by the mirror.  A mark is an empty write with a
callback: the snapshot of a subscription (`current`, `replaced` by a second
subscribe, or `void` once its generation has passed) or the flush of a handoff.
`view[c]` is the last chunk that what was sent to client c shows, or Broken if a
chunk did not follow on it.  `HostReads` is `onData`, `MirrorParses` and
`MarkFires` are the mirror's write callbacks with the `onDrained` listeners
(`Drained`: resume, `retryStale`), `DrainPoll` is the 50 ms poll of the
WebSocket.  `handle` is libuv's reading, `flowing` the stream's.

`OutputView` is the promise: a client's terminal shows a prefix of the output
and it never shrinks.

### Connection

`ws` is `this.ws`, `sock` the state of every socket that exists (with what its
handlers would do: `aimed` at the current target, `greeted`, `muted`).
`opening` and `verifying` count the session checks awaited *in the current
generation*; a new generation makes those of the old one void, so it resets
them.  `armed` are the timers that exist, `held` what `reconnectTimer` refers to:
a timer that is overwritten stays armed.  Each operation of the class is an
action, each answer, timer and event of a socket another.  A `host` uses it: a
page logs in, retries, detaches and retargets; the link of a server is kicked
and closed once.  `told` is the last state the host heard; after a close with
4401 it stays as it was and `auth` (a login is shown) covers it.  `raced` records
that `connect()` came while an attempt was under way (see Findings).

### InputGate, TerminalInput, InputPath

The gate of the client and the input of a terminal are records with one operator
per method; `InputPath` composes them with the socket between (`net`, in order)
and the requests that take holds: opening a pane (`OpeningEnds`, the event
`PaneAppears`, `HoldTimesOut`) and pasting an image (`PasteEnds`, `PasteEndsLate`,
`LeaveMachine`).  A chunk is the number of the turn in which it was typed, so
order is visible wherever it lands.  A modal input passes `flush`, `prepare`
and `delay`, each ended by an action of its own (`Flushed`, `Prepared`,
`Delayed`); `PaneGoes` is the exit in between.  `jumped` is explained under
Findings.  Leaving a machine discards every hold of a paste in one turn: `Discard` is
`finish(id, null)` for all of them, which name no target and so do not hear of each
other.  The specification is `InputSpec`, with `InputFairSpec` for the run, so that one
module can extend this one and `OutputPath`.

### SizeAuthority

One record `m` has the registry (`recent`: the connected clients by last
interaction, kinds, views), owners, attachments, and the panes with their tabs
and sizes.  Each handler is an action and one turn.  `excused` are panes that
opened or changed tab: the code sizes them with the owner's next view.  `promoted` are clients
that said "desktop" after they told what they show: the code gives them a tab
only when they next do something.

### TriggerState, GraphEngine

`TriggerState` is the pure machine of one link: what a report of the source or the
target, a timer or a change of settings decides.  `GraphEngine` holds the whole
engine as one record that operations map to another (`OnStatus`, `FeedTarget`,
`Reconcile`, ...), because one turn makes many links decide, one after the other,
each seeing what the ones before have done: the order of `LinkSeq` is the order of
the code's map.  The loops over links and notifiers are one operator, `Tell`, a recursive
function over `LinkSeq`; what a link or a notifier does is `Hears`, by the kind of
`news` (a status, a target that is free, a connection, a changed graph).  A send takes up to three turns: start (`StartSend`), the screen
read (`TailRead`), the answer (`PromptDelivered`, `PromptFails`), of the
`gen`eration in which it began.  The store writes one change at a time from a
`queue`, and only what is written reaches the engine; `Written` re-reads the
change against the graph as it is then.  The timer's work is split into one
action for each thing that can be due (`BusyExpires`, `SpellHolds`,
`WaitTooLong`, `NoticeDue`); their intervals are left open.  History variables, which
no guard reads: `open` counts firings without an answer; `notice` is what the last notice
to a supervisor was about and whether it is under way, was delivered or was given up;
`tally` counts what a link delivered since it was last resumed, how many of these prompts
left before an earlier one was counted (`early`, while they are under way) and how many
counts were lost.  A pane is engaged while a send to it is under way, of any generation, or it
is assumed busy; `doubled` are the engaged panes to which a second send began or whose
prompt then left, `excused` those where one of the ways to that was taken, and `shown`
those whose real state came during a send.

### Handoff

One behaviour goes through both servers: `stage` is where the controller is
(`idle`, `preflight`, ..., `leaving`) or the start of the new version (`starting`,
`loading`, `restoring`, `fresh`).  `Exec` keeps what the process keeps: the
descriptors (`master`: number -> shell), `saved` (session.json) and `manifest`
(handoff.json); all other variables start anew.  `holdWithTimeout` is `HoldNext` and
one of `HoldTaken`, `HoldFails`, `HoldTimesOut`, and after the last `LateHoldReleased` or
`LateHoldFails` (which leaves the pane `stranded`); `GiveUp` is the rollback
before anything is on disk, `ExecFails` and `ManifestRemoved` the one after.
Openings go on meanwhile (`PlaceKnown`, `SpawnEnds`): `/ws` is closed, but an await that
began before is not.  The system hands out the lowest number that is free.
`WriteStarts` and `WriteReturns` are the write of `AdoptedPtyProcess.drain` in a thread of libuv, which
has only the number.  `shellOf` says which shell was meant: what no code can see.  A shell
is a name while anybody refers to it (a descriptor, a pane, a write), then the name is
free again: `MaxFd + MaxPane + 1` of them are enough however many shells a session starts.
`saved` is kept only from `flushSession` until it is read back.

## 4. Runs

| Run | Bounds | Shows |
|---|---|---|
| `persist` | 2 changes, 2 saves, 3 continuations, 2 flushers | an answered flush is on disk; no change forgotten; the file never goes back; changes are saved and flushes answered in the end |
| `session_model` | 2 workspaces, 3 tabs, 3 panes ever | the maps agree; reserved ids are fresh |
| `service` | 3 tabs, 3 panes, 2 workspaces (3 with groups) ever, 2 openings at once; 9 menus | no shell without pane and no pane without shell; an empty session is being refilled; consistency; the replica; shells of survivors; focus and zoom come back |
| `layout` | 4 panes, 3 split ids, amounts of 10 | neighbours; removal undoes split; implements `LayoutList` |
| `output` | 2 clients, 3 chunks, 2 subscribes, thresholds of 1 chunk | implements `OutputView`; handoff loses nothing; what is written arrives |
| `connection` | 3 sockets, 4 calls of the host, 3 losses; page and link | one socket but for a race; nobody stranded; open is usable; a connection that is being made is made |
| `size` | 3 clients, 2 tabs, 2 panes, 2 sizes, 7 calls; symmetric | owners may decide; sizes follow; nobody passed over |
| `input` | 2 panes, 3 turns, 1 refusal; two holds, or a hold and a start, or three modal inputs | typed in order; modal input whole; nothing kept for ever |
| `graph` | 3 panes, 5 links with a limit of 1, 2 agents a pane, 1-2 completions, 2 calls, 2 queued writes, 1 stop; 9 scenarios | each firing answered once; no lost wakeup; a second prompt has only the causes named; limits, but for early prompts and lost counts; notices given or owed, but for those given up; only allowed prompts leave |
| `handoff` | 2 panes ever, 4 numbers, 2 handoffs, 1 chunk read | no output lost; no shell unseen; a number misleads nobody; all that was stopped goes on, but for a late hold that fails |
| `focus` (violation) | as `session_model` | the session's focus can stay on a closed pane |
| `double_prompt` (violation) | as `graph`, two links to one target | two prompts can be under way to one target |

Why the bounds are enough: an interference needs one opening and one other
operation (two openings for the refill of an empty session); a tab that goes
needs a second tab to take its pane, and a split there a third pane.  Ids are
never used again, so `MaxWs`, `MaxTab` and `MaxPane` bound how many are ever
made.  Four panes give every shape of tree up to depth three.  Three chunks
with thresholds of one pass every threshold and leave one chunk to go wrong
after.  Three sockets are one open, one opening and one that still closes; the
races of the connection need a check, a login and one more call.  In `size` an
owner, an heir and one who comes later need three clients, and the longest
story (two clients connect, say what they are and show, one goes) seven calls.
Two holds are needed for one to wait behind another, three turns for something
typed before, in and after a hold; a scenario of three holds was explored once as
well.  A limit of 1 lets a link run into it at once; the scenarios of `graph`
choose which links, agents and faults act together (`MCGraphEngine`), since no
property needs more than two triggers on one target, or a trigger and a notice.
`MaxStops` of 1 gives sends of an old generation.  Two more bounds sit in guards: `RecreateIfEmpty` needs a free slot of `ops` (the
close that empties the session waits for one), and a step that needs a new id
waits when none is left.

In `handoff` one pane is held while another ends and its number goes to a new shell;
a second handoff meets the hold that the first one left.  A pane has at most two
descriptors at a time (its own and one that a write keeps), so four never run out.

Deadlock is not checked: every system here stops when its bounds are used up.

**Fairness.** `persist` assumes that an armed timer fires, that a file operation
ends (well or badly) and that microtasks run: weak fairness on `TimerFires`,
on the end of each save and on the run of each continuation.  `output` assumes that the event loop reads,
the mirror parses, timers fire, and a client's socket sends
what it has; a program need not write and nobody need subscribe, hold or
release.  A client that never reads stays cut off, as in the code.
`connection` assumes that a session check is answered (fetch has an end), armed
timers fire, a socket opens or fails, a close ends, and the server answers a hello;
nobody need log in, retry or lose the network.  `input` assumes that something that can
go on without the user and without an answer from the server does: time limits,
delivery, the mirror, the look at the foreground process, the delay.  No request need
be answered, so `NothingKept` rests on the time limits, as the code does; a paste
that is never answered keeps what it holds, and the property says so.  `handoff` assumes
that the controller and the start of the new version go on, that a shell's grace period
ends and that a late hold comes or fails; nothing of shells, clients or what fails.  The other
runs check safety only.

## 5. Findings

1. `focus`: `swapPaneWith`, `moveToEdge` and `replacePane` set the focus of the
   session but not `focusedPaneId` of the tab, on which `closePane` decides
   whether to move the focus on.  Swap pane 1 (with pane 2 focused), close pane 1: the
   session's focus is pane 1, which is gone.
2. `double_prompt`: when the time for which a target is assumed busy is over,
   `feedTarget` tells every link the status it was given.  The first that waits
   sends; those after it are still told "idle" and send too.

Met on the way, and excused in a property instead of having a run of their own:

* A split whose source moves meanwhile (`skewed`): `splitPane` uses the tab it
  read before the await.  If the source pane has moved and its old tab is gone,
  `requireTab` throws after the new pane is in the model: it is not saved, and if
  its shell has already exited the pane stays, without a shell.
* A group that ends early (`recreateFailed`): if the last pane of a workspace of
  the group is closed by a frame of the same batch, between two turns of
  `closeWorkspace`, the call ends with not_found before `recreateIfEmpty`; was
  the rest of the session in the group, it stays empty.
* Two sockets (`raced`): `connect()` asks whether a socket is open or opening, not
  whether a session check is about to open one.  A login succeeds while a check started by
  `retarget` is under way: both open a socket, and the first is never closed
  (`Connection.ts:91` promises one).
* Three holds (`jumped`): of holds 0, 1, 2 from pane A the last gives up, so what it
  held goes to A behind hold 1.  Hold 0 lets go to B; what is typed in B is taken
  by hold 1; hold 1 gives up as well, and A reads the later input first.
  `InputGate.ts:60` promises the order typed.  The same flag covers a user who turns to a new
  pane between its event and the answer that lets go to it.
* More ways to a second prompt (`excused`), besides the one of `double_prompt`.  A link or
  notifier that is made while its target is assumed busy is shown the target as it is, and
  so is a notifier when the connection comes back.  While a send is under way the engine
  gives up what it assumed: at a real status of the target (which `docs/agent-graph.md:81`
  allows: agent A completes and its screen is being read, B works, an approval waits for B,
  B completes, the approval is sent, and then the screen has been read), at a change of the
  connection, at a stop.  A target that is not there is not assumed busy at all.
* A limit may be exceeded: `recheck` reads the count as it is written, and a prompt that was
  delivered is counted in a later turn, through the queue of the store; a write that fails
  is only logged, and that prompt is never counted (`GraphEngine.ts:617-625`).
  `docs/agent-graph.md:93` and `:113` say that a limit always stops a link.  `LimitKept`
  allows exactly one prompt for each count lost, and those that left early.
* A notice that fails for another reason than a supervisor that is blocked, gone or out of
  reach is not tried again (`GraphEngine.ts:660`): the supervisor stays untold until
  something under it changes.
* A hold that times out and then fails is swallowed (`HandoffController.ts:274-276`) without
  `releaseHandoffHold`: the pane is not read any more, and as it stays held every later
  handoff refuses it (`TerminalHost.ts:334`).  `EverythingResumes` excuses these panes only.
* A shell that ends after its pane was held (`OwnShell` excuses it): its terminal closes, another pane gets
  its number, and the manifest names that number for the first pane.  The new
  version asks only whether it is a PTY (`isPtyMaster`) and adopts it for the wrong
  pane.  The comment at `HandoffController.ts:187` has closing `/ws` first prevent this, which
  it does for clients but not for shells that end nor for openings under way.
* A write to an adopted PTY that fails after `kill()` (`AdoptedPtyProcess.ts:180`) does not
  call `drain` again, so the descriptor stays open (`postponed`); and the stream's own close
  does not wait for a write under way.
* A signal during a handoff whose `execve` succeeds is lost with the old version
  (`closing` starts anew).

## 6. Proofs

The proof modules state facts for every value of the constants.

* `Durability_proofs`, on what has to survive: Part 1 is the saver, Part 2 the handoff.
  `SaverIInv` adds four parts to the properties it proves:
  only the save in flight runs (`RunningIsInFlight`), what is queued follows the
  save in flight or is ready to run (`QueuedFollows`), disk and running saves are
  never ahead of the session (`VersionOrder`), and each waiting flush waits on a
  promise that will write at least the version it needs, or was cancelled
  (`WaitersCovered`).  `AtMostOneSave` and `FlushDurable` are not inductive alone:
  that no second save starts in the gap after a save rests on what is queued, and
  what a flush gets rests on the version of a save that has not yet begun.

  All three invariants of the run `handoff`, for any number of panes, descriptors, reads and
  handoffs: `NothingLost`, `NoneUnseen`, `NumbersAreSafe`.  None is inductive alone.  A
  screen stays complete because reading is stopped from when it is taken until the process
  is replaced, so `IInv` follows it through the two servers: `Held` for what the controller
  has collected, `Handed` for what handoff.json names and the new version has read, and
  `Restoring` for the panes it still has to open.  `StagesInv` says what can be there in
  which stage (a manifest only from writing to reading it, late holds not in a new
  version).  `Terminals` and `Descriptors` relate the two sides of every number: a pane's
  number leads to its shell, or that shell ended; each open descriptor is a live pane's,
  waits to be closed (`postponed`), or is still in the manifest.  `WritesInv` does that for
  the write in a thread, `Releases` for holds that come too late or fail, `Names` says that a shell
  has one descriptor and one pane, and `Ids` that pane ids are not used twice.  `Counting`
  bounds the descriptors that only wait for a write by the panes that are gone; from it and
  `MaxFd >= 2 * MaxPane` follows that a free number always exists (`Free` is never asked of
  an empty set), and by a like count a free name for a shell.  A lemma per change
  that several actions make (closing terminals, starting a shell, registering it, a new
  process), then one per action; TLC checked every part of `IInv` on the run's instance first.
* `SessionState_proofs`: for each operation a lemma that it keeps
  `Consistent` and moves the counters up only (`...Ok`), one about what it opens and
  closes (`...Opens`, `...OpensNothing`), and one about what it leaves alone
  (`...Spares`: only these panes, tabs and workspaces differ afterwards).
  Its first part has what the list operations of `IdList` keep (elements, no duplicates);
  `SizeAuthority_proofs` repeats the few it needs, as its state is another one.
* `SessionModel_proofs`: `IInv` is `TypeOK`, consistency, counters that start at 1, every
  reservation fresh (its ids below the counters and not in the model) and
  every two reservations apart.  The last is needed because committing one must
  not make another stale.  Theorems `TypeCorrect`, `MapsAgree`, `ReservedFresh`.
* `SessionService_proofs`: `IInv` adds to the three invariants it proves what the
  turns of an opening may rely on.  `Openings`: an opening names where it opens, and two
  whose shells are starting have no id in common (`Apart`).  `Sound`: the ids an opening
  holds are handed out and in no map (`Fresh`), its shell runs, and shells and notes
  belong to open panes or to openings.  None of them is inductive alone: that a commit
  keeps the maps in agreement rests on fresh ids, and those stay fresh beside another
  commit because the two are apart.  `CommandPanesRestore` also needs
  `ReturnsElsewhere`: a command pane never returns to itself.  `CopyAgrees` needs, for
  every operation, that its events tell all it changed (`Announces`): what was removed is
  told by comparing, what was changed lies in the `Spares` lemma of the operation, and a
  copy that was right is right again when such events have arrived (`DeliverShows`).
* `Terminal_proofs`, Part 1, output: that a client sees no gap needs to know where each mark
  stands.  `IInv` says that the marks lie in order in what the mirror has not
  parsed (`Ordered`); that a client has one attempt under way, and has kept
  exactly what came after its mark (`CurrentKeeps`); that what a replaced attempt
  kept starts at its mark, is not behind what the client sees, and comes before
  every later attempt (`ReplacedKeeps`); that a live client sees everything
  (`ViewsFollow`).  One lemma per change of the queue (`Extend`, `Void`,
  `Supersede`, `Dequeue`, `FireCurrent`, `FireReplaced`, `Shift`, `Parse`), one per
  action, then `Refinement`: every step is a step of `OutputView` or a stutter.
  `HandoffInv` adds that a flush in the queue is the only one and stands
  after everything written, which makes the screen taken complete; from it
  `NothingLost`, `ReadingAsTold` and `PauseAlwaysEnds`.

  Part 2, input: `InOrder` and `Whole` are the two invariants of the run `input`, for any
  number of panes, holds, modal inputs and turns.  What a program has read is in order
  only if all that is still to come is, so `InputIInv` follows a chunk from the key to the
  program.  For each pane (`GateOrder`, `HostOrder`): what was written, then the queue of
  the terminal, then the frames on the socket, then the holds that reach it, from old to
  new, and within a hold the chunk it will put in front (`Promised`), then what was typed.
  A hold that is not decided reaches its source; when it lets go to the pane its request
  opened instead, nothing may be on the way there (`FreshInv`), and when it gives one more
  source to the holds behind it, only the last of them can be undecided (`GateShape`).
  These three hold until `jumped`; the names in the gate, the rules of requests and the
  terminals (`GateNames`, `RequestRules`, `HostsInv`) hold always.  For a modal input
  (`ModalsInv`): it is one terminal's, pending while it waits or is at work, nothing of it
  is written but its first part during the delay, and whatever else was written is
  `Complete` and done, or `HalfWritten`, refused, and its terminal gone.  The gate empties
  in front, as far as the first hold that is undecided: that is as many times the oldest
  hold alone (`Passes`), and `LetGoKeeps` counts along the recursive function behind
  `FlattenSeq` (`Counting`, a least counterexample).  `Finish` and `Discard` decide and
  then let go; after them comes one lemma per action (`...Step`).
  TLC checked every part of `InputIInv` on the run's instance first.
* `Connection_proofs`: `IInv` has `Grounded` (what is referred to exists; a link
  neither logs in nor retargets) and, unless `raced`, `Calm`: all there is of a
  connection is one check, one timer or one socket (`Tallies`), the socket is the
  one in `ws`, and every request was sent on it.  None of the safety properties is
  inductive alone: that no second socket opens rests on no second check being awaited.
* `SizeAuthority_proofs`: `Sound` says that owners qualify, attached clients are
  connected, whoever is not connected is known for nothing, and no tab is passed
  over; handlers call each other, so each of `Claim`, `TransferOwnership`, `Touch`
  and the others has a lemma that it keeps `Sound`, sometimes from less (a client
  on its way out is exempt), and `Obeys` of every pane.
* `GraphEngine_proofs`: all six properties of the run `graph`, for any graph of links and
  any scenario.  `IInv` is `Sound` of the engine; TLC checked it on the run's instance
  before it was proved.  Its core is an account of firings (`Linked`): the
  open firings of a link are one if it waits, one if a send is in hand, and one for a
  completion it has not been told of (`Due`, zero between turns).  The rest is why that
  account stays right: whoever waits has a target that is not idle or assumed busy
  (`Fits`), what is assumed busy has a send under way or its time running (`Explained`),
  what was delivered is counted, still queued or lost, and of the prompts under way at
  most one did not leave early, which bounds a link's deliveries (`Limited`), an old
  generation and a stopped engine send nothing (`Later`), a notifier that plans nothing
  has a last notice about how things are (`Informed`); where a pane has neither been excused
  nor is about to be, each send to it owns the entry that assumes it busy, and who hears of
  it sees it busy (`Careful`).  Between the links of one turn most of this is false, so `Good` takes
  what is still to be done: `U` and `V`, the links that have not heard of their source
  or target, `X`, the targets whose second prompt is not excused yet, and `O`, the
  sender that has decided and not begun.  A lemma per decision of `TriggerState`
  (`...Answers`), per part of a turn (`...Good`), per kind of news, and per action
  (`...Steps`); `TellGood` goes link after link, by counting along the recursive function
  (`Counting`, a least counterexample).

`AtMostOneSave`, `DroppedOnlyByCancel`, `ReadsUnlessTold`, `PauseEnds` and `StoppedIsDown` are stated and proved,
and no run repeats them.

Assumptions: those the modules name (`MaxVersionAssumption`, `NoneAssumption`, the
bounds are naturals, `LowWater` at most `PauseAt`, there is a pane), evaluated by TLC in the runs.

Model-checked only: liveness (`EventuallySaved`, `FlushAnswered`,
`OutputArrives`, `Recovers`, `NothingKept`, `EverythingResumes`), which is outside the
prover's reach; and everything about `LayoutTree` (`NeighborIsThatWay`, `RemoveUndoesSplit`,
and that it implements `LayoutList`), whose operators are recursive.

## 7. Not modelled, and simplifications

* Of the session: labels, making worktrees and groups (which workspaces move or
  close together is any block or set), metadata, agent fields, restore.  One call
  at a time closes a group.
* Layout: ratios in twentieths (the step of a resize); the frames on a screen of
  8000 cells, so that rounding to cells does not decide; `cycleOrder`, which is the list of leaves.
* Of the output path: images, the exit of the pane while output is on its way,
  resizing, the traffic of other panes on the same socket; chunks have one size;
  `retryStale` visits the clients in any order; `holdReading` answering false leaves
  everything as it was.  A second subscribe's replaced snapshot still goes out,
  as in the code.
* Of the connection: the length of the backoff, the hint that the origin may be
  refused, logout, frames of output.  A socket's identity is used again.
* Of the input: replies of the terminal to queries, which pass the queue
  (`TerminalHost.ts:157`); pointer and focus reports, which pass the gate; bytes
  behind the limit (one refusal stands for all); what a hold that had no source
  drops when it is cancelled after a pane was added to it.
* Of sizes: a window has one size for all it shows; themes and subscriptions.
* Of the graph: panes that get a new key, changes to an existing link, the list of
  the history, texts, the intervals of its timers, the replacement of a remote
  port, liveness.  A notifier removed while its notice is under way and made again in the same
  generation waits for that notice; in the code the new one is free to send at once.  A
  prompt whose answer is lost with the connection is taken for one that did not arrive.
* Of the handoff: macOS, where the descriptors found open cannot be listed; what the
  preflight runs, its command line, editors of the scrollback; a pane's failed start
  (it stays without a shell, as in the code, and nothing is held of it).
* Agents' own tracking, questions, lock and machines: see the plan.
* Command line, schemas, authentication, git, files, rendering, keys: little
  state of their own, or mostly I/O.
