# TLA+ models of the TiAdmin dashboard (tidb-demo frontend)

The repository is an AngularJS dashboard. Each view has a controller
("view-model") that polls a REST backend on a timer and lets the operator
start, stop, delete and create processes. The code has no threads. It runs on
the browser's event loop, and every handler runs to completion. The only
suspension points are `$http` calls. Nothing orders their responses, nothing
cancels them, and their errors are swallowed (no error callback). What is hard
in this code is therefore **ordering**: overlapping polls, mutation callbacks,
modal dialogs and two independent timers sharing a cache.

## Inventory

| Component | Source | State | Operations | Interacts with |
|---|---|---|---|---|
| Services view-model | `controllers/servicesController.js` | `$scope.services/processes/hosts`; the modal's `services`, `hosts`, `newProcData`, args input | `refresh` (3 GETs, at start and every 3 s), `start/stop/delete(p)`, `openNewProcessDialog`, modal `getServiceArgs`, `ok`, `cancel`, the create callback; `processFilter` | backend; modal `$modalInstance` |
| HostStatus view-model | `controllers/hostStatusController.js` | `machID` (route), `$scope.services/host/processes` | the same as Services, for one host (`findByHost`); the dialog creates on `machID`; `$scope.hosts` is never set | backend; modal |
| Chart view-model | `controllers/chartContoller.js` | four series of `{x,y}` (at most 20 each), counter `x` | `refresh` at start and every 1 s; callback push/shift/x++ | backend `tidb_perf` |
| Home view-model | `controllers/homeController.js` | TPS series, `hosts`, `numOfNodes`, `storageInfo`, `services` | TPS poll every 1 s (no immediate one); `refreshNodes` at start and every 3 s; `refreshServices` once | backend |
| HostService + sidebar | `services.js`, `directives/sidebar/sidebar.js` | HostService's closure `hosts` (starts `[]`); the sidebar's `$scope.hosts`, `collapseVar`, `multiCollapseVar` | `refreshNodes` at creation, every 3 s and via `refresh()`; `getHosts`; the sidebar copies `getHosts()` every 1 s; `check`, `multiCheck` | shared cache: one writer, one reader on an independent timer |
| DataService | `services.js` | counter `i` | `add`, `get` | nothing in `src` uses it |
| processList directive | `directives/processlist/processlist.js` | none | none | template only |
| Router / shell | `app.js` | ui-router states | activating a view instantiates its controller, whose timers are never cancelled | every view |
| Counter demo (`feApp` MainCtrl) | `fe/app/scripts/controllers/main.js` | `count` | polls `/counter` every 1 s | backend |
| REST backend | not in the repository (spec section 6) | process table, hosts, services, metrics | reads, `POST /processes`, start/stop/delete | every view |

### The properties that make each component correct

- **Services / HostStatus**
  - The table heals: once the operator stops and the network stops failing, the
    table shows the backend's processes (or the viewed host's) for good. This
    must hold even though a slow response can overwrite a newer one.
  - One confirmation creates one process (spec 4.4 and 8). The code breaks
    this.
  - Cancel has no side effect (spec 4.4). The code breaks this when Cancel is
    pressed while the POST is pending.
  - The args posted are the service's default args, "split on whitespace"
    (spec 8). The code breaks this.
- **Chart**
  - Every series holds exactly the last min(n, 20) samples, in the order their
    callbacks ran, with consecutive x (spec 8).
- **Home**
  - `numOfNodes` and `storageInfo` always belong to the host list shown. They
    equal the alive count and the disk sums (spec 8 example).
  - The host list shown implements `PolledValue`. It is only ever undefined or
    a list the backend reported, and it catches up with the backend's list.
  - The services list is eventually shown for good (spec 4.1). The code breaks
    this.
  - The TPS strip holds exactly the last min(x, 20) samples whose callbacks
    ran, with consecutive x, although responses overtake each other and some
    are lost.
- **HostService + sidebar**
  - The sidebar eventually shows the backend's host list. This must hold even
    though a late answer can set the shared cache back.

## Modules

| Module | Models | Variables ↔ code |
|---|---|---|
| `Backend` | the REST backend, from spec section 6. It is the environment, not repository code, so the map has no entries for it. | `ServerState`: process slots (`Absent` or a record of state, svc and host). `Req`/`Resp`: HTTP messages. The network is a bag, so order is free and duplicate requests are kept. |
| `ServicesView` (`MCServicesView`) | `ServicesController` | `services/processes/hosts` = the scope fields (`NoData` = undefined). `net` = requests and responses in flight. `dialog[d]` = the d-th modal: its resolved lists, `newProcData`, status and POST count. `created` = the dialogs whose POST the backend carried out. |
| `HostStatusView` (`MCHostStatusView`) | `HostStatusCtrl` | the same, with `host`, and `OnHost(srv)` for `findByHost` |
| `ChartBuffer` | `ChartCtrl` | `values[s]` = `$scope.<s>[0].values`, `x` = the closure counter. `applied` is a history of the samples whose callbacks ran. `served` numbers the backend's samples. |
| `NewProcessArgs` (`MCNewProcessArgs`) | `getServiceArgs`, the args input, `ok()`'s `split(" ")` | strings are sequences of characters, because the property is about how they are cut. `JoinWith` and `SplitOn` are recursive models of JavaScript's `join(" ")` and `split(" ")`. `SplitRef` and `WhitespaceTokens` give the spec's whitespace split. `Submit` requires both `serviceName` and `machineID`, as `ok()` does. |
| `HomeView` (`MCHomeView`) | `HomeCtrl`: node summary, services, TPS strip | `AliveCount` = `filter(isAlive).length`, and `StorageOf`/`AddDisks` = the `forEach` loops. They are checked against `RefAlive` (`Quantify`) and `RefSummary` (`MapThenSumSet` over disk slots). The ghost `seen` records the lists the backend reported, so `hosts` can be mapped onto `PolledValue`; `Fail` is a GET with no error callback. `TpsTick`, `TpsApply` and `TpsSlide` are the 1 s strip, with its own request bag `tpsNet` and the history `tpsApplied`. The strip has no fairness, because no property needs it. |
| `HostCache` | `HostService` + sidebar | `cache` = HostService's `hosts`, `shown` = the sidebar's `$scope.hosts`, `rendered` = what the page shows of it. The sidebar's `setInterval` runs outside Angular's digest, so `rendered` changes only at digests: after an `$http` callback (this or another view's, success or error) or a click. The backend's host list is abstracted to a version number. |
| `PolledValue` | the abstract contract of a polled field (spec 4.1, 4.3) | `source` = the backend's value, `shown` = the page's, `seen` = the values the backend has held (a history variable). `Show` may put back any old value. `WF(Catch)`: when the page differs from the backend and the backend stays put, the page catches up. |
| `Counter` | feApp `MainCtrl` (`fe/.../main.js`) | `count` = `$scope.count`. `$interval` GETs the counter; success copies `res.count`, error does nothing. No request at construction. The backend's counter counts up from `Start`. |

Every handler is one action. Its guard comes from the code's conditions, for
example `ok()` requires `serviceName` (and `machineID` in the Services view).
A response callback is one action, including the `refresh()` it calls and the
modal it closes. The `alert("invalid selection")` branch changes no state, so
it is a stuttering step. The select boxes and the args input are bound in
templates that are not in `src`. They are modelled as the user choosing among
the values the modal's scope offers. Picking a service fills the args input
with `getServiceArgs(svcName)`. While a modal is open the page is behind its
backdrop, so the table buttons are disabled.

## Runs

| Run | Expect | What it shows |
|---|---|---|
| `services_converge` | pass | `Converges`: the table eventually equals the backend table for good, despite reordering, one lost message and two mutations |
| `services_double_post` | violation | `AtMostOnePostPerDialog`: OK pressed twice while the POST is pending posts twice |
| `services_cancel_effect` | violation | `CancelHasNoEffect`: OK, then Cancel while the POST is pending, and the backend still creates the process |
| `hoststatus_converge` | pass | `Converges` for the per-host table, with a process on another host in the backend |
| `chart_window` | pass | `WindowIsLatest` and a length bound in `TypeOK` |
| `args_tokens` | violation | `PostedArgsAreTokens`: `split(" ")` is not a whitespace split. A service with no args posts `[""]`, and two spaces give an empty argument. |
| `home_summary` | pass | `SummaryOfShownHosts`, `TpsWindowIsLatest` (the home TPS strip, callbacks in any order, a lost sample), and `NodesRefine`: `hosts` implements `PolledValue` (`seen` is a history of the lists the backend reported), with one list change and one lost GET |
| `home_services_once` | violation | `ServicesEventuallyShown`: the only services GET is lost and `$scope.services` stays undefined |
| `sidebar_refines` | pass | `SidebarRefines`: the rendered sidebar implements `PolledValue` (`INSTANCE PolledValue WITH source <- srvVer, shown <- rendered, seen <- 0..srvVer`) |
| `counter_refines` | pass | `CountRefines`: the feApp counter implements `PolledValue` (`seen <- Start..srvCount`). The count may go back, but only to a value the counter had, and a failed GET leaves it alone (spec 8). |

Every passing property has a mutant in `PROJECT.json`: a plausible bug in the
code it is about, and TLC finds each one. Examples: the table loaded only once,
the modal's selection check dropped, `>=` instead of `>` in the shift test,
the error handler resetting the counter, and the sidebar not re-reading the
cache.

### Findings

1. **Duplicate create** (`servicesController.js:93`). The modal closes only when
   the POST succeeds, and OK is never disabled. A second OK therefore posts
   again. So does a retry after a response that was lost although the backend
   acted on the request.
2. **Services loaded once** (`homeController.js:82`). `HomeCtrl` calls
   `refreshServices()` once, with no interval and no error callback. After one
   failed GET, the home page's services list stays undefined until the page is
   reloaded. Spec 4.1 says every view repeats its fetch indefinitely.
3. **Args split** (`servicesController.js:91`). A service with no default args
   fills the input with `""`, and `"".split(" ")` posts one empty argument.
   Two spaces also give an empty argument. `split(" ")` is not the spec's
   whitespace split.
4. **Cancel after OK** (`servicesController.js:102`). `ok()` leaves the modal
   open until the POST succeeds, and `cancel()` only dismisses it. A Cancel
   pressed while the POST is pending does not stop the process being created.
   Spec 4.4 says cancel has no side effect.

## Bounds and why they suffice

- **Process views.** Two process slots, one service, and one host for the
  Services liveness run. The host-status run has three slots and two hosts, so
  the filter matters.
  - `MaxInFlight = 3`. The timer fires only when the network has room for its
    three GETs. Mutation callbacks add their refresh without a bound. This
    still allows the race: a poll response served before a delete is delivered
    after the delete's refresh.
  - `MaxOps = 2` covers delete-then-act and double OK. `MaxFails = 1` covers
    the lost response.
  - The violation runs use one dialog and no failures. This is enough for
    OK twice, or OK then Cancel, before the POST is answered.
- **Chart.** `Cap = 3` stands for 20, with 7 samples and 3 requests in flight.
  The window overflows and responses overtake each other. The logic does not
  depend on the value 20, and with 20 the history of reorderings is beyond
  TLC.
- **Args.** Alphabet `{"a", " "}`, texts up to 4 characters, one machine, and
  every services list of at most two services with at most two args from
  `{"a", ""}`.
- **Home.** Six host lists, including the spec's example, a dead host with two
  disks, and a host without `usageOfDisk`. The backend's list changes once
  (`MaxChanges = 1`), and one GET may be lost (`MaxFails = 1`). That is
  enough to lose the only services GET, or for a response served before the
  change to overtake one served after it. The TPS strip runs beside the node
  loop, so their states multiply. `TpsCap = 2` stands for 20, with three
  samples and two metric GETs in flight. The strip fills, holds two points in
  callback order with consecutive x, and shifts, and a later response
  overtakes an earlier one. The run takes about 2.5 minutes. With
  `MaxChanges = 2` it takes over 12 minutes.
- **HostCache.** Two changes of the backend list, three GETs in flight, and one
  failure.
- **Counter.** The counter goes 1..3, with three GETs in flight and two
  failures. This is enough for an old answer to overtake a new one.

## Fairness

- `setInterval` timers never stop, so the ticks are weakly fair.
- The backend answers what it is sent, and the browser runs the callbacks, so
  serving and delivery are weakly fair. This is an assumption about the
  environment, not a guarantee of the code. Failures are bounded (`MaxFails`)
  for the same reason.
- The operator has no fairness and may stop at any time. Neither do the other
  views' digests in `HostCache`. The sidebar's rendering must catch up using
  only HostService's own `$http` digests.
- `NewProcessArgs` is safety-only. It stops once the POST is made
  (`CHECK_DEADLOCK FALSE`).
- In `HomeView` the TPS strip's steps have no fairness. Its property is a
  safety property, and the strip shares no state with the node loop whose
  liveness is checked.
- The convergence properties are of the form `<>[]`. They hold because the
  user's mutations and the failures are bounded, so every behaviour reaches a
  point after which both have stopped.

## Not modelled (yet) and plan

Modelled since the first plan: an abstract `PolledValue` with three
refinements (the sidebar as rendered, the counter demo, the home host list),
the counter demo itself, and the home TPS strip composed into `HomeView`.

Remaining, most important first:

1. Refinement of `PolledValue` by the process tables of `ServicesView` and
   `HostStatusView`. This needs a history variable of the backend's tables,
   which multiplies states already near TLC's limit.
2. The chart's sample order (`chartContoller.js:59`). Responses are plotted in
   callback order, not in the backend's order. Spec 5 allows this, so it is
   recorded as a hazard, not as a property.
3. The chart's 1 s poll with no in-flight limit (`chartContoller.js:80`). An
   unbounded pile-up is outside TLC's reach. The models bound it with
   `MaxInFlight`.

The timer leak is not modelled. No controller clears its intervals, so every
visit to a view adds that view's loops for good. Spec 5 records this as the
code's behaviour.

Not modelled, with the reason:

- `DataService`: no code uses it.
- `processList` directive: its controller is empty. It injects an undefined
  `ProcessService`, which is a wiring error (listed as a hazard).
- The Router / shell (`app.js`). It only declares ui-router states and
  `ocLazyLoad` resolves. Which states a transition enters and exits is
  ui-router's library behaviour, not code of this repository. A model of it
  would only check its own encoding of the library. The controllers' timers,
  which the repository does write, are modelled in each view's module.
- `processFilter` is never used by a template in the repository.
- Chart options, templates and logging: these are layout.
- The template bindings (the filter input, the select boxes): these are not
  in `src`. They appear in the models as user choices.
