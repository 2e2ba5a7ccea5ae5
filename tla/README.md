# TLA+ model of the BEF executor

This directory holds a TLA+ model of `src/lib/bef_executor/bef_executor.cc`. That file is TFRT's executor for one BEF function. It fires kernels as their arguments become ready. Several threads share the firing: the caller of `Execute`, and any thread that resolves an asynchronous value whose users were registered with `AndThen`.

## 1. The system

| Part | Code | State | Operations |
|---|---|---|---|
| Register file | `RegisterInfo`, `GetRegisterValue`, `GetOrCreateRegisterValue` (55-84), `SetRegisterValue` (109-148) | an atomic `value` per register, plus a static `user_count` from the loader | create a placeholder `IndirectAsyncValue` with a CAS; install a result with a CAS; on a lost race, forward the indirect to the result |
| Kernel readiness | `KernelInfo::arguments_not_ready`, `SetKernelsWithErrorInputReady` (94-107) | an atomic counter per kernel, initially #args+1 | `fetch_sub(1)` in the firing loop (383); a CAS loop lowers the counters of kernels with an error input to 1 (error acceleration) |
| Firing loop | `DecrementArgumentsNotReadyCounts` (366-517) | a LIFO worklist per calling thread | pop a kernel and decrement; on reaching 0, bind arguments, run the kernel or short-circuit its errors (or a cancel value read at 392), drop the argument refs, and publish each result |
| Used-by dispatch | `ProcessUsedBys` (238-321) | — | read the result's `state()` once. Available: accelerate if error, then append the users to the worklist. Pending: add an executor ref and install an `AndThen` closure that runs its own firing loop later, then drops the ref |
| Argument pseudo-kernel | `ProcessArgumentsPseudoKernel` (324-354) | kernel 0 when the function has arguments | dispatch the users of every used argument register |
| Location handler | `BEFLocationHandler`, `MaybeAddRefForResult` (356-364) | a reference count | a pending result nobody uses gets a closure that holds the handler until it resolves |
| Executor lifecycle | `Execute` (523-636), `Destroy` (182-186) | the executor's reference count | fill argument registers, build the executor (refcount 1), run the loop, export results with `GetOrCreateRegisterValue`, drop the initial ref; the last ref destroys the executor and drops the location handler |

The parts interact through three kinds of shared state:

- the register CAS. A producer's `SetRegisterValue` races a consumer's, or `Execute`'s, `GetOrCreateRegisterValue`;
- the counters. `fetch_sub` from several threads races the acceleration CAS loop;
- reference counts. The value that `SetRegisterValue` installs holds exactly `user_count` references, one per consumer. A consumer on another thread may drop its reference as soon as the CAS has succeeded.

`AsyncValue`, `IndirectAsyncValue`, the loader (used-by lists, user counts) and the host context (cancel value) live outside this repository. They are modelled from the specification as the primitives the executor relies on.

## 2. Modules: `BEFExecutor.tla` and `Dataflow.tla`

The model parameters are listed below.

| Constant | Meaning |
|---|---|
| `NumKernels`, `NumRegs`, `NumArgs` | sizes; kernel 0 is the pseudo-kernel when `NumArgs > 0` |
| `KArgs[k]` | argument registers of kernel k |
| `KResults[k]` | result registers of kernel k |
| `NonStrict` | the non-strict kernels |
| `ResultRegs` | the function's result registers |
| `ArgStates` | states an argument may have on entry |
| `Outcomes[k]` | what kernel k's invocation may produce. `concrete`, `error` or `unavail` (resolved later) make a fresh value; `arg` returns its first argument, as a non-strict select does |
| `ForwardRetains` | whether `ForwardTo` on a pending target keeps the indirect alive (TRUE except in `race_no_retain`) |
| `ReadFunctionMayFail` | whether `ReadFunction` may yield no kernels, so that `Execute` returns at line 606 (TRUE only in `load_fail`) |
| `PreCancelled` | whether the host's cancel value is already set when `Execute` starts (TRUE in `race_cancel` and `select_cancel`) |
| `CallerReleases` | whether the caller may drop its `results[i]` once `Execute` has returned (TRUE in `fanout_alias` and `fanout_uaf`) |

### State

| Variable | Meaning |
|---|---|
| `reg[r]` | the register's `value` pointer (`Null` or a value name) |
| `vstate[v]`, `fwd[v]` | the value's state and, for an indirect, its forwarding target |
| `rc[v]` | the value's reference count; 0 means freed |
| `fwdHold[v]` | the self-reference a forwarded indirect holds until its target resolves |
| `notready[k]` | `arguments_not_ready` |
| `erc`, `lrc` | the executor's and the location handler's reference counts |
| `hcb[v]` | pending `MaybeAddRefForResult` closures |
| `cancelled` | whether the host's cancel value is set |
| `pc[t]` | one record per thread of control |
| `results` | `Execute`'s exported results |
| `frc` | the BEF file's reference count: the caller's `BEFFunction`, the executor's `bef_file_` (line 529) and the location handler's (line 156) |
| `fnHeld` | whether the caller still holds its `BEFFunction` |

Value names are `ArgVal(n)`, `OutVal(k,i)`, `IndVal(r)` and `CancelVal`. Each kernel output and each register's indirect is created at most once, so a name identifies an object.

There are two kinds of threads of control (tasks):

- `Main`, the caller of `Execute`;
- `Callback(k,i)`, the `AndThen` closure for result i of kernel k. It gets its own worklist.

### Actions

A task's program counter `st` moves through these phases:

| Phase | Action | Code |
|---|---|---|
| `pseudo` | `ProcessArgumentsPseudoKernel` | 324-354 |
| `loop` | `PopKernel` (pop and `fetch_sub`, read cancel) or `LoopDone` | 377-409, 301-302 |
| `bind` | `BindArgument` (`GetOrCreateRegisterValue` per argument) | 411-425 |
| `run` | `RunKernel` (invoke or short-circuit, then drop the argument refs) | 426-474 |
| `pub` | `PublishResult` (unused: `MaybeAddRefForResult` + `DropRef`; else `SetRegisterValue`) | 476-508 |
| `used` | `ProcessUsedBys` | 238-321 |
| `drop` | `DropIndirect` (`register_already_set`) | 513-514 |
| `wait` | `RunCallback` (the closure runs once its value is available) | 297-320 |
| `export` | `ExportResult`, `ExecuteReturn` | 617-635 |

Each action is one atomic step of the code: one CAS, one `fetch_sub`, or one `state()` read. The environment's actions are:

- `ResolveValue`: an async kernel completes;
- `CompleteForward`: an indirect's target resolves;
- `RunLocationClosures`;
- `CancelExecution`;
- `DropFunction`: once `Execute` has returned, the caller drops its `BEFFunction`, and with it its reference to the BEF file (line 656). Fairness never forces it.
- `ReleaseResult(i)`: with `CallerReleases`, the caller drops its reference `results[i]` once `Execute` has returned. Fairness never forces it either.

`Init` has two branches. Normally `ReadFunction` succeeds and the executor is built. With `ReadFunctionMayFail`, `Execute` may instead return at once (line 606): nothing is set up and the caller holds the only references. `DropExecutorRef` models `Destroy`. The last executor reference releases the executor's file reference and its location-handler reference, and the handler's last reference releases the handler's file reference.

### Assumption about `ForwardTo`

With the constant `ForwardRetains = TRUE`, forwarding an indirect to a pending value keeps the indirect alive until the target resolves (`fwdHold`). Without this, an indirect whose last user reference is dropped would take its waiters, and the executor references they hold, with it. The `race_no_retain` run sets the constant to FALSE and shows that the executor relies on it.

### Properties

| Property | What it says |
|---|---|
| `TypeOK` | type invariant; every reference count (`rc`, `erc`, `lrc`, `frc`) is a natural number, so no count ever goes negative |
| `RefsBalanced` | once the system is quiescent, every value's count equals the references still held (registers' indirects, exported results) and everything else is freed |
| `ValuesInUseAlive` | no task holds a pointer to a freed value: bound arguments, kernel results being published, the publish target, a waiting closure's value, exported results |
| `DispatchValueAlive` | the value `ProcessUsedBys` reads at line 255 is alive |
| `PublishTargetFree` | the assertion at 492: a register gets at most one real value |
| `StrictKernelSeesAvailableArgs` | a strict kernel is only invoked on available arguments |
| `ErrorPropagates` | a strict kernel with an error argument short-circuits |
| `ExecutorAliveWhileUsed` | no task runs on a destroyed executor |
| `LocationHandlerOutlivesPending` | the handler lives while any pending result could still report through it |
| `FileAliveWhileUsed` | the BEF file is referenced while any thread walks the function's kernels, or any pending result may still decode a location through the handler, even after the caller has dropped its `BEFFunction` |
| `Termination` | eventually every task is done, every result is available, the executor and handler are destroyed, and the only reference left to the BEF file is the caller's (if the caller still holds one) |
| `CancelledRunsNoKernel` | spec S6: an execution cancelled before it starts invokes no kernel implementation, and every result a kernel computes ends as an error (checked in `select_cancel` only) |
| `ResultsSetOnReturn` | spec §6: on return every `results[i]` holds a reference |
| `ArgErrorPoisonsResults` | spec §8.5: every result that an error argument flows into, through the function's dataflow graph (`FlowGraph`, reachability by `Graphs!ConnectionsIn`), is an error |
| `DataflowRefinement`, `DataflowSafety` | the executor implements `Dataflow!Spec` (or its safety part); see below |

### The abstract specification: `Dataflow.tla`

`Dataflow` states what the executor promises, with no threads, counters, reference counts or indirect values:

- `fired`: the set of kernels that have fired. `Fire(k)` is allowed once, and only when every argument is available or one is an error.
- `def[r]`: `"none"` until register r is defined, then its state. `Update` changes any number of registers in one step, each in one of two ways. A register whose producer has fired is defined, as an error if the producer is strict and saw an error argument. An unavailable register becomes concrete or error.
- `Spec` adds weak fairness on every `Fire(k)`: every kernel eventually fires.

`BEFExecutor` maps onto it through `DF == INSTANCE Dataflow WITH ...`:

- `fired` is `{k : notready[k] <= 0}`. A kernel fires at the decrement from 1 to 0. After error acceleration the counter keeps going below 0, so the count cannot be mapped to a number of firings; firing twice is caught by `PublishTargetFree` instead.
- `def[r]` is `"none"` while the register is empty or holds its own unforwarded placeholder, and otherwise the state of its value through the forwarding chain.

The refinement ties together the counter protocol, acceleration, used-by dispatch, the register CAS races and forwarding. A misfired acceleration shows up as a `Fire` whose guard is false. Forwarding to the wrong value shows up as a register moving backwards.

### Fairness

`WF_vars(\E t : TaskStep(t)) /\ WF_vars(Environment)`.

- Tasks: a thread that has work runs it. The work is finite (each kernel fires once, each closure runs once), so weak fairness on "some task steps" forces every task to finish.
- Environment: async kernels eventually resolve their values. `Termination` states the executor's promise under that assumption.
- The caller's steps (`DropFunction`, `ReleaseResult`) and cancellation are never forced.

## 3. Runs (`MC_BEFExecutor.tla`)

`MC_BEFExecutor.tla` defines two graphs.

**Race** (`MC_Race.cfg`, `MC_RaceUAF.cfg`, `MC_RaceNoRetain.cfg`, `MC_RaceCancel.cfg`, `MC_LoadFail.cfg`): two function arguments (`unavail`), kernels 1–3, registers 0–5, result register 4.

- k1 uses arg r0 and may finish sync or async, so its result r2 is published from the main thread or from a callback.
- k2 may produce an error on r3.
- k3 uses r2 and r3, so error acceleration on r3 races the publish of r2.
- r5 is an unused result of k1 (the location-handler path).
- Execute exports r4 while k3 may still be publishing it.

| Run | Expect | Checks |
|---|---|---|
| `race` | pass (≈157k states) | `TypeOK`, `RefsBalanced`, `ValuesInUseAlive`, `PublishTargetFree`, `StrictKernelSeesAvailableArgs`, `ErrorPropagates`, `ExecutorAliveWhileUsed`, `LocationHandlerOutlivesPending`, `FileAliveWhileUsed`, `Termination`, `DataflowRefinement` |
| `load_fail` | violation | `ResultsSetOnReturn` with `ReadFunctionMayFail = TRUE` |
| `race_uaf` | violation | `DispatchValueAlive` |
| `race_no_retain` | violation | `ValuesInUseAlive` with `ForwardRetains = FALSE` |
| `race_cancel` | pass (≈2.5k states) | `RefsBalanced`, `Termination` with `PreCancelled = TRUE`: the arguments still resolve and their callbacks still run the loop, every kernel short-circuits with `FormRef` of the cancel value, and those references balance |

`race_uaf` is a use-after-free. k1 publishes r2 on a callback thread. The main thread's error on r3 accelerates k3, which binds r2, short-circuits and drops the last reference. The callback then reads `r2->state()` at line 255.

**Select** (`MC_Select.cfg`, `MC_SelectArgError.cfg`, `MC_SelectLive.cfg`, `MC_SelectCancel.cfg`): arguments r0 and r1, which may be `unavail`, `concrete` or `error`.

- Non-strict kernel 2 selects its first argument (r0) into r3.
- k3 uses r3 and r1.
- The function exports r3, r4 and the argument register r1 directly.

This graph exercises:

- forwarding chains (indirect → indirect → argument);
- a non-strict kernel fired early by acceleration;
- strict short-circuiting with a pending indirect argument.

| Run | Expect | Checks |
|---|---|---|
| `select` | pass (≈400k states) | `RefsBalanced`, `ValuesInUseAlive`, `PublishTargetFree`, `StrictKernelSeesAvailableArgs`, `ErrorPropagates`, `ExecutorAliveWhileUsed` |
| `select_arg_error` | violation | `ArgErrorPoisonsResults`: a0 is an error, the non-strict select returns its other argument r2 (concrete), so r3 and r4 = k3(r3, a1), which both depend on a0, end Concrete |
| `select_live` | pass (≈400k states, about 2.5 min) | `Termination` and the full `DataflowRefinement`, on `SelectLive_Outcomes`: k1's result is always pending, so r2 reaches the select only through its `AndThen` closure |
| `select_cancel` | violation | `CancelledRunsNoKernel` with `PreCancelled = TRUE`: the non-strict select still runs and exports a concrete argument |

**FanOut** (`MC_FanOut.cfg`, `MC_FanOutReturns.cfg`, `MC_FanOutAlias.cfg`): argument a0 (pending) and results r2 and r3.

- r1 = k1() may be pending or an error. It is used by both r2 = k2(r1) and r3 = k3(r1, a0).
- A pending r1 gets one batch `AndThen` closure for k2 and k3 (lines 307-320). a0 has its own closure.
- k3 therefore fires on whichever closure thread comes second, or early on the main thread when r1 is an error.
- k2's result may itself be pending and is only exported, which exercises the location-handler path through an export.

| Run | Expect | Checks |
|---|---|---|
| `fanout` | pass (≈29k states) | all the safety invariants of `race`, `Termination` and `DataflowRefinement` |
| `fanout_uaf` | violation | `DispatchValueAlive` with `CallerReleases = TRUE`: the use-after-free at line 255, reached through the caller instead of acceleration |
| `fanout_alias` | pass (≈108k states) | `RefsBalanced`, `ValuesInUseAlive`, `Termination` with `FanOutAlias_ResultRegs = <<2, 3, 3>>` and `CallerReleases = TRUE`: r3 is exported by two result slots (spec §9), and the caller may release any slot while callbacks still run |

An argument that starts `concrete` or `error` reaches no state that a pending argument resolved at once does not also reach, so `ArgStates = {"unavail"}` loses nothing. TLC's counts are the same either way.

Why these bounds are enough: every race the code has, between two threads on one register or one counter, needs only two threads and one register, and each graph contains each one. A third thread adds interleavings of the same pairs. `TypeOK` is checked on Race and FanOut. `select` checks the safety invariants and `DataflowSafety` on every argument state. The liveness properties (`Termination` and the full `DataflowRefinement`) take minutes on Select, so they run separately in `select_live`. That run starts the arguments pending, since starting them available adds no states, as explained above.

All cfgs say `CHECK_DEADLOCK FALSE`, because the executor really stops once everything has been destroyed.

## 4. Findings

1. **Use-after-free in `ProcessUsedBys` (code bug, line 255).** After `SetRegisterValue`'s CAS, the value's `user_count` references all belong to consumers. Another holder can drop the last one before the publisher reads `state()`. In `race_uaf` that holder is a consumer fired early by error acceleration on another thread. In `fanout_uaf` it is the caller: k2 runs on r1's callback thread and publishes r2, whose only user is a result slot. `Execute` takes that reference at line 629 and returns, and the caller releases `results[0]` before the callback reads r2's state.
2. **Spec §8.5 is too strong (spec gap, line 452).** A non-strict kernel runs despite an error argument and may return another, concrete argument. A result that the error argument flows into then ends Concrete. In `select_arg_error`, a0 is an error, the select returns r2, and r3 and r4 come out Concrete. The code gives §8.5 only where every kernel on the path is strict. The spec's scenario S4 expects the non-strict behaviour.
3. **Spec §3 leaves out a property of `ForwardTo` the executor needs (spec gap, line 514).** This shows up in `race_no_retain`:
   - k3 is fired early by r3's error. It binds r2's placeholder and drops its reference.
   - k1 then publishes a pending result into r2. It forwards the placeholder, installs an `AndThen` closure on it, and drops its own reference at line 514.
   - Only `ForwardTo` retaining the indirect until its target resolves keeps the waiter, and the executor reference it holds, from being freed.
4. **Execute leaves its results null when loading fails (spec–code divergence, line 606).** If `ReadFunction` returns no kernels, `Execute` returns before it builds an executor or exports anything. `results[]` stays null and no error value reports the failure. Spec §6 says every `results[i]` holds a strong reference on return, and §8.4 says every result becomes available. `load_fail` finds this at the first state.

5. **Cancellation does not stop non-strict kernels (spec–code divergence, line 452).** The cancel value only seeds `any_error_argument` (line 392). A non-strict kernel runs whatever that holds. In `select_cancel`, the host has cancelled before `Execute` starts, yet the select runs and exports the concrete argument a0 as a function result. Spec scenario S6 says such an execution resolves every result to the cancel error without invoking any kernel. Spec §7, which handles cancellation like an error argument, agrees with the code. With every kernel strict (`race_cancel`), a pre-cancelled execution still balances its references and terminates.

## 5. Not modelled

- **Attribute and function binding** (430-448): static data, with no state change.
- **Tracing and debug printing.**
- **Kernel decoding and entry offsets**: the graph constants stand in for them.
- **`DecodeLocation`**: a pure lookup. Only the file reference it needs is modelled (`FileAliveWhileUsed`).
- **Memory orders**: the model is sequentially consistent. Each atomic's acquire/release pairs order the accesses the code relies on.

## 6. Plan for later work

1. The identity round-trip law of spec §8 would need a caller action that releases `results[]`. Once the results are released, `RefsBalanced` already implies that every argument's count returns to the caller's single reference, so the law would add an action of the caller rather than a new check of the executor.
