---------------------------- MODULE BEFExecutor ----------------------------
(***************************************************************************)
(* The BEF executor of src/lib/bef_executor/bef_executor.cc: the register  *)
(* file, the arguments_not_ready counters, the worklist-driven firing loop *)
(* (DecrementArgumentsNotReadyCounts), used-by dispatch (ProcessUsedBys),  *)
(* the speculative register installs (GetOrCreateRegisterValue,            *)
(* SetRegisterValue), error acceleration, the executor and location        *)
(* handler reference counts, and Execute's export of the function results. *)
(*                                                                         *)
(* Threads.  The calling thread is the task Main.  Every AndThen closure   *)
(* installed by ProcessUsedBys is a task Callback(k, i) (at most one per   *)
(* kernel result); once its value is available it runs its own            *)
(* DecrementArgumentsNotReadyCounts on its own worklist, concurrently with *)
(* every other task.  Each atomic operation of the code (fetch_sub, a CAS, *)
(* a state() read) is its own step; steps on task-private data are merged  *)
(* with the shared step they follow.                                       *)
(*                                                                         *)
(* AsyncValues are named: ArgVal(n) (caller-supplied), OutVal(k, i) (the   *)
(* fresh value a kernel implementation returns for result i), IndVal(r)    *)
(* (the IndirectAsyncValue installed in register r) and CancelVal.  A      *)
(* value is alive while its reference count rc is positive.                *)
(***************************************************************************)
EXTENDS Integers, Sequences, FiniteSets

LOCAL INSTANCE SequencesExt
LOCAL G == INSTANCE Graphs

CONSTANTS
    NumKernels,   \* kernels 0..NumKernels-1; kernel 0 is the arguments pseudo kernel if NumArgs > 0
    NumRegs,      \* registers 0..NumRegs-1; registers 0..NumArgs-1 hold the arguments
    NumArgs,      \* number of function arguments
    KArgs,        \* KArgs[k]: sequence of the argument registers of kernel k
    KResults,     \* KResults[k]: sequence of the result registers of kernel k
    NonStrict,    \* kernels whose special_metadata has the kNonStrict bit
    ResultRegs,   \* sequence of the registers exported as function results
    ArgStates,    \* states a caller-supplied argument can be in at Execute
    Outcomes,     \* Outcomes[k] \subseteq {"concrete","error","unavail","arg"}
    ForwardRetains, \* ForwardTo to a pending target keeps the indirect alive
    ReadFunctionMayFail, \* ReadFunction may yield no kernels (a load error)
    PreCancelled, \* the host's cancel value is already set when Execute starts
    CallerReleases, \* the caller may drop its results[] once Execute has returned
    Null

Kernels == 0..NumKernels-1
Regs    == 0..NumRegs-1
HasArgumentsPseudoKernel == NumArgs > 0
RealKernels == IF HasArgumentsPseudoKernel THEN Kernels \ {0} ELSE Kernels
IsPseudo(k) == HasArgumentsPseudoKernel /\ k = 0

ASSUME /\ NumArgs \in Nat /\ NumArgs <= NumRegs
       /\ \A k \in Kernels : IsInjective(KArgs[k])
       /\ HasArgumentsPseudoKernel =>
             KArgs[0] = <<>> /\ KResults[0] = [i \in 1..NumArgs |-> i - 1]
       /\ Null \notin Regs
       /\ ForwardRetains \in BOOLEAN
       /\ ReadFunctionMayFail \in BOOLEAN
       /\ PreCancelled \in BOOLEAN
       /\ CallerReleases \in BOOLEAN

(***************************************************************************)
(* Static function description, as the loader (BEFFileImpl::ReadFunction)  *)
(* produces it: used-by lists, user counts and initial counters.           *)
(***************************************************************************)
Users(r) == SetToSortSeq({k \in Kernels : r \in Range(KArgs[k])}, <)
UsedBy(k, i) == Users(KResults[k][i])
\* Mutant: a register exported by several result slots counted once.
UserCount_DistinctSlots(r) ==
    Len(Users(r)) + (IF \E i \in DOMAIN ResultRegs : ResultRegs[i] = r THEN 1 ELSE 0)
UserCount(r) ==
    Len(Users(r)) + Cardinality({i \in DOMAIN ResultRegs : ResultRegs[i] = r})
InitialNotReady(k) == Len(KArgs[k]) + 1

ArgVal(n)    == <<"arg", n>>
OutVal(k, i) == <<"out", k, i>>
IndVal(r)    == <<"ind", r>>
CancelVal    == <<"cancel">>
IndVals   == {IndVal(r) : r \in Regs}
PlainVals == {ArgVal(n) : n \in 0..NumArgs-1} \cup {CancelVal}
             \cup UNION {{OutVal(k, i) : i \in DOMAIN KResults[k]} : k \in RealKernels}
Vals == PlainVals \cup IndVals

Main        == <<"main">>
Callback(k, i) == <<"cb", k, i>>
Tasks == {Main} \cup UNION {{Callback(k, i) : i \in {i \in DOMAIN KResults[k] : UsedBy(k, i) # <<>>}}
                            : k \in Kernels}

VARIABLES
    reg,        \* RegisterInfo::value
    vstate,     \* state of each plain AsyncValue ("none" = not yet created)
    fwd,        \* target an IndirectAsyncValue was forwarded to, or Null
    fwdHold,    \* the indirect still waits for its target (ForwardTo's AndThen)
    rc,         \* reference count of each AsyncValue
    notready,   \* KernelInfo::arguments_not_ready
    erc,        \* reference count of the BEFExecutor
    lrc,        \* reference count of the BEFLocationHandler
    hcb,        \* MaybeAddRefForResult closures pending on each value
    cancelled,  \* the host's cancel AsyncValue is set
    pc,         \* per task: phase and the locals of the loop
    results,    \* Execute's results[] array
    frc,        \* reference count of the BEFFileImpl
    fnHeld      \* the caller still holds its BEFFunction (BEFFunction::AddRef)

vars == <<reg, vstate, fwd, fwdHold, rc, notready, erc, lrc, hcb, cancelled, pc, results,
          frc, fnHeld>>

Phases == {"none", "wait", "pseudo", "loop", "bind", "run", "pub", "used", "drop",
           "export", "done"}
Idle == [st |-> "none", wl |-> <<>>, k |-> 0, j |-> 0, err |-> Null,
         args |-> <<>>, outs |-> <<>>, rv |-> Null, set |-> FALSE]

(***************************************************************************)
(* AsyncValue primitives (external: tfrt/host_context/async_value.h).      *)
(***************************************************************************)
RECURSIVE State(_)
\* An indirect value is available once forwarded and its target available.
State(v) ==
    IF v \in IndVals
    THEN IF fwd[v] = Null \/ fwdHold[v] THEN "unavail" ELSE State(fwd[v])
    ELSE vstate[v]
IsAvailable(v) == State(v) \in {"concrete", "error"}
IsError(v)     == State(v) = "error"

\* DropRef on v; an indirect reaching zero releases the value it holds.
RECURSIVE DropRef(_, _)
DropRef(f, v) ==
    LET g == [f EXCEPT ![v] = @ - 1]
    IN  IF v \in IndVals /\ g[v] = 0 /\ fwd[v] # Null THEN DropRef(g, fwd[v]) ELSE g
RECURSIVE DropAll(_, _)
DropAll(f, s) == IF s = <<>> THEN f ELSE DropAll(DropRef(f, Head(s)), Tail(s))
AddRef(f, v, n) == [f EXCEPT ![v] = @ + n]

(***************************************************************************)
(* Helper functions of the executor.                                       *)
(***************************************************************************)
\* GetOrCreateRegisterValue: the value it returns for register r.  A losing
\* speculative indirect is private to the caller and nets to zero refs.
GetOrCreateValue(r) == IF reg[r] # Null THEN reg[r] ELSE IndVal(r)

\* Mutant: the +1 owed to the eventual forwarding is forgotten.
IndirectInitialRefs_NoForwardRef(u) == u
\* A new indirect starts at 1 and gets AddRef(user_count).
IndirectInitialRefs(u) == u + 1

GetOrCreateRegisterValue(r) ==
    IF reg[r] # Null
    THEN UNCHANGED <<reg, rc>>
    ELSE /\ reg' = [reg EXCEPT ![r] = IndVal(r)]
         /\ rc'  = [rc EXCEPT ![IndVal(r)] = IndirectInitialRefs(UserCount(r))]

\* Mutant: the speculative AddRef forgets that the kernel's +1 counts as a use.
SpeculativeAddRefCount_NoMinusOne(u) == u
\* SetRegisterValue: the kernel's +1 plus user_count - 1 makes user_count.
SpeculativeAddRefCount(u) == u - 1

\* Mutant: the CAS loop stores 0 instead of 1.
SetKernelsWithErrorInputReady_ToZero(nr, users) ==
    [k \in DOMAIN nr |-> IF k \in Range(users) /\ nr[k] > 1 THEN 0 ELSE nr[k]]
\* SetKernelsWithErrorInputReady: the CAS loop lowers every count above 1 to 1.
SetKernelsWithErrorInputReady(nr, users) ==
    [k \in DOMAIN nr |-> IF k \in Range(users) /\ nr[k] > 1 THEN 1 ELSE nr[k]]

\* Mutant: the readiness test also fires on a count already at zero.
ReadyToFire_AtMostOne(old) == old <= 1
\* The fetch_sub that observes the 1 -> 0 transition fires the kernel.
ReadyToFire(old) == old = 1

\* Mutant: any argument, not only an error one, is recorded.
NoteErrorArgument_Never(err, v) == err
\* Binding: an argument in the error state becomes any_error_argument.
NoteErrorArgument(err, v) == IF IsError(v) THEN v ELSE err

\* Mutant: error acceleration on every available result.
AccelerateOn_Available(v) == IsAvailable(v)
\* ProcessUsedBys accelerates the users of an error result.
AccelerateOn(v) == IsError(v)

\* Mutant: the pending branch forgets the executor AddRef.
KeepAliveRefs_Missing == 0
\* ProcessUsedBys's AddRef() before installing the AndThen closure.
KeepAliveRefs == 1

\* Mutant: no closure is attached to a pending result.
MaybeAddRefForResult_Noop(v) == UNCHANGED <<hcb, lrc>>
\* MaybeAddRefForResult: a no-op closure holding the location handler.
MaybeAddRefForResult(v) ==
    IF IsAvailable(v)
    THEN UNCHANGED <<hcb, lrc>>
    ELSE /\ hcb' = [hcb EXCEPT ![v] = @ + 1]
         /\ lrc' = lrc + 1

\* Mutant: the host's cancel value is not consulted.
InitialErrorArgument_NoCancel == Null
\* any_error_argument starts as GetHost()->GetCancelAsyncValue(): the cancel
\* value once the execution is cancelled, else null.
InitialErrorArgument == IF cancelled THEN CancelVal ELSE Null

\* Mutant: the location handler does not hold the BEF file.
HandlerFileRefs_Missing == 0
\* BEFLocationHandler's bef_file_(FormRef(bef_file)).
HandlerFileRefs == 1

\* DropRef on the executor.  Destroy releases the executor's bef_file_ and
\* location_handler_; the handler's last reference releases its bef_file_.
DropExecutorRef ==
    /\ erc' = erc - 1
    /\ IF erc = 1
       THEN /\ lrc' = lrc - 1
            /\ frc' = frc - 1 - (IF lrc = 1 THEN HandlerFileRefs ELSE 0)
       ELSE UNCHANGED <<lrc, frc>>
    /\ UNCHANGED fnHeld

\* Where a task goes after finishing result j of kernel k.
NextResult(p) ==
    IF IsPseudo(p.k)
    THEN [p EXCEPT !.st = "pseudo", !.j = p.j + 1, !.rv = Null, !.set = FALSE]
    ELSE IF p.j < Len(KResults[p.k])
         THEN [p EXCEPT !.st = "pub", !.j = p.j + 1, !.rv = Null, !.set = FALSE]
         ELSE [Idle EXCEPT !.st = "loop", !.wl = p.wl]

------------------------------------------------------------------------------
\* Execute: ReadFunction, InitializeArgumentRegisters, the executor and its
\* location handler (each holding the BEF file) and the constructor's
\* worklist of every kernel; or, when ReadFunction yields no kernels, an
\* immediate return with nothing set up.  The caller holds the function.
Init ==
    /\ \E s \in [0..NumArgs-1 -> ArgStates] :
          vstate = [v \in PlainVals |->
                      CASE v = CancelVal -> "error"
                        [] \E n \in 0..NumArgs-1 : v = ArgVal(n) -> s[v[2]]
                        [] OTHER -> "none"]
    /\ fwd = [v \in IndVals |-> Null]
    /\ fwdHold = [v \in IndVals |-> FALSE]
    /\ notready = [k \in Kernels |-> InitialNotReady(k)]
    /\ hcb = [v \in Vals |-> 0]
    /\ cancelled = PreCancelled
    /\ results = [i \in DOMAIN ResultRegs |-> Null]
    /\ fnHeld = TRUE
    /\ \/ /\ reg = [r \in Regs |-> IF r < NumArgs THEN ArgVal(r) ELSE Null]
          /\ rc = [v \in Vals |-> CASE v = CancelVal -> 1
                                    [] \E n \in 0..NumArgs-1 : v = ArgVal(n) -> 1 + UserCount(v[2])
                                    [] OTHER -> 0]
          /\ erc = 1
          /\ lrc = 1
          /\ frc = 2 + HandlerFileRefs
          /\ pc = [t \in Tasks |->
                     IF t = Main
                     THEN [Idle EXCEPT
                             !.st = IF HasArgumentsPseudoKernel THEN "pseudo" ELSE "loop",
                             !.j  = 1,
                             !.wl = Reverse([i \in 1..Cardinality(RealKernels) |->
                                              IF HasArgumentsPseudoKernel THEN i ELSE i - 1])]
                     ELSE Idle]
       \/ /\ ReadFunctionMayFail
          /\ reg = [r \in Regs |-> Null]
          /\ rc = [v \in Vals |-> IF v[1] \in {"arg", "cancel"} THEN 1 ELSE 0]
          /\ erc = 0
          /\ lrc = 0
          /\ frc = 1
          /\ pc = [t \in Tasks |-> IF t = Main THEN [Idle EXCEPT !.st = "done"] ELSE Idle]

(***************************************************************************)
(* ProcessArgumentsPseudoKernel: one used-by dispatch per used argument.   *)
(***************************************************************************)
ProcessArgumentsPseudoKernel(t) ==
    LET p == pc[t]
        r == p.j - 1
    IN  /\ p.st = "pseudo"
        /\ pc' = [pc EXCEPT ![t] =
                    CASE p.j > NumArgs      -> [Idle EXCEPT !.st = "loop", !.wl = p.wl]
                      [] UserCount(r) = 0   -> [p EXCEPT !.j = p.j + 1]
                      [] OTHER              -> [p EXCEPT !.st = "used", !.k = 0, !.rv = reg[r]]]
        /\ UNCHANGED <<reg, vstate, fwd, fwdHold, rc, notready, erc, lrc, hcb, cancelled, results, frc, fnHeld>>

(***************************************************************************)
(* DecrementArgumentsNotReadyCounts: pop the worklist back, fetch_sub.     *)
(* On 1 -> 0 the kernel fires and any_error_argument starts as the cancel  *)
(* value.                                                                  *)
(***************************************************************************)
PopKernel(t) ==
    LET p == pc[t]
        k == Last(p.wl)
    IN  /\ p.st = "loop"
        /\ p.wl # <<>>
        /\ notready' = [notready EXCEPT ![k] = @ - 1]
        /\ pc' = [pc EXCEPT ![t] =
                    IF ReadyToFire(notready[k])
                    THEN [Idle EXCEPT !.st = IF KArgs[k] = <<>> THEN "run" ELSE "bind",
                                      !.wl = Front(p.wl), !.k = k, !.j = 1,
                                      !.err = InitialErrorArgument]
                    ELSE [p EXCEPT !.wl = Front(p.wl)]]
        /\ UNCHANGED <<reg, vstate, fwd, fwdHold, rc, erc, lrc, hcb, cancelled, results, frc, fnHeld>>

\* The worklist is empty: Main goes on to export the results, an AndThen
\* closure drops its executor reference.
LoopDone(t) ==
    /\ pc[t].st = "loop"
    /\ pc[t].wl = <<>>
    /\ IF t = Main
       THEN /\ pc' = [pc EXCEPT ![t] = [Idle EXCEPT !.st = "export", !.j = 1]]
            /\ UNCHANGED <<erc, lrc, frc, fnHeld>>
       ELSE /\ pc' = [pc EXCEPT ![t] = [Idle EXCEPT !.st = "done"]]
            /\ DropExecutorRef
    /\ UNCHANGED <<reg, vstate, fwd, fwdHold, rc, notready, hcb, cancelled, results>>

\* Bind argument j: GetOrCreateRegisterValue, then note an error argument.
BindArgument(t) ==
    LET p == pc[t]
        r == KArgs[p.k][p.j]
        v == GetOrCreateValue(r)
    IN  /\ p.st = "bind"
        /\ GetOrCreateRegisterValue(r)
        /\ pc' = [pc EXCEPT ![t] =
                    [p EXCEPT !.args = Append(p.args, v),
                              !.err  = NoteErrorArgument(p.err, v),
                              !.j    = p.j + 1,
                              !.st   = IF p.j = Len(KArgs[p.k]) THEN "run" ELSE "bind"]]
        /\ UNCHANGED <<vstate, fwd, fwdHold, notready, erc, lrc, hcb, cancelled, results, frc, fnHeld>>

\* What a kernel implementation may return for result i: a fresh value in a
\* state of Outcomes[k] (a pending one is also held by the async work), or a
\* new reference to one of its arguments.
ResultChoices(k, i, args) ==
    {[v |-> OutVal(k, i), st |-> s] : s \in Outcomes[k] \ {"arg"}}
    \cup (IF "arg" \in Outcomes[k]
          THEN {[v |-> args[a], st |-> "shared"] : a \in DOMAIN args} ELSE {})

RECURSIVE AddRefAll(_, _)
AddRefAll(f, s) == IF s = <<>> THEN f ELSE AddRefAll(AddRef(f, Head(s), 1), Tail(s))

\* Fire: run kernel_fn when no argument is an error or the kernel is
\* non-strict, else set every result to a new reference of
\* any_error_argument; then DropRef every argument.
RunKernel(t) ==
    LET p == pc[t]
        n == Len(KResults[p.k])
    IN  /\ p.st = "run"
        /\ \/ /\ p.err = Null \/ p.k \in NonStrict
              /\ \E c \in [1..n -> UNION {ResultChoices(p.k, i, p.args) : i \in 1..n}] :
                   /\ \A i \in 1..n : c[i] \in ResultChoices(p.k, i, p.args)
                   /\ LET fresh == {i \in 1..n : c[i].st # "shared"}
                          outs  == [i \in 1..n |-> c[i].v]
                          rc1   == [v \in Vals |->
                                      IF \E i \in fresh : c[i].v = v
                                      THEN IF c[CHOOSE i \in fresh : c[i].v = v].st = "unavail"
                                           THEN 2 ELSE 1
                                      ELSE rc[v]]
                          shared == SelectSeq(outs, LAMBDA v : v \notin {c[i].v : i \in fresh})
                      IN  /\ vstate' = [v \in PlainVals |->
                                          IF \E i \in fresh : c[i].v = v
                                          THEN c[CHOOSE i \in fresh : c[i].v = v].st
                                          ELSE vstate[v]]
                          /\ rc' = DropAll(AddRefAll(rc1, shared), p.args)
                          /\ pc' = [pc EXCEPT ![t] = [p EXCEPT !.outs = outs, !.j = 1,
                                                               !.st = IF n = 0 THEN "loop" ELSE "pub"]]
           \/ /\ p.err # Null /\ p.k \notin NonStrict
              /\ rc' = DropAll(AddRef(rc, p.err, n), p.args)
              /\ pc' = [pc EXCEPT ![t] = [p EXCEPT !.outs = [i \in 1..n |-> p.err], !.j = 1,
                                                   !.st = IF n = 0 THEN "loop" ELSE "pub"]]
              /\ UNCHANGED vstate
        /\ UNCHANGED <<reg, fwd, fwdHold, notready, erc, lrc, hcb, cancelled, results, frc, fnHeld>>

\* IndirectAsyncValue::ForwardTo(v): the indirect takes over the +1 on v; if
\* v is still unavailable it waits on v, holding a reference to itself when
\* ForwardRetains.
ForwardTo(ind, v) ==
    /\ fwd' = [fwd EXCEPT ![ind] = v]
    /\ IF IsAvailable(v) \/ ~ForwardRetains
       THEN UNCHANGED <<fwdHold, rc>>
       ELSE /\ fwdHold' = [fwdHold EXCEPT ![ind] = TRUE]
            /\ rc' = AddRef(rc, ind, 1)

\* SetRegisterValue: CAS v into register r.  Losing against an indirect,
\* it forwards the indirect to v and returns it with register_already_set.
SetRegisterValue(t, r, v) ==
    LET p == pc[t]
    IN  \/ /\ reg[r] = Null
           /\ reg' = [reg EXCEPT ![r] = v]
           /\ rc' = AddRef(rc, v, SpeculativeAddRefCount(UserCount(r)))
           /\ pc' = [pc EXCEPT ![t] = [p EXCEPT !.st = "used", !.rv = v, !.set = FALSE]]
           /\ UNCHANGED <<fwd, fwdHold>>
        \/ /\ reg[r] \in IndVals
           /\ ForwardTo(reg[r], v)
           /\ pc' = [pc EXCEPT ![t] = [p EXCEPT !.st = "used", !.rv = reg[r], !.set = TRUE]]
           /\ UNCHANGED reg

\* Publish result j: a result nobody uses gets MaybeAddRefForResult and
\* loses the kernel's +1; any other goes through SetRegisterValue.
PublishResult(t) ==
    LET p == pc[t]
        r == KResults[p.k][p.j]
        v == p.outs[p.j]
    IN  /\ p.st = "pub"
        /\ \/ /\ UserCount(r) = 0
              /\ MaybeAddRefForResult(v)
              /\ rc' = DropRef(rc, v)
              /\ pc' = [pc EXCEPT ![t] = NextResult(p)]
              /\ UNCHANGED <<reg, fwd, fwdHold>>
           \/ /\ UserCount(r) > 0
              /\ SetRegisterValue(t, r, v)
              /\ UNCHANGED <<hcb, lrc>>
        /\ UNCHANGED <<vstate, notready, erc, cancelled, results, frc, fnHeld>>

AfterUsedBys(p) == IF p.set THEN [p EXCEPT !.st = "drop"] ELSE NextResult(p)

\* ProcessUsedBys: one state() read; accelerate on error; enqueue the users
\* if available, else keep the executor alive and install the AndThen closure.
ProcessUsedBys(t) ==
    LET p     == pc[t]
        users == UsedBy(p.k, p.j)
        v     == p.rv
    IN  /\ p.st = "used"
        /\ IF users = <<>>
           THEN /\ MaybeAddRefForResult(v)
                /\ pc' = [pc EXCEPT ![t] = AfterUsedBys(p)]
                /\ UNCHANGED <<notready, erc>>
           ELSE /\ notready' = IF AccelerateOn(v)
                               THEN SetKernelsWithErrorInputReady(notready, users)
                               ELSE notready
                /\ UNCHANGED <<hcb, lrc>>
                /\ IF IsAvailable(v)
                   THEN /\ pc' = [pc EXCEPT ![t] = AfterUsedBys([p EXCEPT !.wl = p.wl \o users])]
                        /\ UNCHANGED erc
                   ELSE /\ erc' = erc + KeepAliveRefs
                        /\ pc' = [pc EXCEPT ![t] = AfterUsedBys(p),
                                            ![Callback(p.k, p.j)] =
                                               [Idle EXCEPT !.st = "wait", !.rv = v, !.wl = users]]
        /\ UNCHANGED <<reg, vstate, fwd, fwdHold, rc, cancelled, results, frc, fnHeld>>

\* DropRef on the IndirectAsyncValue after ProcessUsedBys used it.
DropIndirect(t) ==
    /\ pc[t].st = "drop"
    /\ rc' = DropRef(rc, pc[t].rv)
    /\ pc' = [pc EXCEPT ![t] = NextResult(pc[t])]
    /\ UNCHANGED <<reg, vstate, fwd, fwdHold, notready, erc, lrc, hcb, cancelled, results, frc, fnHeld>>

\* The AndThen closure runs once its value is available.
RunCallback(t) ==
    /\ pc[t].st = "wait"
    /\ IsAvailable(pc[t].rv)
    /\ pc' = [pc EXCEPT ![t] = [Idle EXCEPT !.st = "loop", !.wl = pc[t].wl]]
    /\ UNCHANGED <<reg, vstate, fwd, fwdHold, rc, notready, erc, lrc, hcb, cancelled, results, frc, fnHeld>>

\* Execute: results[j] takes the register's value, or a new indirect.
ExportResult ==
    LET p == pc[Main]
        r == ResultRegs[p.j]
    IN  /\ p.st = "export"
        /\ p.j <= Len(ResultRegs)
        /\ GetOrCreateRegisterValue(r)
        /\ results' = [results EXCEPT ![p.j] = GetOrCreateValue(r)]
        /\ pc' = [pc EXCEPT ![Main] = [p EXCEPT !.j = p.j + 1]]
        /\ UNCHANGED <<vstate, fwd, fwdHold, notready, erc, lrc, hcb, cancelled, frc, fnHeld>>

\* Execute drops the executor's initial reference and returns.
ExecuteReturn ==
    /\ pc[Main].st = "export"
    /\ pc[Main].j > Len(ResultRegs)
    /\ pc' = [pc EXCEPT ![Main] = [Idle EXCEPT !.st = "done"]]
    /\ DropExecutorRef
    /\ UNCHANGED <<reg, vstate, fwd, fwdHold, rc, notready, hcb, cancelled, results>>

TaskStep(t) ==
    \/ ProcessArgumentsPseudoKernel(t)
    \/ PopKernel(t)
    \/ LoopDone(t)
    \/ BindArgument(t)
    \/ RunKernel(t)
    \/ PublishResult(t)
    \/ ProcessUsedBys(t)
    \/ DropIndirect(t)
    \/ RunCallback(t)
    \/ (t = Main /\ (ExportResult \/ ExecuteReturn))

(***************************************************************************)
(* The environment: async work and callers resolving pending values, the  *)
(* AndThen of ForwardTo completing, location closures running, and the     *)
(* host cancelling the execution.                                          *)
(***************************************************************************)
ResolveValue(v, s) ==
    /\ vstate[v] = "unavail"
    /\ vstate' = [vstate EXCEPT ![v] = s]
    /\ rc' = IF v[1] = "out" THEN DropRef(rc, v) ELSE rc
    /\ UNCHANGED <<reg, fwd, fwdHold, notready, erc, lrc, hcb, cancelled, pc, results, frc, fnHeld>>

CompleteForward(ind) ==
    /\ fwdHold[ind]
    /\ IsAvailable(fwd[ind])
    /\ fwdHold' = [fwdHold EXCEPT ![ind] = FALSE]
    /\ rc' = DropRef(rc, ind)
    /\ UNCHANGED <<reg, vstate, fwd, notready, erc, lrc, hcb, cancelled, pc, results, frc, fnHeld>>

RunLocationClosures(v) ==
    /\ hcb[v] > 0
    /\ IsAvailable(v)
    /\ lrc' = lrc - hcb[v]
    /\ frc' = IF lrc = hcb[v] THEN frc - HandlerFileRefs ELSE frc
    /\ hcb' = [hcb EXCEPT ![v] = 0]
    /\ UNCHANGED <<reg, vstate, fwd, fwdHold, rc, notready, erc, cancelled, pc, results, fnHeld>>

CancelExecution ==
    /\ ~cancelled
    /\ cancelled' = TRUE
    /\ UNCHANGED <<reg, vstate, fwd, fwdHold, rc, notready, erc, lrc, hcb, pc, results, frc, fnHeld>>

\* The caller, once Execute has returned, releases its BEFFunction:
\* BEFFunction::DropRef drops the BEF file.
DropFunction ==
    /\ fnHeld
    /\ pc[Main].st = "done"
    /\ fnHeld' = FALSE
    /\ frc' = frc - 1
    /\ UNCHANGED <<reg, vstate, fwd, fwdHold, rc, notready, erc, lrc, hcb, cancelled, pc, results>>
\* The caller, once Execute has returned, drops its reference results[i].
ReleaseResult(i) ==
    /\ CallerReleases
    /\ pc[Main].st = "done"
    /\ results[i] # Null
    /\ rc' = DropRef(rc, results[i])
    /\ results' = [results EXCEPT ![i] = Null]
    /\ UNCHANGED <<reg, vstate, fwd, fwdHold, notready, erc, lrc, hcb, cancelled, pc, frc, fnHeld>>

Environment ==
    \/ \E v \in PlainVals, s \in {"concrete", "error"} : ResolveValue(v, s)
    \/ \E ind \in IndVals : CompleteForward(ind)
    \/ \E v \in Vals : RunLocationClosures(v)

\* Threads that hold work keep running, and pending values are eventually
\* resolved (the kernel contract); cancellation is never forced.  Every task
\* and every environment step is finite in number, so weak fairness of the
\* two unions already makes each of them happen.
Fairness ==
    /\ WF_vars(\E t \in Tasks : TaskStep(t))
    /\ WF_vars(Environment)

Next ==
    \/ \E t \in Tasks : TaskStep(t)
    \/ Environment
    \/ CancelExecution
    \/ DropFunction
    \/ \E i \in DOMAIN results : ReleaseResult(i)

Spec == Init /\ [][Next]_vars /\ Fairness

------------------------------------------------------------------------------
(***************************************************************************)
(* Properties                                                              *)
(***************************************************************************)
TypeOK ==
    /\ reg \in [Regs -> Vals \cup {Null}]
    /\ vstate \in [PlainVals -> {"none", "unavail", "concrete", "error"}]
    /\ fwd \in [IndVals -> Vals \cup {Null}]
    /\ fwdHold \in [IndVals -> BOOLEAN]
    /\ rc \in [Vals -> Nat]
    /\ notready \in [Kernels -> Int]
    /\ erc \in Nat /\ lrc \in Nat
    /\ hcb \in [Vals -> Nat]
    /\ cancelled \in BOOLEAN
    /\ \A t \in Tasks : pc[t].st \in Phases /\ pc[t].k \in Kernels
    /\ results \in [DOMAIN ResultRegs -> Vals \cup {Null}]
    /\ frc \in Nat /\ fnHeld \in BOOLEAN

\* Nothing is running, waiting or pending any more.
Quiescent ==
    /\ \A t \in Tasks : pc[t].st \in {"none", "done"}
    /\ \A v \in PlainVals : vstate[v] # "unavail"
    /\ \A ind \in IndVals : ~fwdHold[ind]
    /\ \A v \in Vals : hcb[v] = 0

\* The references on v that outlive the execution: the caller's (arguments)
\* or the host's (cancel value), one per results[] slot holding v, and one
\* per live indirect forwarded to v.
Holders(v) ==
    Cardinality({i \in DOMAIN results : results[i] = v})
    + Cardinality({ind \in IndVals : fwd[ind] = v /\ rc[ind] > 0})
    + (IF v[1] \in {"arg", "cancel"} THEN 1 ELSE 0)

(* Reference counting of 4.1 (GetOrCreateRegisterValue, SetRegisterValue,  *)
(* the argument DropRefs, the forward path's extra DropRef): once the      *)
(* execution has quiesced, every AsyncValue's count equals exactly the     *)
(* references still held outside the executor: no leak, no over-release.   *)
RefsBalanced ==
    Quiescent => \A v \in Vals : rc[v] = Holders(v)

(* ProcessUsedBys (bef_executor.cc:255) reads the state of the value it    *)
(* just stored in the register, and the forward path DropRefs it after:    *)
(* that value must still be alive at the read.                             *)
DispatchValueAlive ==
    \A t \in Tasks : pc[t].st \in {"used", "drop"} => rc[pc[t].rv] > 0

(* Every other value a task holds is alive: the arguments bound in the     *)
(* kernel frame, the results before they are published, the indirect a    *)
(* result is forwarded to, a pending value an AndThen closure waits on     *)
(* (its waiter list lives in the value), and each                          *)
(* results[] slot handed to the caller.                                    *)
ValuesInUseAlive ==
    /\ \A t \in Tasks :
          /\ pc[t].st \in {"bind", "run"} => \A a \in Range(pc[t].args) : rc[a] > 0
          /\ pc[t].st = "pub" =>
                /\ rc[pc[t].outs[pc[t].j]] > 0
                /\ LET r == KResults[pc[t].k][pc[t].j]
                   IN  reg[r] \in IndVals => rc[reg[r]] > 0
          /\ (pc[t].st = "wait" /\ ~IsAvailable(pc[t].rv)) => rc[pc[t].rv] > 0
    /\ \A i \in DOMAIN results : results[i] # Null => rc[results[i]] > 0

(* The assertion of bef_executor.cc:492: when a kernel publishes a result  *)
(* its register is unset or holds an unresolved IndirectAsyncValue, i.e.   *)
(* each register gets at most one real value (single assignment).          *)
PublishTargetFree ==
    \A t \in Tasks :
       pc[t].st = "pub" =>
          LET r == KResults[pc[t].k][pc[t].j]
          IN  reg[r] = Null \/ (reg[r] \in IndVals /\ fwd[reg[r]] = Null)

(* A strict kernel's implementation is only invoked (no error argument and *)
(* no cancellation seen) when every argument it was handed is available:   *)
(* error acceleration may fire a kernel early, but only into the           *)
(* error-propagation branch.                                               *)
StrictKernelSeesAvailableArgs ==
    \A t \in Tasks :
       (pc[t].st = "run" /\ pc[t].k \notin NonStrict /\ pc[t].err = Null)
          => \A a \in Range(pc[t].args) : IsAvailable(a)

(* Error propagation (spec 7, 8.5 per kernel): after the execution has     *)
(* quiesced, every used result register of a strict kernel that has an     *)
(* error argument ends in the error state.                                  *)
ErrorPropagates ==
    Quiescent =>
      \A k \in RealKernels \ NonStrict :
         (\E a \in Range(KArgs[k]) : IsError(reg[a])) =>
            \A r \in Range(KResults[k]) : UserCount(r) > 0 => IsError(reg[r])

(* The executor is alive while any thread runs its loop or any AndThen     *)
(* closure capturing it is pending (ProcessUsedBys's AddRef, line 279).    *)
ExecutorAliveWhileUsed ==
    \A t \in Tasks : pc[t].st \notin {"none", "done"} => erc > 0

(* MaybeAddRefForResult (line 360): while a value produced by a kernel is  *)
(* still pending, the location handler it may report through is alive.     *)
LocationHandlerOutlivesPending ==
    \A v \in PlainVals : (v[1] = "out" /\ vstate[v] = "unavail") => lrc > 0

(* The BEF file outlives its readers (the bef_file_ members of lines 213   *)
(* and 167): while any thread still walks the kernels_ of the function, or *)
(* a pending kernel result may still call DecodeLocation through the       *)
(* location handler, the file is referenced, even after the caller has     *)
(* dropped its BEFFunction.                                                *)
FileAliveWhileUsed ==
    \/ frc > 0
    \/ /\ \A t \in Tasks : pc[t].st \in {"none", "done"}
       /\ \A v \in PlainVals : ~(v[1] = "out" /\ vstate[v] = "unavail")

(* Spec S6 and 7: an execution cancelled before it starts invokes no      *)
(* kernel implementation (the cancel value read at line 392 short-circuits *)
(* every kernel as an error argument would), and once everything has       *)
(* settled every function result a kernel computes is an error (a result   *)
(* that is an argument register is the caller's own value).                *)
CancelledRunsNoKernel ==
    PreCancelled =>
        /\ \A v \in PlainVals : v[1] = "out" => vstate[v] = "none"
        /\ Quiescent => \A i \in DOMAIN results :
                           ResultRegs[i] >= NumArgs => IsError(results[i])

(* Spec 6 and 8.4: when Execute returns, every results[i] holds a strong  *)
(* reference to an AsyncValue, so a caller may always wait on its results. *)
(* Execute returns at line 606 when ReadFunction yields no kernels.        *)
ResultsSetOnReturn ==
    pc[Main].st = "done" => \A i \in DOMAIN results : results[i] # Null

(* Spec 8.2, 8.4 and 9: every kernel fires, every function result becomes  *)
(* available (unless the caller has already released it), and the        *)
(* executor and location handler are finally released.                    *)
Finished ==
    /\ Quiescent
    /\ \A k \in RealKernels : notready[k] <= 0
    /\ \A i \in DOMAIN results : results[i] = Null \/ IsAvailable(results[i])
    /\ erc = 0
    /\ lrc = 0
    /\ frc = IF fnHeld THEN 1 ELSE 0
Termination == <>[]Finished

(* The dataflow graph of the function: an edge from each argument register *)
(* of a kernel to each of its result registers.                            *)
FlowGraph == [node |-> Regs,
              edge |-> UNION {Range(KArgs[k]) \X Range(KResults[k]) : k \in RealKernels}]
DependsOn == G!ConnectionsIn(FlowGraph)

(* Spec 8.5: "If any function argument is Error, every function result is *)
(* Error (possibly via forwarding)", stated, once the execution has        *)
(* quiesced, of every result that the error argument flows into (itself    *)
(* included): error propagation through each kernel on the way, short-     *)
(* circuiting (line 452) and acceleration, must deliver the error.         *)
ArgErrorPoisonsResults ==
    Quiescent =>
      \A n \in 0..NumArgs-1, i \in DOMAIN results :
         (vstate[ArgVal(n)] = "error" /\ DependsOn[n, ResultRegs[i]]) => IsError(results[i])

------------------------------------------------------------------------------
(***************************************************************************)
(* Refinement of Dataflow.  A kernel has fired once its arguments_not_ready *)
(* has gone from 1 to 0 (later decrements take it below 0); a register is  *)
(* defined once it holds a value other than its own unforwarded           *)
(* placeholder, and its state is that value's (through forwarding).       *)
(***************************************************************************)
RegisterDef(r) ==
    IF reg[r] = Null \/ (reg[r] = IndVal(r) /\ fwd[reg[r]] = Null)
    THEN "none"
    ELSE State(reg[r])

DF == INSTANCE Dataflow WITH Kernels <- RealKernels,
                             Inputs  <- 0..NumArgs-1,
                             fired   <- {k \in RealKernels : notready[k] <= 0},
                             def     <- [r \in Regs |-> RegisterDef(r)]

(* Spec 4.2, 7, 8.2, 8.3 and the single assignment of 3, as one promise:  *)
(* the counters, error acceleration, used-by dispatch and the register     *)
(* CAS races together implement a dataflow execution in which each kernel *)
(* fires exactly once, only when its arguments are available or one is an *)
(* error, each register is defined once after its producer fired (as an   *)
(* error if a strict producer saw an error argument), states only move     *)
(* forward, and every kernel eventually fires.                             *)
DataflowRefinement == DF!Spec

(* The same promise without the liveness part, for graphs too large for    *)
(* liveness checking.                                                      *)
DataflowSafety == DF!SafetySpec
==============================================================================
