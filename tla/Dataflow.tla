------------------------------ MODULE Dataflow ------------------------------
(***************************************************************************)
(* What the BEF executor promises about one execution of a function, with  *)
(* no threads, counters, reference counts or indirect values: a dataflow   *)
(* graph of kernels over single-assignment registers (spec 3, 4.2, 7, 8).  *)
(*                                                                         *)
(*  - a kernel fires exactly once, and only when each of its arguments is  *)
(*    available or one of them is an error (error acceleration);           *)
(*  - a register is defined at most once, and only after its producer has  *)
(*    fired; a strict kernel with an error argument defines its results as *)
(*    errors;                                                              *)
(*  - a defined register's state only moves forward: unavailable ->        *)
(*    concrete or error, never back.  One resolution may make several      *)
(*    registers available at once (they share the value).                  *)
(***************************************************************************)
EXTENDS Naturals, FiniteSets, Sequences

CONSTANTS
    Kernels,    \* the real kernels (the arguments pseudo kernel excluded)
    Regs,       \* registers
    Inputs,     \* registers holding the function's arguments from the start
    KArgs,      \* KArgs[k]: argument registers of kernel k
    KResults,   \* KResults[k]: result registers of kernel k
    NonStrict   \* kernels that run despite error arguments

VARIABLES
    fired,      \* the kernels that have fired
    def         \* def[r]: "none" until register r is defined, then its state

avars == <<fired, def>>

States    == {"unavail", "concrete", "error"}
Available == {"concrete", "error"}

ArgRegs(k) == {KArgs[k][i] : i \in DOMAIN KArgs[k]}
ResRegs(k) == {KResults[k][i] : i \in DOMAIN KResults[k]}

\* A kernel may fire once every argument is available, or as soon as one is
\* an error.
Fireable(k) ==
    \/ \A a \in ArgRegs(k) : def[a] \in Available
    \/ \E a \in ArgRegs(k) : def[a] = "error"

\* The states the results of a fired kernel may be defined with.
ResultStates(k) ==
    IF k \notin NonStrict /\ \E a \in ArgRegs(k) : def[a] = "error"
    THEN {"error"}
    ELSE States

Init ==
    /\ fired = {}
    /\ def \in [Regs -> States \cup {"none"}]
    /\ \A r \in Regs : def[r] = "none" <=> r \notin Inputs

Fire(k) ==
    /\ k \notin fired
    /\ Fireable(k)
    /\ fired' = fired \cup {k}
    /\ UNCHANGED def

\* A register may change in one step in one of two ways: its producer
\* defines it, or its unavailable value resolves.
Evolves(r) ==
    \/ def'[r] = def[r]
    \/ /\ def[r] = "none"
       /\ \E k \in Kernels : r \in ResRegs(k) /\ k \in fired /\ def'[r] \in ResultStates(k)
    \/ def[r] = "unavail" /\ def'[r] \in Available

Update ==
    /\ def' \in [Regs -> States \cup {"none"}]
    /\ \A r \in Regs : Evolves(r)
    /\ UNCHANGED fired

Next == (\E k \in Kernels : Fire(k)) \/ Update

\* The executor fires every kernel it can.
Spec == Init /\ [][Next]_avars /\ \A k \in Kernels : WF_avars(Fire(k))

SafetySpec == Init /\ [][Next]_avars
==============================================================================
