-------------------------- MODULE MC_BEFExecutor --------------------------
(***************************************************************************)
(* Functions the executor is checked on.                                   *)
(***************************************************************************)
EXTENDS BEFExecutor, TLC

(* Race: r2 = k1(a0) with a0 pending, so k1 runs on a callback thread, and *)
(* k1's second result r5 is never used; r3 = k2() may be an error, which   *)
(* accelerates k3 on the main thread; r4 = k3(r2, r3) is the function      *)
(* result.  The argument a1 (r1) is never used.                            *)
Race_KArgs     == 0 :> <<>> @@ 1 :> <<0>> @@ 2 :> <<>> @@ 3 :> <<2, 3>>
Race_KResults  == 0 :> <<0, 1>> @@ 1 :> <<2, 5>> @@ 2 :> <<3>> @@ 3 :> <<4>>
Race_Outcomes  == 0 :> {} @@ 1 :> {"concrete", "unavail"}
                  @@ 2 :> {"error", "concrete"} @@ 3 :> {"concrete", "unavail"}
Race_ResultRegs == <<4>>

(* Select: r2 = k1() may be pending; r3 = select(a0, r2) is non-strict and *)
(* returns one of its arguments (possibly an unresolved indirect); r4 =   *)
(* k3(r3, a1); r3, r4 and the argument a1 itself are function results.    *)
Select_KArgs     == 0 :> <<>> @@ 1 :> <<>> @@ 2 :> <<0, 2>> @@ 3 :> <<3, 1>>
Select_KResults  == 0 :> <<0, 1>> @@ 1 :> <<2>> @@ 2 :> <<3>> @@ 3 :> <<4>>
Select_Outcomes  == 0 :> {} @@ 1 :> {"concrete", "unavail"} @@ 2 :> {"arg"}
                    @@ 3 :> {"concrete"}
Select_ResultRegs == <<3, 4, 1>>

(* Select with k1's result always pending, so that r2 reaches the select   *)
(* only through its AndThen closure: the instance liveness is checked on.  *)
SelectLive_Outcomes == [Select_Outcomes EXCEPT ![1] = {"unavail"}]

(* FanOut: r1 = k1() may be pending or an error and is used by both        *)
(* r2 = k2(r1) and r3 = k3(r1, a0), with a0 pending: k3 fires on whichever *)
(* of the two AndThen closures (a0's, or r1's batch closure for k2 and k3) *)
(* comes second, or early on r1's error; k2's result may be pending too.  *)
(* r2 and r3 are the function results.                                    *)
FanOut_KArgs     == 0 :> <<>> @@ 1 :> <<>> @@ 2 :> <<1>> @@ 3 :> <<1, 0>>
FanOut_KResults  == 0 :> <<0>> @@ 1 :> <<1>> @@ 2 :> <<2>> @@ 3 :> <<3>>
FanOut_Outcomes  == 0 :> {} @@ 1 :> {"unavail", "error"} @@ 2 :> {"concrete", "unavail"}
                    @@ 3 :> {"concrete"}
FanOut_ResultRegs == <<2, 3>>

(* FanOut with aliased result slots (spec 9): r3 is exported twice, so its *)
(* user_count counts two result slots besides its users.                  *)
FanOutAlias_ResultRegs == <<2, 3, 3>>
==============================================================================
