---------------------------- MODULE RunnerProofs ----------------------------
(***************************************************************************)
(* The two runners of a run directory.  First the concurrent one.          *)
(*                                                                         *)
(* The admission and the load accounting of ConcurrentRun, for every set   *)
(* of requests and adapters and every max_concurrency.                     *)
(*                                                                         *)
(* TypeOK is not inductive: a worker that leaves adds one to the permits,  *)
(* and only PermitsConserved says that this stays within PermitLimit.      *)
(* PermitsConserved and LoadIsLive are inductive once it is known that a   *)
(* request in flight has been routed (InFlightIsRouted): that is what ties *)
(* the counter end_dispatch lowers to the one begin_dispatch raised.       *)
(***************************************************************************)
EXTENDS ConcurrentRun, SequentialRun, FiniteSetTheorems, TLAPS

(***************************************************************************)
(* A request in flight has a decision.                                     *)
(***************************************************************************)
InFlightIsRouted == \A r \in InFlight : decision[r] \in Adapters

AdmissionInv ==
    /\ TypeOK
    /\ InFlightIsRouted
    /\ PermitsConserved
    /\ LoadIsLive

USE RequestsAssumption, SessionsAssumption, ConcurrencyAssumption, NoAdapterAssumption
------------------------------------------------------------------------------
(***************************************************************************)
(* PermitLimit is a positive number, also for max_concurrency = 0.         *)
(***************************************************************************)
LEMMA PermitLimitPositive == PermitLimit \in Nat /\ PermitLimit >= 1
BY DEF PermitLimit

(***************************************************************************)
(* The sets that are counted are finite.                                   *)
(***************************************************************************)
LEMMA CountedSetsFinite ==
    /\ IsFiniteSet(InFlight)
    /\ Cardinality(InFlight) \in Nat
    /\ \A a : IsFiniteSet(OnAdapter(a)) /\ Cardinality(OnAdapter(a)) \in Nat
<1>1. IsFiniteSet(InFlight)
  <2>1. InFlight \subseteq Requests
    BY DEF InFlight
  <2>. QED  BY <2>1, FS_Subset
<1>2. ASSUME NEW a PROVE IsFiniteSet(OnAdapter(a))
  <2>1. OnAdapter(a) \subseteq InFlight
    BY DEF OnAdapter
  <2>. QED  BY <1>1, <2>1, FS_Subset
<1>. QED  BY <1>1, <1>2, FS_CardinalityType

(***************************************************************************)
(* A step that moves no request into or out of flight and no permit and no *)
(* load keeps the accounting.                                              *)
(***************************************************************************)
LEMMA AccountingFrame ==
    ASSUME InFlightIsRouted, PermitsConserved, LoadIsLive,
           InFlight' = InFlight,
           UNCHANGED <<decision, permits, adapter_load>>
    PROVE  InFlightIsRouted' /\ PermitsConserved' /\ LoadIsLive'
<1>1. ASSUME NEW a PROVE OnAdapter(a)' = OnAdapter(a)
  BY DEF OnAdapter
<1>. QED
  BY <1>1 DEF InFlightIsRouted, PermitsConserved, LoadIsLive, PermitLimit

(***************************************************************************)
(* Admitting a request takes one permit and adds one to its adapter.       *)
(***************************************************************************)
LEMMA DispatchAccounting ==
    ASSUME AdmissionInv, NEW r \in Requests, NEW a \in Adapters, Dispatch(r, a)
    PROVE  InFlightIsRouted' /\ PermitsConserved' /\ LoadIsLive'
<1>. USE DEF AdmissionInv
<1>1. r \notin InFlight /\ InFlight' = InFlight \cup {r}
  BY DEF TypeOK, Dispatch, InFlight, Holding
<1>2. decision' = [decision EXCEPT ![r] = a]
  BY DEF Dispatch
<1>3. InFlightIsRouted'
  BY <1>1, <1>2 DEF InFlightIsRouted, TypeOK, InFlight
<1>4. Cardinality(InFlight') = Cardinality(InFlight) + 1
  BY <1>1, CountedSetsFinite, FS_AddElement
<1>5. PermitsConserved'
  BY <1>4, CountedSetsFinite, PermitLimitPositive
  DEF PermitsConserved, PermitLimit, Dispatch, TypeOK
<1>6. LoadIsLive'
  <2>1. OnAdapter(a)' = OnAdapter(a) \cup {r} /\ r \notin OnAdapter(a)
    BY <1>1, <1>2 DEF OnAdapter, TypeOK, InFlight
  <2>2. ASSUME NEW b \in Adapters, b # a
        PROVE  OnAdapter(b)' = OnAdapter(b)
    BY <1>1, <1>2, <2>2 DEF OnAdapter, TypeOK, InFlight
  <2>3. Cardinality(OnAdapter(a)') = Cardinality(OnAdapter(a)) + 1
    BY <2>1, CountedSetsFinite, FS_AddElement
  <2>4. adapter_load' = [adapter_load EXCEPT ![a] = adapter_load[a] + 1]
    BY DEF Dispatch, begin_dispatch
  <2>. QED
    BY <2>2, <2>3, <2>4 DEF LoadIsLive, TypeOK
<1>. QED  BY <1>3, <1>5, <1>6

(***************************************************************************)
(* Leaving flight gives back one permit and takes one from the adapter the *)
(* request was counted on; the counter it lowers is not zero.              *)
(***************************************************************************)
LEMMA ReleaseAccounting ==
    ASSUME AdmissionInv, NEW r \in InFlight,
           Release(r),
           decision' = decision,
           InFlight' = InFlight \ {r}
    PROVE  /\ InFlightIsRouted' /\ PermitsConserved' /\ LoadIsLive'
           /\ permits' \in 0 .. PermitLimit
           /\ adapter_load' \in [Adapters -> Nat]
<1>. USE DEF AdmissionInv
<1>0. r \in Requests /\ decision[r] \in Adapters
  BY DEF InFlight, InFlightIsRouted
<1>1. InFlightIsRouted'
  BY DEF InFlightIsRouted
<1>2. Cardinality(InFlight') = Cardinality(InFlight) - 1
  BY CountedSetsFinite, FS_RemoveElement
<1>3. Cardinality(InFlight) >= 1
  BY CountedSetsFinite, FS_EmptySet
<1>4. permits' = permits + 1
  BY DEF Release
<1>5. PermitsConserved' /\ permits' \in 0 .. PermitLimit
  BY <1>2, <1>3, <1>4, CountedSetsFinite, PermitLimitPositive
  DEF PermitsConserved, PermitLimit, TypeOK
<1>6. LoadIsLive' /\ adapter_load' \in [Adapters -> Nat]
  <2>. DEFINE a == decision[r]
  <2>1. OnAdapter(a)' = OnAdapter(a) \ {r} /\ r \in OnAdapter(a)
    BY DEF OnAdapter
  <2>2. ASSUME NEW b \in Adapters, b # a
        PROVE  OnAdapter(b)' = OnAdapter(b)
    BY <2>2 DEF OnAdapter
  <2>3. Cardinality(OnAdapter(a)') = Cardinality(OnAdapter(a)) - 1
    BY <2>1, CountedSetsFinite, FS_RemoveElement
  <2>4. Cardinality(OnAdapter(a)) >= 1
    BY <2>1, CountedSetsFinite, FS_EmptySet
  <2>5. adapter_load' =
          [adapter_load EXCEPT ![a] = IF adapter_load[a] <= 1 THEN 0 ELSE adapter_load[a] - 1]
    BY DEF Release, end_dispatch
  <2>6. adapter_load[a] = Cardinality(OnAdapter(a)) /\ adapter_load[a] \in Nat
    BY <1>0 DEF LoadIsLive, TypeOK
  <2>7. adapter_load' = [adapter_load EXCEPT ![a] = adapter_load[a] - 1]
    <3>1. (IF adapter_load[a] <= 1 THEN 0 ELSE adapter_load[a] - 1) = adapter_load[a] - 1
      <4>. DEFINE n == adapter_load[a]
      <4>1. n \in Nat /\ n >= 1
        BY <2>4, <2>6
      <4>. HIDE DEF n
      <4>2. (IF n <= 1 THEN 0 ELSE n - 1) = n - 1
        BY <4>1
      <4>. QED  BY <4>2 DEF n
    <3>. QED  BY <2>5, <3>1
  <2>8. adapter_load' \in [Adapters -> Nat]
    BY <1>0, <2>4, <2>6, <2>7 DEF TypeOK
  <2>. QED
    BY <1>0, <2>2, <2>3, <2>6, <2>7, <2>8 DEF LoadIsLive, TypeOK
<1>. QED  BY <1>1, <1>5, <1>6

(***************************************************************************)
(* The workers that change nothing but their own phase.                    *)
(***************************************************************************)
LEMMA QuietWorkerSteps ==
    ASSUME AdmissionInv, NEW r \in Requests,
           Arrive(r) \/ RouteFails(r) \/ Respond(r)
    PROVE  AdmissionInv'
<1>. USE DEF AdmissionInv, TypeOK, Phases, Holding, InFlight, mainVars, sharedVars,
             workerVars, cacheVars
<1>1. CASE Arrive(r)
  <2>1. TypeOK'
    BY <1>1 DEF Arrive, PermitLimit
  <2>2. InFlight' = InFlight
    BY <1>1 DEF Arrive
  <2>. QED  BY <1>1, <2>1, <2>2, AccountingFrame DEF Arrive
<1>2. CASE RouteFails(r)
  <2>1. TypeOK'
    BY <1>2 DEF RouteFails, PermitLimit
  <2>2. InFlight' = InFlight
    BY <1>2 DEF RouteFails
  <2>. QED  BY <1>2, <2>1, <2>2, AccountingFrame DEF RouteFails
<1>3. CASE Respond(r)
  <2>1. TypeOK'
    BY <1>3 DEF Respond, PermitLimit
  <2>2. InFlight' = InFlight
    BY <1>3 DEF Respond
  <2>. QED  BY <1>3, <2>1, <2>2, AccountingFrame DEF Respond
<1>. QED  BY <1>1, <1>2, <1>3

LEMMA DispatchStep ==
    ASSUME AdmissionInv, NEW r \in Requests, NEW a \in Adapters, Dispatch(r, a)
    PROVE  AdmissionInv'
<1>1. TypeOK'
  BY DEF AdmissionInv, TypeOK, Dispatch, begin_dispatch, remember, Phases, PermitLimit,
         mainVars
<1>. QED  BY <1>1, DispatchAccounting DEF AdmissionInv

LEMMA FinishStep ==
    ASSUME AdmissionInv, NEW r \in InFlight, NEW o \in {"ok", "error"}, Finish(r, o)
    PROVE  AdmissionInv'
<1>1. r \in Requests
  BY DEF InFlight
<1>2. InFlight' = InFlight \ {r} /\ Release(r) /\ decision' = decision
  BY <1>1 DEF AdmissionInv, TypeOK, Finish, InFlight, Holding
<1>3. /\ InFlightIsRouted' /\ PermitsConserved' /\ LoadIsLive'
      /\ permits' \in 0 .. PermitLimit
      /\ adapter_load' \in [Adapters -> Nat]
  BY <1>2, ReleaseAccounting
<1>4. TypeOK'
  BY <1>1, <1>3
  DEF AdmissionInv, TypeOK, Finish, Release, Phases, PermitLimit, mainVars, cacheVars
<1>. QED  BY <1>3, <1>4 DEF AdmissionInv

LEMMA CancelStep ==
    ASSUME AdmissionInv, NEW r \in Requests, Cancel(r)
    PROVE  AdmissionInv'
<1>1. CASE phase[r] \in Holding
  <2>1. r \in InFlight
    BY <1>1 DEF InFlight
  <2>2. InFlight' = InFlight \ {r} /\ Release(r) /\ decision' = decision
    BY <1>1 DEF AdmissionInv, TypeOK, Cancel, InFlight, Holding
  <2>3. /\ InFlightIsRouted' /\ PermitsConserved' /\ LoadIsLive'
        /\ permits' \in 0 .. PermitLimit
        /\ adapter_load' \in [Adapters -> Nat]
    BY <2>1, <2>2, ReleaseAccounting
  <2>4. TypeOK'
    BY <2>2, <2>3
    DEF AdmissionInv, TypeOK, Cancel, Release, Phases, PermitLimit, mainVars, cacheVars
  <2>. QED  BY <2>3, <2>4 DEF AdmissionInv
<1>2. CASE phase[r] \notin Holding
  <2>1. TypeOK'
    BY <1>2 DEF AdmissionInv, TypeOK, Cancel, Phases, PermitLimit, mainVars, cacheVars,
                sharedVars
  <2>2. InFlight' = InFlight
    BY <1>2 DEF AdmissionInv, TypeOK, Cancel, InFlight, Holding
  <2>. QED
    BY <1>2, <2>1, <2>2, AccountingFrame DEF AdmissionInv, Cancel, sharedVars
<1>. QED  BY <1>1, <1>2

(***************************************************************************)
(* The main coroutine never touches permits, loads or phases.              *)
(***************************************************************************)
LEMMA MainCoroutineSteps ==
    ASSUME AdmissionInv, MainStep \/ Interrupt \/ UNCHANGED vars
    PROVE  AdmissionInv'
<1>. USE DEF AdmissionInv, vars, mainVars, workerVars, sharedVars, cacheVars
<1>1. UNCHANGED <<phase, decision, outcome, permits, adapter_load, session_adapter,
                  observed, cache_view>>
  BY DEF MainStep, MainProgress, Interrupt, StartServing, WriteRow, StopServing, WriteSummary,
         JudgeFailed, JudgePassed, FinishRun, MainFails, Conclude
<1>2. InFlight' = InFlight
  BY <1>1 DEF InFlight
<1>3. /\ main' \in MainSteps
      /\ summary_file' \in {"absent", "stale", "fresh", "torn"}
      /\ status_file' \in {"running", "complete", "failed"}
      /\ interrupted' \in BOOLEAN
  BY DEF TypeOK, MainSteps, MainStep, MainProgress, Interrupt, StartServing, WriteRow, StopServing,
         WriteSummary, JudgeFailed, JudgePassed, FinishRun, MainFails, Conclude
<1>4. done' \in Seq(Requests) /\ rows' \in Seq(Requests)
  <2>1. CASE WriteRow
    BY <2>1 DEF WriteRow, TypeOK
  <2>2. CASE ~WriteRow
    BY <2>2 DEF TypeOK, MainStep, MainProgress, Interrupt, StartServing, StopServing, WriteSummary,
                JudgeFailed, JudgePassed, FinishRun, MainFails, Conclude
  <2>. QED  BY <2>1, <2>2
<1>5. TypeOK'
  BY <1>1, <1>3, <1>4 DEF TypeOK, PermitLimit
<1>. QED  BY <1>1, <1>2, <1>5, AccountingFrame

LEMMA AdmissionInit == Init => AdmissionInv
<1>. SUFFICES ASSUME Init PROVE AdmissionInv
  OBVIOUS
<1>1. TypeOK
  <2>1. permits \in 0 .. PermitLimit
    BY PermitLimitPositive DEF Init
  <2>2. observed \in Seq(Requests) /\ done \in Seq(Requests) /\ rows \in Seq(Requests)
    BY DEF Init
  <2>3. /\ adapter_load \in [Adapters -> Nat]
        /\ cache_view \in [Requests -> Nat]
        /\ phase \in [Requests -> Phases]
        /\ decision \in [Requests -> Adapters \cup {NoAdapter}]
        /\ outcome \in [Requests -> {"none", "ok", "error"}]
        /\ session_adapter \in [Sessions -> Adapters \cup {NoAdapter}]
    BY DEF Init, Phases
  <2>4. /\ main \in MainSteps
        /\ summary_file \in {"absent", "stale", "fresh", "torn"}
        /\ status_file \in {"running", "complete", "failed"}
        /\ interrupted \in BOOLEAN
    BY DEF Init, MainSteps
  <2>. QED  BY <2>1, <2>2, <2>3, <2>4 DEF TypeOK
<1>2. InFlight = {}
  BY DEF Init, InFlight, Holding
<1>3. \A a : OnAdapter(a) = {}
  BY <1>2 DEF OnAdapter
<1>4. InFlightIsRouted
  BY <1>2 DEF InFlightIsRouted
<1>5. PermitsConserved
  BY <1>2, FS_EmptySet, PermitLimitPositive DEF PermitsConserved, Init
<1>6. LoadIsLive
  BY <1>3, FS_EmptySet DEF LoadIsLive, Init
<1>. QED  BY <1>1, <1>4, <1>5, <1>6 DEF AdmissionInv

LEMMA AdmissionNext == AdmissionInv /\ [Next]_vars => AdmissionInv'
<1>. SUFFICES ASSUME AdmissionInv, [Next]_vars PROVE AdmissionInv'
  OBVIOUS
<1>1. ASSUME NEW r \in Requests, WorkerStep(r) PROVE AdmissionInv'
  <2>1. CASE Arrive(r) \/ RouteFails(r) \/ Respond(r)
    BY <2>1, QuietWorkerSteps
  <2>2. CASE \E a \in Adapters : Dispatch(r, a)
    BY <2>2, DispatchStep
  <2>3. CASE Return(r)
    BY <2>3, FinishStep DEF Return, InFlight, Holding
  <2>4. CASE RequestFails(r)
    BY <2>4, FinishStep DEF RequestFails, InFlight
  <2>5. CASE Cancel(r)
    BY <2>5, CancelStep
  <2>. QED  BY <1>1, <2>1, <2>2, <2>3, <2>4, <2>5 DEF WorkerStep
<1>2. ASSUME MainStep \/ Interrupt \/ Ended \/ UNCHANGED vars PROVE AdmissionInv'
  BY <1>2, MainCoroutineSteps DEF Ended
<1>. QED  BY <1>1, <1>2 DEF Next
------------------------------------------------------------------------------
(***************************************************************************)
(* The types hold in every reachable state (run_concurrent.py).            *)
(***************************************************************************)
THEOREM TypeCorrect == Spec => []TypeOK
<1>1. AdmissionInv => TypeOK
  BY DEF AdmissionInv
<1>. QED  BY <1>1, AdmissionInit, AdmissionNext, PTL DEF Spec

(***************************************************************************)
(* The load a routing policy reads is the number of requests in flight on  *)
(* the adapter, through failures, cancellation and interrupts.             *)
(***************************************************************************)
THEOREM LoadAlwaysLive == Spec => []LoadIsLive
<1>1. AdmissionInv => LoadIsLive
  BY DEF AdmissionInv
<1>. QED  BY <1>1, AdmissionInit, AdmissionNext, PTL DEF Spec

(***************************************************************************)
(* Permits are conserved, and so no more than max(1, max_concurrency)      *)
(* requests are in flight together.                                        *)
(***************************************************************************)
THEOREM AdmissionIsBounded ==
    Spec => [](PermitsConserved /\ Cardinality(InFlight) <= PermitLimit)
<1>1. AdmissionInv => PermitsConserved /\ Cardinality(InFlight) <= PermitLimit
  BY CountedSetsFinite, PermitLimitPositive DEF AdmissionInv, PermitsConserved, TypeOK
<1>. QED  BY <1>1, AdmissionInit, AdmissionNext, PTL DEF Spec

(***************************************************************************)
(* A request that has not been admitted has no decision.                   *)
(***************************************************************************)
QueuedIsUnrouted ==
    \A r \in Requests : phase[r] \in {"created", "queued"} => decision[r] = NoAdapter

LEMMA QueuedInit == Init => QueuedIsUnrouted
BY DEF Init, QueuedIsUnrouted

LEMMA QueuedNext == TypeOK /\ QueuedIsUnrouted /\ [Next]_vars => QueuedIsUnrouted'
<1>. SUFFICES ASSUME TypeOK, QueuedIsUnrouted, [Next]_vars PROVE QueuedIsUnrouted'
  OBVIOUS
<1>. USE DEF QueuedIsUnrouted, TypeOK, mainVars, workerVars, sharedVars, cacheVars
<1>1. ASSUME NEW r \in Requests, WorkerStep(r) PROVE QueuedIsUnrouted'
  <2>1. CASE \E a \in Adapters : Dispatch(r, a)
    BY <2>1 DEF Dispatch
  <2>2. CASE Return(r) \/ RequestFails(r)
    BY <2>2 DEF Return, RequestFails, Finish
  <2>3. CASE Arrive(r) \/ RouteFails(r) \/ Respond(r) \/ Cancel(r)
    BY <2>3 DEF Arrive, RouteFails, Respond, Cancel
  <2>. QED  BY <1>1, <2>1, <2>2, <2>3 DEF WorkerStep
<1>2. ASSUME MainStep \/ Interrupt \/ Ended \/ UNCHANGED vars PROVE QueuedIsUnrouted'
  <2>1. UNCHANGED <<phase, decision>>
    BY <1>2 DEF vars, Ended, MainStep, MainProgress, Interrupt, StartServing, WriteRow, StopServing,
                WriteSummary, JudgeFailed, JudgePassed, FinishRun, MainFails, Conclude
  <2>. QED  BY <2>1
<1>. QED  BY <1>1, <1>2 DEF Next

(***************************************************************************)
(* Routing happens once per request, at its admission: the policy never    *)
(* runs with PermitLimit requests already in flight.                       *)
(***************************************************************************)
THEOREM RoutingIsAtDispatch == Spec => RoutedAtDispatch
<1>1. ASSUME AdmissionInv, QueuedIsUnrouted, [Next]_vars,
             NEW q \in Requests, decision'[q] # decision[q]
      PROVE  decision[q] = NoAdapter /\ q \in InFlight' /\ Cardinality(InFlight) < PermitLimit
  <2>. USE DEF AdmissionInv, TypeOK, mainVars, workerVars, sharedVars, cacheVars
  <2>1. PICK r \in Requests, a \in Adapters : Dispatch(r, a)
    <3>1. ASSUME NEW r \in Requests, WorkerStep(r), ~\E a \in Adapters : Dispatch(r, a)
          PROVE  decision' = decision
      BY <3>1 DEF WorkerStep, Arrive, RouteFails, Respond, Return, RequestFails, Finish, Cancel
    <3>2. ASSUME MainStep \/ Interrupt \/ Ended \/ UNCHANGED vars PROVE decision' = decision
      BY <3>2 DEF vars, Ended, MainStep, MainProgress, Interrupt, StartServing, WriteRow, StopServing,
                  WriteSummary, JudgeFailed, JudgePassed, FinishRun, MainFails, Conclude
    <3>. QED  BY <1>1, <3>1, <3>2 DEF Next
  <2>2. q = r /\ phase[q] = "queued" /\ permits > 0
    BY <1>1, <2>1 DEF Dispatch
  <2>3. decision[q] = NoAdapter
    BY <1>1, <2>2 DEF QueuedIsUnrouted
  <2>4. q \in InFlight'
    BY <1>1, <2>1, <2>2 DEF Dispatch, InFlight, Holding
  <2>5. Cardinality(InFlight) < PermitLimit
    BY <1>1, <2>2, CountedSetsFinite, PermitLimitPositive DEF PermitsConserved
  <2>. QED  BY <2>3, <2>4, <2>5
<1>2. AdmissionInv /\ QueuedIsUnrouted /\ [Next]_vars =>
        [\A r \in Requests : decision'[r] # decision[r] =>
            /\ decision[r] = NoAdapter
            /\ r \in InFlight'
            /\ Cardinality(InFlight) < PermitLimit]_vars
  BY <1>1
<1>3. AdmissionInv => TypeOK
  BY DEF AdmissionInv
<1>. QED
  BY <1>2, <1>3, AdmissionInit, AdmissionNext, QueuedInit, QueuedNext, PTL
  DEF Spec, RoutedAtDispatch

------------------------------------------------------------------------------
(***************************************************************************)
(* What the concurrent runner writes: every returned worker is delivered   *)
(* once, the verdict is sound, and the runner implements RunLedger.        *)
(*                                                                         *)
(* The invariant follows a result from the worker through the queue of     *)
(* as_completed into a row, and the main coroutine from the last row to    *)
(* the verdict; VerdictSound alone says nothing of the states before the   *)
(* verdict and is not inductive.                                           *)
(***************************************************************************)

Members(s) == {s[i] : i \in 1 .. Len(s)}

Pending == Members(done)

Distinct(s) == \A i, j \in 1 .. Len(s) : s[i] = s[j] => i = j

(***************************************************************************)
(* Results: a worker has returned exactly if its result is pending or      *)
(* recorded, it is one of the two and once, and then it has an outcome.    *)
(***************************************************************************)
ResultsInv ==
    /\ Distinct(rows)
    /\ Distinct(done)
    /\ Recorded \cap Pending = {}
    /\ Recorded \cup Pending = {r \in Requests : phase[r] = "returned"}
    /\ \A r \in Requests : phase[r] = "returned" <=> outcome[r] # "none"

(***************************************************************************)
(* Verdict: what each step of the main coroutine has established.          *)
(***************************************************************************)
VerdictInv ==
    /\ main = "over" <=> status_file # "running"
    /\ main # "over" => ~interrupted
    /\ main \in {"summary", "judge", "report"} => Recorded = Requests
    /\ main = "report" => Failed = {}
    /\ main \in {"judge", "report"} => summary_file = "fresh"
    /\ VerdictSound

LedgerInv == ResultsInv /\ VerdictInv
------------------------------------------------------------------------------
(***************************************************************************)
(* Appending a new element, and moving the head of one sequence to the end *)
(* of another.                                                             *)
(***************************************************************************)
LEMMA AppendFacts ==
    ASSUME NEW S, NEW s \in Seq(S), NEW x \in S
    PROVE  /\ Members(Append(s, x)) = Members(s) \cup {x}
           /\ Distinct(s) /\ x \notin Members(s) => Distinct(Append(s, x))
<1>. DEFINE t == Append(s, x)
<1>1. Len(t) = Len(s) + 1 /\ Len(s) \in Nat
  OBVIOUS
<1>2. t[Len(s) + 1] = x
  OBVIOUS
<1>3. \A i \in 1 .. Len(s) : t[i] = s[i]
  OBVIOUS
<1>. HIDE DEF t
<1>4. 1 .. Len(t) = (1 .. Len(s)) \cup {Len(s) + 1}
  BY <1>1
<1>5. {t[i] : i \in 1 .. Len(t)} = {s[i] : i \in 1 .. Len(s)} \cup {x}
  BY <1>2, <1>3, <1>4
<1>6. ASSUME Distinct(s), x \notin {s[i] : i \in 1 .. Len(s)} PROVE Distinct(t)
  BY <1>2, <1>3, <1>4, <1>6 DEF Distinct
<1>. QED  BY <1>5, <1>6 DEF t, Members

LEMMA TailFacts ==
    ASSUME NEW S, NEW s \in Seq(S), s # <<>>, Distinct(s)
    PROVE  /\ Head(s) \in Members(s) /\ Head(s) \in S
           /\ Members(Tail(s)) = Members(s) \ {Head(s)}
           /\ Distinct(Tail(s))
<1>. DEFINE t == Tail(s)
<1>1. Len(s) \in Nat /\ Len(s) >= 1 /\ Head(s) = s[1] /\ Len(t) = Len(s) - 1
  OBVIOUS
<1>2. \A i \in 1 .. Len(t) : t[i] = s[i + 1]
  OBVIOUS
<1>. HIDE DEF t
<1>3. Head(s) \in {s[i] : i \in 1 .. Len(s)} /\ Head(s) \in S
  BY <1>1
<1>4. {t[i] : i \in 1 .. Len(t)} = {s[i] : i \in 1 .. Len(s)} \ {Head(s)}
  <2>1. ASSUME NEW i \in 1 .. Len(t)
        PROVE  t[i] \in {s[j] : j \in 1 .. Len(s)} \ {Head(s)}
    <3>1. i + 1 \in 1 .. Len(s) /\ i + 1 # 1 /\ 1 \in 1 .. Len(s)
      BY <1>1
    <3>2. s[i + 1] # s[1]
      BY <3>1 DEF Distinct
    <3>. QED  BY <1>1, <1>2, <3>1, <3>2
  <2>2. ASSUME NEW j \in 1 .. Len(s), s[j] # Head(s)
        PROVE  s[j] \in {t[i] : i \in 1 .. Len(t)}
    <3>1. j # 1
      BY <1>1, <2>2
    <3>2. j - 1 \in 1 .. Len(t) /\ (j - 1) + 1 = j
      BY <1>1, <3>1
    <3>. QED  BY <1>2, <3>2
  <2>. QED  BY <2>1, <2>2
<1>5. Distinct(t)
  <2>1. SUFFICES ASSUME NEW i \in 1 .. Len(t), NEW j \in 1 .. Len(t), t[i] = t[j] PROVE i = j
    BY DEF Distinct
  <2>2. i + 1 \in 1 .. Len(s) /\ j + 1 \in 1 .. Len(s)
    BY <1>1
  <2>3. i + 1 = j + 1
    BY <1>2, <2>1, <2>2 DEF Distinct
  <2>. QED  BY <2>3
<1>. QED  BY <1>3, <1>4, <1>5 DEF t, Members
------------------------------------------------------------------------------
(***************************************************************************)
(* A worker step leaves the files alone, and adds its request to the       *)
(* pending results in the step in which it returns.                        *)
(***************************************************************************)
LEMMA WorkerKeepsResults ==
    ASSUME TypeOK, ResultsInv, NEW r \in Requests, WorkerStep(r)
    PROVE  ResultsInv'
<1>. USE DEF TypeOK, mainVars, workerVars, sharedVars, cacheVars
<1>1. CASE RouteFails(r) \/ Return(r) \/ RequestFails(r)
  <2>1. /\ rows' = rows
        /\ done' = Append(done, r)
        /\ phase[r] # "returned"
        /\ phase' = [phase EXCEPT ![r] = "returned"]
        /\ \E o \in {"ok", "error"} : outcome' = [outcome EXCEPT ![r] = o]
    BY <1>1 DEF RouteFails, Return, RequestFails, Finish, Holding
  <2>2. r \notin Pending /\ r \notin Recorded
    BY <2>1 DEF ResultsInv
  <2>3. Pending' = Pending \cup {r} /\ Distinct(done')
    <3>1. done \in Seq(Requests) /\ Distinct(done) /\ r \notin Members(done)
      BY <2>2 DEF ResultsInv, Pending
    <3>. QED  BY <2>1, <3>1, AppendFacts DEF Pending
  <2>4. Recorded' = Recorded /\ Distinct(rows')
    BY <2>1 DEF Recorded, ResultsInv
  <2>. QED  BY <2>1, <2>2, <2>3, <2>4 DEF ResultsInv
<1>2. CASE Arrive(r) \/ Respond(r) \/ Cancel(r) \/ \E a \in Adapters : Dispatch(r, a)
  <2>1. /\ UNCHANGED <<rows, done, outcome>>
        /\ phase[r] # "returned"
        /\ \E p \in Phases \ {"returned"} : phase' = [phase EXCEPT ![r] = p]
    BY <1>2 DEF Arrive, Respond, Cancel, Dispatch, Holding, Phases
  <2>2. Pending' = Pending /\ Recorded' = Recorded
    BY <2>1 DEF Pending, Recorded
  <2>. QED  BY <2>1, <2>2 DEF ResultsInv, Distinct
<1>. QED  BY <1>1, <1>2 DEF WorkerStep

(***************************************************************************)
(* A worker cannot change what is recorded.                                *)
(***************************************************************************)
LEMMA WorkerKeepsVerdict ==
    ASSUME TypeOK, ResultsInv, VerdictInv, NEW r \in Requests, WorkerStep(r)
    PROVE  /\ VerdictInv'
           /\ UNCHANGED mainVars
           /\ \A q \in Recorded : outcome'[q] = outcome[q]
<1>. USE DEF TypeOK, mainVars, workerVars, sharedVars, cacheVars
<1>1. UNCHANGED mainVars
  BY DEF WorkerStep, Arrive, Dispatch, RouteFails, Respond, Return, RequestFails, Finish,
         Release, Cancel
<1>2. phase[r] # "returned" /\ \A q \in Requests \ {r} : outcome'[q] = outcome[q]
  BY DEF WorkerStep, Arrive, Dispatch, RouteFails, Respond, Return, RequestFails, Finish,
         Release, Cancel, Holding
<1>3. \A q \in Recorded : outcome'[q] = outcome[q]
  BY <1>2 DEF ResultsInv
<1>4. Recorded' = Recorded /\ Recorded \subseteq Requests
  BY <1>1 DEF Recorded, ResultsInv
<1>5. Failed' = Failed
  BY <1>3, <1>4 DEF Failed
<1>. QED  BY <1>1, <1>3, <1>4, <1>5 DEF VerdictInv, VerdictSound

LEMMA WriteRowStep ==
    ASSUME TypeOK, ResultsInv, VerdictInv, WriteRow
    PROVE  /\ ResultsInv' /\ VerdictInv'
           /\ Head(done) \in Requests \ Recorded
           /\ Recorded' = Recorded \cup {Head(done)}
<1>. USE DEF TypeOK, sharedVars, cacheVars
<1>. DEFINE h == Head(done)
<1>1. h \in Pending /\ h \in Requests /\ Pending' = Pending \ {h} /\ Distinct(done')
  <2>1. done \in Seq(Requests) /\ done # <<>> /\ Distinct(done) /\ done' = Tail(done)
    BY DEF WriteRow, ResultsInv
  <2>. QED  BY <2>1, TailFacts DEF Pending
<1>2. h \notin Recorded
  BY <1>1 DEF ResultsInv
<1>3. Recorded' = Recorded \cup {h} /\ Distinct(rows')
  <2>1. rows \in Seq(Requests) /\ Distinct(rows) /\ rows' = Append(rows, h)
    BY DEF WriteRow, ResultsInv
  <2>2. Recorded = Members(rows) /\ Recorded' = Members(rows')
    BY DEF Recorded, Members
  <2>. QED  BY <1>1, <1>2, <2>1, <2>2, AppendFacts
<1>4. ResultsInv'
  BY <1>1, <1>2, <1>3 DEF WriteRow, ResultsInv
<1>5. VerdictInv'
  BY DEF WriteRow, VerdictInv, VerdictSound
<1>. QED  BY <1>1, <1>2, <1>3, <1>4, <1>5

(***************************************************************************)
(* The steps of the main coroutine that write no row.                      *)
(***************************************************************************)
LEMMA MainKeepsLedger ==
    ASSUME TypeOK, ResultsInv, VerdictInv,
           MainStep \/ Interrupt \/ UNCHANGED vars, ~WriteRow
    PROVE  /\ ResultsInv' /\ VerdictInv'
           /\ UNCHANGED <<rows, outcome>>
<1>. USE DEF vars, mainVars, workerVars, sharedVars, cacheVars
<1>1. UNCHANGED <<rows, done, phase, outcome>>
  BY DEF MainStep, MainProgress, Interrupt, StartServing, StopServing, WriteSummary, JudgeFailed,
         JudgePassed, FinishRun, MainFails, Conclude
<1>2. Recorded' = Recorded /\ Pending' = Pending /\ Failed' = Failed
  BY <1>1 DEF Recorded, Pending, Failed
<1>3. ResultsInv'
  BY <1>1, <1>2 DEF ResultsInv, Distinct
<1>4. VerdictInv'
  <2>1. CASE StartServing \/ StopServing \/ WriteSummary
    BY <1>1, <1>2, <2>1 DEF VerdictInv, VerdictSound, StartServing, StopServing, WriteSummary
  <2>2. CASE JudgeFailed \/ JudgePassed
    BY <1>1, <1>2, <2>2 DEF VerdictInv, VerdictSound, JudgeFailed, JudgePassed, Conclude
  <2>3. CASE FinishRun
    <3>1. Recorded = Requests /\ Failed = {} /\ summary_file' = "fresh"
      BY <2>3 DEF VerdictInv, FinishRun
    <3>2. \A r \in Requests : outcome[r] = "ok"
      BY <3>1 DEF Failed, ResultsInv, TypeOK
    <3>. QED
      BY <1>1, <1>2, <2>3, <3>1, <3>2 DEF VerdictInv, VerdictSound, FinishRun, Conclude
  <2>4. CASE MainFails \/ Interrupt
    BY <1>1, <1>2, <2>4 DEF VerdictInv, VerdictSound, MainFails, Interrupt, Conclude
  <2>5. CASE UNCHANGED vars
    BY <1>2, <2>5 DEF VerdictInv, VerdictSound
  <2>. QED  BY <2>1, <2>2, <2>3, <2>4, <2>5 DEF MainStep, MainProgress
<1>. QED  BY <1>1, <1>3, <1>4

LEMMA LedgerInvInit == Init => LedgerInv
<1>. SUFFICES ASSUME Init PROVE LedgerInv
  OBVIOUS
<1>1. Recorded = {} /\ Pending = {}
  BY DEF Init, Recorded, Pending, Members
<1>2. Distinct(rows) /\ Distinct(done)
  BY DEF Init, Distinct
<1>. QED  BY <1>1, <1>2 DEF Init, LedgerInv, ResultsInv, VerdictInv, VerdictSound

LEMMA LedgerInvNext == TypeOK /\ LedgerInv /\ [Next]_vars => LedgerInv'
<1>. SUFFICES ASSUME TypeOK, LedgerInv, [Next]_vars PROVE LedgerInv'
  OBVIOUS
<1>. USE DEF LedgerInv
<1>1. ASSUME NEW r \in Requests, WorkerStep(r) PROVE LedgerInv'
  BY <1>1, WorkerKeepsResults, WorkerKeepsVerdict
<1>2. CASE WriteRow
  BY <1>2, WriteRowStep
<1>3. CASE (MainStep \/ Interrupt \/ Ended \/ UNCHANGED vars) /\ ~WriteRow
  BY <1>3, MainKeepsLedger DEF Ended
<1>. QED  BY <1>1, <1>2, <1>3 DEF Next, MainStep, MainProgress
------------------------------------------------------------------------------
LEMMA LedgerInvariant == Spec => [](TypeOK /\ LedgerInv)
BY TypeCorrect, LedgerInvInit, LedgerInvNext, PTL DEF Spec

(***************************************************************************)
(* as_completed loses no result and repeats none.                          *)
(***************************************************************************)
THEOREM ResultsAreDeliveredOnce == Spec => []ResultsDeliveredOnce
<1>1. TypeOK /\ LedgerInv => ResultsDeliveredOnce
  <2>. SUFFICES ASSUME TypeOK, LedgerInv PROVE ResultsDeliveredOnce
    OBVIOUS
  <2>. DEFINE n == Len(rows)
              m == Len(done)
              all == rows \o done
  <2>1. n \in Nat /\ m \in Nat /\ Len(all) = n + m
    BY DEF TypeOK
  <2>2. \A i \in 1 .. n : all[i] = rows[i]
    BY DEF TypeOK
  <2>3. \A i \in n + 1 .. n + m : all[i] = done[i - n]
    BY DEF TypeOK
  <2>4. \A i \in n + 1 .. n + m : i - n \in 1 .. m
    BY <2>1
  <2>5. \A i \in 1 .. n + m : i \in 1 .. n \/ i \in n + 1 .. n + m
    BY <2>1
  <2>6. \A i \in 1 .. n : rows[i] \in Recorded
    BY DEF Recorded
  <2>7. \A j \in 1 .. m : done[j] \in Pending
    BY DEF Pending, Members
  <2>. HIDE DEF n, m, all
  <2>8. {all[i] : i \in 1 .. Len(all)} = Recorded \cup Pending
    <3>1. ASSUME NEW i \in 1 .. Len(all) PROVE all[i] \in Recorded \cup Pending
      BY <2>1, <2>2, <2>3, <2>4, <2>5, <2>6, <2>7
    <3>2. ASSUME NEW x \in Recorded PROVE x \in {all[i] : i \in 1 .. Len(all)}
      <4>1. PICK i \in 1 .. n : x = rows[i]
        BY DEF Recorded, n
      <4>. QED  BY <2>1, <2>2, <4>1
    <3>3. ASSUME NEW x \in Pending PROVE x \in {all[i] : i \in 1 .. Len(all)}
      <4>1. PICK j \in 1 .. m : x = done[j]
        BY DEF Pending, Members, m
      <4>2. j + n \in n + 1 .. n + m /\ (j + n) - n = j /\ j + n \in 1 .. Len(all)
        BY <2>1
      <4>. QED  BY <2>3, <4>1, <4>2
    <3>. QED  BY <3>1, <3>2, <3>3
  <2>9. ASSUME NEW i \in 1 .. Len(all), NEW j \in 1 .. Len(all), all[i] = all[j]
        PROVE  i = j
    <3>1. CASE i \in 1 .. n /\ j \in 1 .. n
      BY <2>2, <2>9, <3>1 DEF LedgerInv, ResultsInv, Distinct, n
    <3>2. CASE i \in n + 1 .. n + m /\ j \in n + 1 .. n + m
      <4>1. i - n = j - n
        BY <2>3, <2>4, <2>9, <3>2 DEF LedgerInv, ResultsInv, Distinct, m
      <4>. QED  BY <2>1, <3>2, <4>1
    <3>3. CASE i \in 1 .. n /\ j \in n + 1 .. n + m
      BY <2>2, <2>3, <2>4, <2>6, <2>7, <2>9, <3>3 DEF LedgerInv, ResultsInv
    <3>4. CASE i \in n + 1 .. n + m /\ j \in 1 .. n
      BY <2>2, <2>3, <2>4, <2>6, <2>7, <2>9, <3>4 DEF LedgerInv, ResultsInv
    <3>. QED  BY <2>1, <2>5, <3>1, <3>2, <3>3, <3>4
  <2>. QED  BY <2>8, <2>9 DEF ResultsDeliveredOnce, LedgerInv, ResultsInv, all
<1>. QED  BY <1>1, LedgerInvariant, PTL

(***************************************************************************)
(* A run that ended by itself and is called complete has a response for    *)
(* every request and its own summary.                                      *)
(***************************************************************************)
THEOREM VerdictIsSound == Spec => []VerdictSound
<1>1. LedgerInv => VerdictSound
  BY DEF LedgerInv, VerdictInv
<1>. QED  BY <1>1, LedgerInvariant, PTL

(***************************************************************************)
(* The concurrent runner implements the ledger of a run.                   *)
(***************************************************************************)
THEOREM RunnerImplementsLedger == Spec => ImplementsLedger
<1>. DEFINE lg == [r \in Requests |-> IF r \in Recorded THEN outcome[r] ELSE "open"]
            vd == IF interrupted THEN "abandoned" ELSE status_file
<1>1. Init => Ledger!LedgerInit
  BY DEF Init, Recorded, Ledger!LedgerInit
<1>2. TypeOK /\ LedgerInv /\ [Next]_vars => [Ledger!LedgerNext]_(Ledger!ledgerVars)
  <2>. SUFFICES ASSUME TypeOK, LedgerInv, [Next]_vars
                PROVE  Ledger!LedgerNext \/ (lg' = lg /\ vd' = vd)
    BY DEF Ledger!ledgerVars
  <2>. USE DEF LedgerInv
  <2>1. ASSUME NEW r \in Requests, WorkerStep(r) PROVE lg' = lg /\ vd' = vd
    BY <2>1, WorkerKeepsVerdict DEF mainVars, Recorded
  <2>2. CASE WriteRow
    <3>1. PICK h \in Requests \ Recorded : Recorded' = Recorded \cup {h}
      BY <2>2, WriteRowStep
    <3>2. h \in Recorded' /\ ResultsInv' /\ outcome' = outcome /\ status_file = "running"
          /\ ~interrupted /\ vd' = vd
      BY <2>2, <3>1, WriteRowStep DEF WriteRow, VerdictInv
    <3>3. outcome[h] \in {"ok", "error"}
      BY <2>2, <3>1, <3>2 DEF ResultsInv, TypeOK, WriteRow
    <3>4. lg[h] = "open" /\ lg' = [lg EXCEPT ![h] = outcome[h]]
      BY <3>1, <3>2
    <3>. QED
      BY <3>2, <3>3, <3>4 DEF Ledger!LedgerNext, Ledger!Settle
  <2>3. CASE (MainStep \/ Interrupt \/ Ended \/ UNCHANGED vars) /\ ~WriteRow
    <3>1. lg' = lg
      BY <2>3, MainKeepsLedger DEF Ended, Recorded
    <3>2. CASE main' = main \/ main' # "over"
      BY <2>3, <3>1, <3>2
      DEF VerdictInv, Ended, vars, mainVars, MainStep, MainProgress, Interrupt, StartServing, StopServing,
          WriteSummary, JudgeFailed, JudgePassed, FinishRun, MainFails, Conclude
    <3>3. CASE JudgeFailed \/ MainFails
      BY <3>1, <3>3
      DEF JudgeFailed, MainFails, Conclude, VerdictInv, Ledger!LedgerNext, Ledger!CallFailed
    <3>4. CASE FinishRun
      <4>1. \A r \in Requests : lg[r] = "ok"
        BY <2>3, <3>4, MainKeepsLedger DEF FinishRun, VerdictInv, Failed, ResultsInv, TypeOK
      <4>. QED
        BY <3>1, <3>4, <4>1
        DEF FinishRun, Conclude, VerdictInv, Ledger!LedgerNext, Ledger!CallComplete
    <3>5. CASE Interrupt
      BY <3>1, <3>5
      DEF Interrupt, Conclude, VerdictInv, Ledger!LedgerNext, Ledger!Abandon
    <3>. QED
      BY <2>3, <3>2, <3>3, <3>4, <3>5
      DEF Ended, vars, mainVars, MainStep, MainProgress, StartServing, StopServing, WriteSummary, JudgePassed
  <2>. QED  BY <2>1, <2>2, <2>3 DEF Next, MainStep, MainProgress
<1>. QED
  BY <1>1, <1>2, LedgerInvariant, PTL DEF Spec, ImplementsLedger, Ledger!LedgerSpec

------------------------------------------------------------------------------
(***************************************************************************)
(* What the cache model of a concurrent run has seen: every response and   *)
(* nothing twice, and with one permit nothing between a request's estimate *)
(* and its observation.                                                    *)
(*                                                                         *)
(* ResponsesAreObserved speaks of outcomes and is not inductive: ObservedInv *)
(* follows a request from its observation (phase "responded") on.          *)
(* SerialEstimatesExact needs what the one request in flight has estimated. *)
(***************************************************************************)

Seen == Members(observed)

(***************************************************************************)
(* The observed requests have been dispatched and are past their           *)
(* observation; a request is past it once the client waits to close, and   *)
(* none answers without.                                                   *)
(***************************************************************************)
ObservedInv ==
    /\ Cardinality(Seen) = Len(observed)
    /\ \A r \in Seen : /\ phase[r] \in {"responded", "returned", "cancelled"}
                       /\ decision[r] # NoAdapter
    /\ \A r \in Requests : phase[r] = "responded" \/ outcome[r] = "ok" => r \in Seen

(***************************************************************************)
(* With one permit the request in flight has estimated against everything  *)
(* observed so far.                                                        *)
(***************************************************************************)
SerialInv ==
    /\ SerialEstimatesExact
    /\ PermitLimit = 1 =>
          \A r \in Requests : phase[r] = "inflight" => cache_view[r] = Len(observed)
------------------------------------------------------------------------------
LEMMA SeenFinite == TypeOK => IsFiniteSet(Seen) /\ Seen \subseteq Requests
<1>. SUFFICES ASSUME TypeOK PROVE IsFiniteSet(Seen) /\ Seen \subseteq Requests
  OBVIOUS
<1>1. Seen \subseteq Requests
  BY DEF TypeOK, Seen, Members
<1>2. Seen \in SUBSET Requests
  BY <1>1
<1>. QED  BY <1>1, <1>2, FS_Subset, RequestsAssumption

LEMMA CacheInit == Init => ObservedInv /\ SerialInv
<1>. SUFFICES ASSUME Init PROVE ObservedInv /\ SerialInv
  OBVIOUS
<1>1. Seen = {} /\ Len(observed) = 0
  BY DEF Init, Seen, Members
<1>2. Cardinality(Seen) = 0
  BY <1>1, FS_EmptySet
<1>. QED  BY <1>1, <1>2 DEF Init, ObservedInv, SerialInv, SerialEstimatesExact

(***************************************************************************)
(* The observation of a request adds it to what was seen, once.            *)
(***************************************************************************)
LEMMA RespondObserves ==
    ASSUME AdmissionInv, ObservedInv, NEW r \in Requests, Respond(r)
    PROVE  ObservedInv' /\ Len(observed') = Len(observed) + 1 /\ observed'[Len(observed) + 1] = r
           /\ \A i \in 1 .. Len(observed) : observed'[i] = observed[i]
<1>1. /\ observed \in Seq(Requests) /\ observed' = Append(observed, r)
      /\ phase \in [Requests -> Phases] /\ phase[r] = "inflight"
      /\ phase' = [phase EXCEPT ![r] = "responded"]
      /\ UNCHANGED <<decision, outcome>>
  BY DEF AdmissionInv, TypeOK, Respond, workerVars
<1>2. /\ Len(observed) \in Nat /\ Len(observed') = Len(observed) + 1
      /\ observed'[Len(observed) + 1] = r
      /\ \A i \in 1 .. Len(observed) : observed'[i] = observed[i]
  BY <1>1
<1>3. Seen' = Seen \cup {r}
  BY <1>1, AppendFacts DEF Seen
<1>4. r \notin Seen
  BY <1>1 DEF ObservedInv
<1>5. Cardinality(Seen') = Cardinality(Seen) + 1
  BY <1>3, <1>4, SeenFinite, FS_AddElement DEF AdmissionInv
<1>6. decision[r] # NoAdapter
  BY <1>1, NoAdapterAssumption DEF AdmissionInv, InFlightIsRouted, InFlight, Holding
<1>. QED  BY <1>1, <1>2, <1>3, <1>5, <1>6 DEF ObservedInv

(***************************************************************************)
(* No other step observes, or takes a request back before its observation. *)
(***************************************************************************)
LEMMA OthersObserveNothing ==
    ASSUME AdmissionInv, ObservedInv, [Next]_vars, \A r \in Requests : ~Respond(r)
    PROVE  ObservedInv' /\ UNCHANGED observed
<1>. USE DEF AdmissionInv, TypeOK, mainVars, workerVars, sharedVars, cacheVars
<1>1. ASSUME NEW r \in Requests, WorkerStep(r)
      PROVE  ObservedInv' /\ UNCHANGED observed
  <2>1. CASE Arrive(r)
    BY <2>1 DEF Arrive, ObservedInv, Seen
  <2>2. CASE \E a \in Adapters : Dispatch(r, a)
    BY <2>2, NoAdapterAssumption DEF Dispatch, ObservedInv, Seen
  <2>3. CASE RouteFails(r)
    BY <2>3 DEF RouteFails, ObservedInv, Seen
  <2>4. CASE Return(r)
    BY <2>4 DEF Return, Finish, ObservedInv, Seen
  <2>5. CASE RequestFails(r)
    BY <2>5 DEF RequestFails, Finish, ObservedInv, Seen, Holding
  <2>6. CASE Cancel(r)
    BY <2>6 DEF Cancel, ObservedInv, Seen
  <2>. QED  BY <1>1, <2>1, <2>2, <2>3, <2>4, <2>5, <2>6 DEF WorkerStep
<1>2. CASE MainStep \/ Interrupt \/ UNCHANGED vars
  <2>1. UNCHANGED <<phase, decision, outcome, observed>>
    BY <1>2 DEF vars, MainStep, MainProgress, Interrupt, StartServing, WriteRow, StopServing,
           WriteSummary, JudgeFailed, JudgePassed, FinishRun, MainFails, Conclude
  <2>. QED  BY <2>1 DEF ObservedInv, Seen
<1>. QED  BY <1>1, <1>2 DEF Next, Ended

(***************************************************************************)
(* With one permit, a request in flight is alone.                          *)
(***************************************************************************)
LEMMA SerialAlone ==
    ASSUME AdmissionInv, PermitLimit = 1, NEW r \in InFlight, NEW q \in InFlight
    PROVE  q = r /\ permits = 0
<1>1. IsFiniteSet(InFlight) /\ Cardinality(InFlight) \in Nat
  BY CountedSetsFinite
<1>2. permits + Cardinality(InFlight) = 1 /\ permits \in Nat
  BY DEF AdmissionInv, PermitsConserved, TypeOK
<1>3. /\ Cardinality(InFlight \ {r}) = Cardinality(InFlight) - 1
      /\ IsFiniteSet(InFlight \ {r})
  BY <1>1, FS_RemoveElement
<1>4. Cardinality(InFlight \ {r}) = 0 /\ permits = 0
  BY <1>1, <1>2, <1>3, FS_CardinalityType
<1>5. InFlight \ {r} = {}
  BY <1>3, <1>4, FS_EmptySet
<1>. QED  BY <1>4, <1>5

LEMMA SerialStep ==
    AdmissionInv /\ ObservedInv /\ SerialInv /\ [Next]_vars => SerialInv'
<1>. SUFFICES ASSUME AdmissionInv, ObservedInv, SerialInv, [Next]_vars, PermitLimit = 1
              PROVE  SerialInv'
  BY DEF SerialInv, SerialEstimatesExact, PermitLimit
<1>. USE DEF mainVars, workerVars, sharedVars, cacheVars
<1>0. phase \in [Requests -> Phases] /\ cache_view \in [Requests -> Nat] /\ observed \in Seq(Requests)
  BY DEF AdmissionInv, TypeOK
<1>1. ASSUME NEW r \in Requests, Respond(r) PROVE SerialInv'
  <2>1. /\ Len(observed') = Len(observed) + 1 /\ observed'[Len(observed) + 1] = r
        /\ \A i \in 1 .. Len(observed) : observed'[i] = observed[i]
    BY <1>1, RespondObserves
  <2>2. /\ phase[r] = "inflight" /\ phase' = [phase EXCEPT ![r] = "responded"]
        /\ cache_view' = cache_view
    BY <1>1 DEF Respond
  <2>3. cache_view[r] = Len(observed)
    BY <2>2 DEF SerialInv
  <2>4. SerialEstimatesExact'
    BY <1>0, <2>1, <2>2, <2>3 DEF SerialInv, SerialEstimatesExact
  <2>5. ASSUME NEW q \in Requests PROVE phase'[q] # "inflight"
    <3>1. phase[q] = "inflight" => q = r
      BY <2>2, SerialAlone DEF InFlight, Holding
    <3>. QED  BY <1>0, <2>2, <3>1
  <2>. QED  BY <2>4, <2>5 DEF SerialInv
<1>2. ASSUME NEW r \in Requests, NEW a \in Adapters, Dispatch(r, a) PROVE SerialInv'
  <2>1. /\ phase[r] = "queued" /\ phase' = [phase EXCEPT ![r] = "inflight"] /\ permits > 0
        /\ cache_view' = [cache_view EXCEPT ![r] = Len(observed)] /\ observed' = observed
    BY <1>2 DEF Dispatch
  <2>2. r \notin Seen
    BY <2>1 DEF ObservedInv
  <2>3. SerialEstimatesExact'
    BY <1>0, <2>1, <2>2 DEF SerialInv, SerialEstimatesExact, Seen, Members
  <2>4. ASSUME NEW q \in Requests PROVE phase[q] # "inflight"
    BY <2>1, SerialAlone DEF InFlight, Holding
  <2>. QED  BY <1>0, <2>1, <2>3, <2>4 DEF SerialInv
<1>3. CASE /\ \A r \in Requests : ~Respond(r)
           /\ \A r \in Requests : \A a \in Adapters : ~Dispatch(r, a)
  <2>1. UNCHANGED <<observed, cache_view>>
    BY <1>3 DEF vars, Next, WorkerStep, Arrive, RouteFails, Return, RequestFails, Finish, Cancel,
           MainStep, MainProgress, Interrupt, StartServing, WriteRow, StopServing, WriteSummary,
           JudgeFailed, JudgePassed, FinishRun, MainFails, Conclude, Ended
  <2>2. \A r \in Requests : phase'[r] = "inflight" => phase[r] = "inflight"
    BY <1>0, <1>3 DEF vars, Next, WorkerStep, Arrive, RouteFails, Return, RequestFails, Finish, Cancel,
           MainStep, MainProgress, Interrupt, StartServing, WriteRow, StopServing, WriteSummary,
           JudgeFailed, JudgePassed, FinishRun, MainFails, Conclude, Ended
  <2>. QED  BY <2>1, <2>2 DEF SerialInv, SerialEstimatesExact
<1>. QED  BY <1>1, <1>2, <1>3
------------------------------------------------------------------------------
LEMMA ObservedStep == AdmissionInv /\ ObservedInv /\ [Next]_vars => ObservedInv'
BY RespondObserves, OthersObserveNothing

(***************************************************************************)
(* vllm_backend.build_response: the cache model observes each request that *)
(* ends in a response, none twice and none that was not routed, whatever   *)
(* fails or is cancelled.                                                  *)
(***************************************************************************)
THEOREM ResponsesAlwaysObserved == Spec => []ResponsesAreObserved
<1>1. ObservedInv => ResponsesAreObserved
  BY DEF ObservedInv, ResponsesAreObserved, Seen, Members
<1>. QED
  BY <1>1, CacheInit, ObservedStep, AdmissionInit, AdmissionNext, PTL DEF Spec

(***************************************************************************)
(* With max_concurrency at most one, every request is observed after       *)
(* exactly the requests its estimate saw.                                  *)
(***************************************************************************)
THEOREM SerialEstimatesAreExact == Spec => []SerialEstimatesExact
<1>1. SerialInv => SerialEstimatesExact
  BY DEF SerialInv
<1>. QED
  BY <1>1, CacheInit, ObservedStep, SerialStep, AdmissionInit, AdmissionNext, PTL DEF Spec
-------------------------------------------------------------------------------
(***************************************************************************)
(* The sequential runner, for every number of requests and every set of    *)
(* adapters.                                                               *)
(*                                                                         *)
(* Neither SequentialTypeOK nor FirstErrorEndsRun is inductive: that       *)
(* completed stays within the workload, and that a row is appended below   *)
(* no error row, needs that the rows written before the loop ends are all  *)
(* answers, as many as were counted (SequentialRowsInv).                   *)
(***************************************************************************)
USE CountAssumption

Loop == {"serving", "generating", "recording"}

(***************************************************************************)
(* Until a request fails every row is an answer and every answer is        *)
(* counted; the row of a request in hand is not there yet.                 *)
(***************************************************************************)
SequentialRowsInv ==
    /\ main = "setup" => rows = <<>> /\ completed = 0
    /\ main \notin {"raising", "over"} => failed = 0 /\ \A i \in 1 .. Len(rows) : rows[i] = "ok"
    /\ main \in Loop =>
           completed = IF main = "recording" THEN Len(rows) + 1 ELSE Len(rows)
    /\ main \in {"generating", "recording"} => Len(rows) < RequestCount
    /\ main \in {"summary", "report"} => Len(rows) = RequestCount
    /\ Len(rows) <= RequestCount
    /\ \A i \in 1 .. Len(rows) : rows[i] = "error" => i = Len(rows) /\ failed = 1

(***************************************************************************)
(* There is a verdict exactly when the run is over.                        *)
(***************************************************************************)
SequentialVerdictInv ==
    /\ main = "over" <=> status_file # "running"
    /\ interrupted => main = "over"

RunInv == SequentialTypeOK /\ SequentialRowsInv /\ SequentialVerdictInv /\ RoutedUnloaded

------------------------------------------------------------------------------
LEMMA RunInvInit == SequentialInit => RunInv
<1>. SUFFICES ASSUME SequentialInit PROVE RunInv
  OBVIOUS
<1>1. SequentialTypeOK
  <2>1. rows \in Seq({"ok", "error"}) /\ adapter_load \in [Adapters -> Nat]
    BY DEF SequentialInit
  <2>2. interrupted \in BOOLEAN /\ summary_file \in {"absent", "stale", "fresh", "torn"}
    BY DEF SequentialInit
  <2>3. main \in SequentialMainSteps /\ completed \in 0 .. RequestCount /\ failed \in 0 .. 1
    BY DEF SequentialInit, SequentialMainSteps
  <2>. QED  BY <2>1, <2>2, <2>3 DEF SequentialInit, SequentialTypeOK
<1>2. SequentialRowsInv /\ SequentialVerdictInv /\ RoutedUnloaded
  BY DEF SequentialInit, SequentialRowsInv, SequentialVerdictInv, RoutedUnloaded, Loop
<1>. QED  BY <1>1, <1>2 DEF RunInv

(***************************************************************************)
(* Giving back the load of the request in hand leaves no load.             *)
(***************************************************************************)
LEMMA EndDispatchUnloads ==
    ASSUME SequentialTypeOK, RoutedUnloaded, main = "generating", EndDispatch
    PROVE  /\ adapter_load' \in [Adapters -> Nat]
           /\ \A a \in Adapters : adapter_load'[a] = 0
BY DEF SequentialTypeOK, RoutedUnloaded, EndDispatch, end_dispatch

(***************************************************************************)
(* The end of the run, however it comes about, keeps rows and counters.    *)
(***************************************************************************)
LEMMA ConcludeStep ==
    ASSUME RunInv, main # "over",
           NEW v \in {"complete", "failed"}, SequentialConclude(v),
           LeaveSummary \/ UNCHANGED summary_file,
           interrupted' \in BOOLEAN,
           adapter_load' \in [Adapters -> Nat],
           \A a \in Adapters : adapter_load'[a] = 0
    PROVE  RunInv'
<1>1. SequentialTypeOK'
  BY DEF RunInv, SequentialTypeOK, SequentialConclude, LeaveSummary, SequentialMainSteps
<1>2. SequentialRowsInv' /\ SequentialVerdictInv' /\ RoutedUnloaded'
  BY DEF RunInv, SequentialRowsInv, SequentialVerdictInv, RoutedUnloaded, SequentialConclude, Loop
<1>. QED  BY <1>1, <1>2 DEF RunInv

LEMMA RunInvStep == RunInv /\ [SequentialNext]_sequentialVars => RunInv'
<1>. SUFFICES ASSUME RunInv, [SequentialNext]_sequentialVars PROVE RunInv'
  OBVIOUS
<1>. USE DEF RunInv, fileVars
<1>0. ASSUME main \notin {"generating", "over"}
      PROVE  \A a \in Adapters : adapter_load[a] = 0
  BY <1>0 DEF RoutedUnloaded
<1>1. CASE Prepare
  BY <1>1 DEF Prepare, SequentialTypeOK, SequentialRowsInv, SequentialVerdictInv, RoutedUnloaded, Loop, SequentialMainSteps
<1>2. ASSUME NEW a \in Adapters, Route(a) PROVE RunInv'
  <2>1. SequentialTypeOK'
    BY <1>2 DEF Route, begin_dispatch, SequentialTypeOK, SequentialMainSteps
  <2>2. SequentialRowsInv' /\ SequentialVerdictInv'
    BY <1>2 DEF Route, begin_dispatch, SequentialTypeOK, SequentialRowsInv, SequentialVerdictInv, Loop
  <2>3. RoutedUnloaded'
    BY <1>0, <1>2 DEF Route, begin_dispatch, SequentialTypeOK, RoutedUnloaded
  <2>. QED  BY <2>1, <2>2, <2>3
<1>3. CASE Generated
  <2>1. /\ adapter_load' \in [Adapters -> Nat]
        /\ \A a \in Adapters : adapter_load'[a] = 0
    BY <1>3, EndDispatchUnloads DEF Generated
  <2>2. SequentialTypeOK'
    BY <1>3, <2>1 DEF Generated, SequentialTypeOK, SequentialRowsInv, Loop, SequentialMainSteps
  <2>3. SequentialRowsInv' /\ SequentialVerdictInv' /\ RoutedUnloaded'
    BY <1>3, <2>1 DEF Generated, SequentialTypeOK, SequentialRowsInv, SequentialVerdictInv, RoutedUnloaded, Loop
  <2>. QED  BY <2>2, <2>3
<1>4. CASE SequentialWriteRow
  <2>1. /\ rows' \in Seq({"ok", "error"}) /\ Len(rows') = Len(rows) + 1
        /\ \A i \in 1 .. Len(rows') : rows'[i] = "ok"
    BY <1>4 DEF SequentialWriteRow, SequentialTypeOK, SequentialRowsInv
  <2>2. SequentialTypeOK'
    BY <1>4, <2>1 DEF SequentialWriteRow, SequentialTypeOK, SequentialMainSteps
  <2>3. SequentialRowsInv' /\ SequentialVerdictInv' /\ RoutedUnloaded'
    BY <1>4, <2>1 DEF SequentialWriteRow, SequentialTypeOK, SequentialRowsInv, SequentialVerdictInv, RoutedUnloaded, Loop
  <2>. QED  BY <2>2, <2>3
<1>5. CASE GenerateFails
  <2>1. /\ adapter_load' \in [Adapters -> Nat]
        /\ \A a \in Adapters : adapter_load'[a] = 0
    BY <1>5, EndDispatchUnloads DEF GenerateFails
  <2>2. failed' = 1 /\ main' = "raising"
    BY <1>5 DEF GenerateFails, SequentialRowsInv
  <2>3. /\ rows' \in Seq({"ok", "error"}) /\ Len(rows') <= RequestCount
        /\ \A i \in 1 .. Len(rows') : rows'[i] = "error" => i = Len(rows')
    <3>1. /\ rows \in Seq({"ok", "error"}) /\ Len(rows) < RequestCount
          /\ \A i \in 1 .. Len(rows) : rows[i] = "ok"
      BY <1>5 DEF GenerateFails, SequentialTypeOK, SequentialRowsInv
    <3>2. CASE rows' = rows
      BY <3>1, <3>2
    <3>3. CASE rows' = Append(rows, "error")
      <4>1. /\ Append(rows, "error") \in Seq({"ok", "error"})
            /\ Len(Append(rows, "error")) = Len(rows) + 1 /\ Len(rows) \in Nat
            /\ \A i \in 1 .. Len(rows) : Append(rows, "error")[i] = rows[i]
        BY <3>1
      <4>. QED  BY <3>1, <3>3, <4>1
    <3>. QED  BY <1>5, <3>2, <3>3 DEF GenerateFails
  <2>4. SequentialTypeOK'
    BY <1>5, <2>1, <2>2, <2>3 DEF GenerateFails, SequentialTypeOK, SequentialMainSteps
  <2>5. SequentialRowsInv' /\ SequentialVerdictInv' /\ RoutedUnloaded'
    BY <1>5, <2>1, <2>2, <2>3
    DEF GenerateFails, SequentialTypeOK, SequentialRowsInv, SequentialVerdictInv, RoutedUnloaded, Loop
  <2>. QED  BY <2>4, <2>5
<1>6. CASE SequentialStopServing
  BY <1>6 DEF SequentialStopServing, SequentialTypeOK, SequentialRowsInv, SequentialVerdictInv, RoutedUnloaded, Loop, SequentialMainSteps
<1>7. CASE SequentialWriteSummary
  BY <1>7 DEF SequentialWriteSummary, SequentialTypeOK, SequentialRowsInv, SequentialVerdictInv, RoutedUnloaded, Loop, SequentialMainSteps
<1>8. CASE SequentialFinishRun
  BY <1>0, <1>8, ConcludeStep DEF SequentialFinishRun, SequentialTypeOK
<1>9. CASE Reraise
  BY <1>0, <1>9, ConcludeStep DEF Reraise, SequentialTypeOK
<1>10. CASE SequentialMainFails
  BY <1>0, <1>10, ConcludeStep DEF SequentialMainFails, SequentialTypeOK
<1>11. CASE SequentialInterrupt
  <2>1. CASE main = "generating"
    BY <1>11, <2>1, EndDispatchUnloads, ConcludeStep DEF SequentialInterrupt
  <2>2. CASE main # "generating"
    BY <1>0, <1>11, <2>2, ConcludeStep DEF SequentialInterrupt, SequentialTypeOK
  <2>. QED  BY <2>1, <2>2
<1>12. CASE SequentialEnded \/ UNCHANGED sequentialVars
  BY <1>12 DEF SequentialEnded, sequentialVars, SequentialTypeOK, SequentialRowsInv, SequentialVerdictInv, RoutedUnloaded
<1>. QED
  BY <1>1, <1>2, <1>3, <1>4, <1>5, <1>6, <1>7, <1>8, <1>9, <1>10, <1>11, <1>12
  DEF SequentialNext, Progress

LEMMA RunInvAlways == SequentialSpec => []RunInv
<1>1. SequentialInit => RunInv
  BY RunInvInit
<1>2. RunInv /\ [SequentialNext]_sequentialVars => RunInv'
  BY RunInvStep
<1>. QED  BY <1>1, <1>2, PTL DEF SequentialSpec
------------------------------------------------------------------------------
(***************************************************************************)
(* The counters stay within the workload, whatever fails.                  *)
(***************************************************************************)
THEOREM SequentialTypeCorrect == SequentialSpec => []SequentialTypeOK
<1>1. RunInv => SequentialTypeOK
  BY DEF RunInv
<1>. QED  BY <1>1, RunInvAlways, PTL

(***************************************************************************)
(* Every request is routed without a load, and a failure or an interrupt   *)
(* leaves none.                                                            *)
(***************************************************************************)
THEOREM AlwaysRoutedUnloaded == SequentialSpec => []RoutedUnloaded
<1>1. RunInv => RoutedUnloaded
  BY DEF RunInv
<1>. QED  BY <1>1, RunInvAlways, PTL

(***************************************************************************)
(* An error is the last row of its run.                                    *)
(***************************************************************************)
THEOREM ErrorEndsRun == SequentialSpec => []FirstErrorEndsRun
<1>1. RunInv => FirstErrorEndsRun
  BY DEF RunInv, SequentialTypeOK, SequentialRowsInv, FirstErrorEndsRun
<1>. QED  BY <1>1, RunInvAlways, PTL
------------------------------------------------------------------------------
(***************************************************************************)
(* Counting the rows with an outcome: none is written at first, and a row  *)
(* adds one to its outcome and leaves the other alone.                     *)
(***************************************************************************)
LEMMA RowsWithType ==
    ASSUME SequentialTypeOK, NEW o
    PROVE  IsFiniteSet({i \in 1 .. Len(rows) : rows[i] = o}) /\ RowsWith(o) \in Nat
<1>1. IsFiniteSet(1 .. Len(rows))
  BY FS_Interval DEF SequentialTypeOK
<1>2. IsFiniteSet({i \in 1 .. Len(rows) : rows[i] = o})
  BY <1>1, FS_Subset
<1>. QED  BY <1>2, FS_CardinalityType DEF RowsWith

LEMMA RowAppended ==
    ASSUME SequentialTypeOK, NEW e \in {"ok", "error"}, rows' = Append(rows, e), NEW o
    PROVE  RowsWith(o)' = IF o = e THEN RowsWith(o) + 1 ELSE RowsWith(o)
<1>. DEFINE I == {i \in 1 .. Len(rows) : rows[i] = o}
            J == {i \in 1 .. Len(rows') : rows'[i] = o}
<1>1. /\ Len(rows) \in Nat /\ Len(rows') = Len(rows) + 1 /\ rows'[Len(rows) + 1] = e
      /\ \A i \in 1 .. Len(rows) : rows'[i] = rows[i]
  BY DEF SequentialTypeOK
<1>2. CASE o = e
  <2>1. J = I \cup {Len(rows) + 1} /\ Len(rows) + 1 \notin I
    BY <1>1, <1>2
  <2>2. IsFiniteSet(I)
    BY RowsWithType
  <2>. HIDE DEF I, J
  <2>3. Cardinality(J) = Cardinality(I) + 1
    BY <2>1, <2>2, FS_AddElement
  <2>. QED  BY <1>2, <2>3 DEF RowsWith, I, J
<1>3. CASE o # e
  <2>1. J = I
    BY <1>1, <1>3
  <2>. QED  BY <1>3, <2>1 DEF RowsWith
<1>. QED  BY <1>2, <1>3

LEMMA RowsKept ==
    ASSUME UNCHANGED rows, NEW o
    PROVE  RowsWith(o)' = RowsWith(o)
BY DEF RowsWith

(***************************************************************************)
(* The counters against the rows at each step of the run: only a request   *)
(* between its count and its row makes a difference of one, and only one   *)
(* of the two counters can be ahead.                                       *)
(***************************************************************************)
CountInv ==
    /\ CountersMatchRows
    /\ main = "recording" => completed = RowsWith("ok") + 1
    /\ main \in {"summary", "report"} => completed = Len(rows)

LEMMA CountInvInit == SequentialInit => CountInv
<1>. SUFFICES ASSUME SequentialInit PROVE CountInv
  OBVIOUS
<1>1. \A o : {i \in 1 .. Len(rows) : rows[i] = o} = {}
  BY DEF SequentialInit
<1>2. \A o : RowsWith(o) = 0
  BY <1>1, FS_EmptySet DEF RowsWith
<1>. QED  BY <1>2 DEF SequentialInit, CountInv, CountersMatchRows

LEMMA CountInvStep == RunInv /\ CountInv /\ [SequentialNext]_sequentialVars => CountInv'
<1>. SUFFICES ASSUME RunInv, CountInv, [SequentialNext]_sequentialVars PROVE CountInv'
  OBVIOUS
<1>. USE DEF fileVars
<1>. DEFINE ok == RowsWith("ok")
            err == RowsWith("error")
<1>1. SequentialTypeOK /\ SequentialTypeOK' /\ ok \in Nat /\ err \in Nat
  BY RowsWithType, RunInvStep DEF RunInv
<1>2. UNCHANGED rows => ok' = ok /\ err' = err
  BY RowsKept
<1>. HIDE DEF ok, err
<1>3. CountersMatchRows <=>
        /\ completed = ok \/ (completed = ok + 1 /\ main \in {"recording", "over"})
        /\ failed = err \/ (failed = err + 1 /\ main \in {"raising", "over"})
        /\ completed + failed <= Len(rows) + 1
        /\ status_file = "complete" /\ ~interrupted =>
               completed = RequestCount /\ Len(rows) = RequestCount
  BY DEF CountersMatchRows, ok, err
<1>4. CountersMatchRows' <=>
        /\ completed' = ok' \/ (completed' = ok' + 1 /\ main' \in {"recording", "over"})
        /\ failed' = err' \/ (failed' = err' + 1 /\ main' \in {"raising", "over"})
        /\ completed' + failed' <= Len(rows') + 1
        /\ status_file' = "complete" /\ ~interrupted' =>
               completed' = RequestCount /\ Len(rows') = RequestCount
  BY DEF CountersMatchRows, ok, err
<1>5. CASE Prepare \/ (\E a \in Adapters : Route(a)) \/ SequentialStopServing \/ SequentialWriteSummary
  BY <1>1, <1>2, <1>3, <1>4, <1>5
  DEF CountInv, RunInv, SequentialTypeOK, SequentialRowsInv, SequentialVerdictInv, Loop, Prepare, Route, begin_dispatch, SequentialStopServing, SequentialWriteSummary
<1>6. CASE Generated
  <2>1. completed' = ok' + 1
    BY <1>1, <1>2, <1>3, <1>6 DEF CountInv, RunInv, Generated
  <2>. QED
    BY <1>1, <1>2, <1>3, <1>4, <1>6, <2>1
    DEF CountInv, RunInv, SequentialTypeOK, SequentialRowsInv, SequentialVerdictInv, Loop, Generated, ok
<1>7. CASE SequentialWriteRow
  <2>1. ok' = ok + 1 /\ err' = err /\ Len(rows') = Len(rows) + 1
    <3>1. rows' = Append(rows, "ok") /\ rows \in Seq({"ok", "error"})
      BY <1>1, <1>7 DEF SequentialWriteRow, SequentialTypeOK
    <3>2. ok' = ok + 1 /\ err' = err
      BY <1>1, <3>1, RowAppended DEF ok, err
    <3>. QED  BY <3>1, <3>2
  <2>2. /\ main = "recording" /\ main' = "serving" /\ completed = Len(rows) + 1 /\ failed = 0
        /\ status_file' = "running"
    BY <1>7 DEF SequentialWriteRow, RunInv, SequentialRowsInv, SequentialVerdictInv, Loop
  <2>3. err = 0 /\ Len(rows) \in Nat
    BY <1>1, <1>3, <2>2 DEF CountInv, SequentialTypeOK
  <2>4. completed = ok + 1
    BY <2>2 DEF CountInv, ok
  <2>. QED
    BY <1>1, <1>3, <1>4, <1>7, <2>1, <2>2, <2>3, <2>4 DEF CountInv, SequentialWriteRow
<1>8. CASE GenerateFails
  <2>1. CASE rows' = Append(rows, "error")
    <3>1. ok' = ok /\ err' = err + 1
      BY <1>1, <2>1, RowAppended DEF ok, err
    <3>. QED
      BY <1>1, <1>3, <1>4, <1>8, <2>1, <3>1
      DEF CountInv, RunInv, SequentialTypeOK, SequentialRowsInv, SequentialVerdictInv, Loop, GenerateFails
  <2>2. CASE rows' = rows
    BY <1>1, <1>2, <1>3, <1>4, <1>8, <2>2
    DEF CountInv, RunInv, SequentialTypeOK, SequentialRowsInv, SequentialVerdictInv, Loop, GenerateFails
  <2>. QED  BY <1>8, <2>1, <2>2 DEF GenerateFails
<1>9. CASE SequentialFinishRun \/ Reraise \/ SequentialMainFails \/ SequentialInterrupt
  <2>1. UNCHANGED <<rows, completed, failed>> /\ main' = "over" /\ main # "over"
    BY <1>9 DEF SequentialFinishRun, Reraise, SequentialMainFails, SequentialInterrupt, SequentialConclude
  <2>2. status_file' = "complete" /\ ~interrupted' => main = "report"
    BY <1>9 DEF SequentialFinishRun, Reraise, SequentialMainFails, SequentialInterrupt, SequentialConclude
  <2>3. main = "report" => completed = RequestCount /\ Len(rows) = RequestCount
    BY DEF CountInv, RunInv, SequentialRowsInv
  <2>. QED
    BY <1>1, <1>2, <1>3, <1>4, <2>1, <2>2, <2>3 DEF CountInv, SequentialTypeOK
<1>10. CASE SequentialEnded \/ UNCHANGED sequentialVars
  BY <1>1, <1>2, <1>3, <1>4, <1>10 DEF CountInv, SequentialEnded, sequentialVars, ok
<1>. QED
  BY <1>5, <1>6, <1>7, <1>8, <1>9, <1>10 DEF SequentialNext, Progress

(***************************************************************************)
(* status.json counts the rows on disk, but for the one request whose row  *)
(* could not be written, and a run it calls complete has all of them,      *)
(* unless it was interrupted.                                              *)
(***************************************************************************)
THEOREM CountersAlwaysMatchRows == SequentialSpec => []CountersMatchRows
<1>1. SequentialInit => CountInv
  BY CountInvInit
<1>2. RunInv /\ RunInv' /\ CountInv /\ [SequentialNext]_sequentialVars => CountInv'
  BY CountInvStep
<1>3. CountInv => CountersMatchRows
  BY DEF CountInv
<1>. QED  BY <1>1, <1>2, <1>3, RunInvAlways, PTL DEF SequentialSpec
------------------------------------------------------------------------------
(***************************************************************************)
(* The ledger of the run, as the rows and status.json give it.             *)
(***************************************************************************)
LedgerOf  == [r \in 1 .. RequestCount |-> IF r <= Len(rows) THEN rows[r] ELSE "open"]
VerdictOf == IF interrupted THEN "abandoned" ELSE status_file

LEMMA LedgerUnchanged ==
    ASSUME UNCHANGED rows
    PROVE  LedgerOf' = LedgerOf
BY DEF LedgerOf

(***************************************************************************)
(* Writing the row of the request in hand settles it.                      *)
(***************************************************************************)
LEMMA RowSettles ==
    ASSUME RunInv, main \in {"generating", "recording"}, ~interrupted',
           NEW o \in {"ok", "error"}, rows' = Append(rows, o), UNCHANGED <<status_file, interrupted>>
    PROVE  SequentialLedger!LedgerNext
<1>. DEFINE r == Len(rows) + 1
<1>1. r \in 1 .. RequestCount
  BY DEF RunInv, SequentialTypeOK, SequentialRowsInv
<1>2. VerdictOf = "running" /\ VerdictOf' = "running"
  BY DEF RunInv, SequentialVerdictInv, VerdictOf
<1>3. LedgerOf[r] = "open"
  BY <1>1 DEF LedgerOf, RunInv, SequentialTypeOK
<1>4. LedgerOf' = [LedgerOf EXCEPT ![r] = o]
  <2>1. Len(rows') = r /\ rows'[r] = o /\ \A i \in 1 .. Len(rows) : rows'[i] = rows[i]
    BY DEF RunInv, SequentialTypeOK
  <2>2. ASSUME NEW i \in 1 .. RequestCount
        PROVE  LedgerOf'[i] = [LedgerOf EXCEPT ![r] = o][i]
    BY <2>1 DEF LedgerOf, RunInv, SequentialTypeOK
  <2>. QED  BY <2>2 DEF LedgerOf
<1>. HIDE DEF r
<1>. QED
  BY <1>1, <1>2, <1>3, <1>4 DEF SequentialLedger!LedgerNext, SequentialLedger!Settle, LedgerOf, VerdictOf

LEMMA StepImplementsLedger ==
    RunInv /\ [SequentialNext]_sequentialVars => [SequentialLedger!LedgerNext]_<<LedgerOf, VerdictOf>>
<1>. SUFFICES ASSUME RunInv, [SequentialNext]_sequentialVars,
                     ~UNCHANGED <<LedgerOf, VerdictOf>>
              PROVE  SequentialLedger!LedgerNext
  OBVIOUS
<1>. USE DEF fileVars
<1>0. main # "over" => VerdictOf = "running" /\ ~interrupted
  BY DEF RunInv, SequentialVerdictInv, VerdictOf
<1>1. CASE SequentialWriteRow
  BY <1>0, <1>1, RowSettles DEF SequentialWriteRow
<1>2. CASE GenerateFails
  <2>1. rows' = Append(rows, "error")
    BY <1>2, LedgerUnchanged DEF GenerateFails, VerdictOf
  <2>. QED
    BY <1>0, <1>2, <2>1, RowSettles DEF GenerateFails
<1>3. CASE SequentialFinishRun
  <2>1. \A r \in 1 .. RequestCount : LedgerOf[r] = "ok"
    BY <1>3 DEF SequentialFinishRun, RunInv, SequentialRowsInv, SequentialTypeOK, LedgerOf
  <2>2. LedgerOf' = LedgerOf /\ VerdictOf' = "complete"
    BY <1>0, <1>3, LedgerUnchanged DEF SequentialFinishRun, SequentialConclude, VerdictOf
  <2>. QED
    BY <1>0, <1>3, <2>1, <2>2
    DEF SequentialFinishRun, SequentialLedger!LedgerNext, SequentialLedger!CallComplete, LedgerOf, VerdictOf
<1>4. CASE Reraise \/ SequentialMainFails
  <2>1. LedgerOf' = LedgerOf /\ VerdictOf' = "failed" /\ main # "over"
    BY <1>0, <1>4, LedgerUnchanged DEF Reraise, SequentialMainFails, SequentialConclude, VerdictOf
  <2>. QED
    BY <1>0, <2>1 DEF SequentialLedger!LedgerNext, SequentialLedger!CallFailed, LedgerOf, VerdictOf
<1>5. CASE SequentialInterrupt
  <2>1. LedgerOf' = LedgerOf /\ VerdictOf' = "abandoned" /\ main # "over"
    BY <1>5, LedgerUnchanged DEF SequentialInterrupt, SequentialConclude, VerdictOf
  <2>. QED
    BY <1>0, <2>1 DEF SequentialLedger!LedgerNext, SequentialLedger!Abandon, LedgerOf, VerdictOf
<1>6. ASSUME UNCHANGED <<rows, status_file, interrupted>> PROVE FALSE
  BY <1>6, LedgerUnchanged DEF VerdictOf
<1>7. \/ SequentialWriteRow \/ GenerateFails \/ SequentialFinishRun \/ Reraise \/ SequentialMainFails \/ SequentialInterrupt
      \/ UNCHANGED <<rows, status_file, interrupted>>
  BY DEF SequentialNext, Progress, Prepare, Route, begin_dispatch, Generated, SequentialStopServing, SequentialWriteSummary, SequentialEnded, sequentialVars
<1>. QED  BY <1>1, <1>2, <1>3, <1>4, <1>5, <1>6, <1>7

(***************************************************************************)
(* The sequential runner implements the ledger of a run: each request is   *)
(* settled at most once, nothing is settled after the verdict, and only a  *)
(* run whose requests are all answered is called complete.                 *)
(***************************************************************************)
THEOREM SequentialRunImplementsLedger == SequentialSpec => SequentialImplementsLedger
<1>1. SequentialInit => SequentialLedger!LedgerInit
  BY DEF SequentialInit, SequentialLedger!LedgerInit
<1>2. RunInv /\ [SequentialNext]_sequentialVars => [SequentialLedger!LedgerNext]_<<LedgerOf, VerdictOf>>
  BY StepImplementsLedger
<1>3. RunInv /\ [SequentialNext]_sequentialVars => [SequentialLedger!LedgerNext]_(SequentialLedger!ledgerVars)
  BY <1>2 DEF SequentialLedger!ledgerVars, LedgerOf, VerdictOf
<1>. QED
  BY <1>1, <1>3, RunInvAlways, PTL DEF SequentialSpec, SequentialImplementsLedger, SequentialLedger!LedgerSpec
===============================================================================
