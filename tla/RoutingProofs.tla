---------------------------- MODULE RoutingProofs ----------------------------
(***************************************************************************)
(* The routing policies, for every workload, every list of adapters and    *)
(* every load: decisions name served adapters, and session affinity is     *)
(* what StickyIsSemantic says; an adapter of another task is chosen only    *)
(* for what it has cached; and every regime has the structure it is named  *)
(* for, whatever the generator draws.                                      *)
(*                                                                         *)
(* StickyIsSemantic is not inductive: it speaks of the requests a session  *)
(* had before, of which sticky_session sees only the adapter of the last.  *)
(* AffinityInv says what that adapter tells of them.                       *)
(***************************************************************************)
EXTENDS Routing, DataLemmas

\* The configuration stays; nothing is routed before all requests are there.
RunInv ==
    /\ shape \in Shapes
    /\ config \in Configs[shape]
    /\ \E S : decisions \in Seq(S)
    /\ decisions # <<>> => Len(stream) = planned_request_count

(***************************************************************************)
(* Every session that was routed has an adapter, one of the specialists or *)
(* multitask if that is served, and it is multitask exactly when one of    *)
(* the session's requests was of a task no specialist is trained for.      *)
(***************************************************************************)
AffinityInv ==
    config.policy = "sticky_session" /\ Tasks \subseteq adapter_ids =>
        /\ \A j \in DOMAIN decisions : stream[j].session \in DOMAIN session_adapter
        /\ "multitask" \in adapter_ids =>
              \A s \in DOMAIN session_adapter :
                  /\ session_adapter[s] \in Tasks \union {"multitask"}
                  /\ session_adapter[s] = "multitask" <=>
                        \E j \in DOMAIN decisions :
                            stream[j].session = s /\ stream[j].task \notin Tasks

\* What the two theorems on served adapters and on affinity rest on.
Inv == RunInv /\ DecisionsAreServed /\ AffinityInv /\ StickyIsSemantic
-----------------------------------------------------------------------------
\* A list with one element more.
LEMMA AppendAnything ==
    ASSUME NEW S, NEW s \in Seq(S), NEW x
    PROVE  /\ Append(s, x) \in Seq(S \union {x})
           /\ Append(s, x) # <<>>
           /\ Len(s) \in Nat
           /\ DOMAIN s = 1 .. Len(s)
           /\ DOMAIN Append(s, x) = 1 .. Len(s) + 1
           /\ \A i \in 1 .. Len(s) : Append(s, x)[i] = s[i]
           /\ Append(s, x)[Len(s) + 1] = x
<1>1. s \in Seq(S \union {x})
  OBVIOUS
<1>2. QED
  BY <1>1

\* sticky_session keeps an adapter only for its own task, or if it is multitask.
LEMMA CompatibleIsTrained ==
    ASSUME NEW task, NEW adapter
    PROVE  /\ task \in Tasks => compatible(task, "multitask")
           /\ compatible(task, adapter) => adapter = task \/ adapter = "multitask"
BY DEF compatible, quality_prior, Tasks, specialist_prior, multitask_prior

\* Every policy chooses among the adapters it is given.
LEMMA ChoicesAreServed ==
    ASSUME RunInv, NEW r, NEW load
    PROVE  choices(r, load) \subseteq adapter_ids
<1>1. config.adapters[1] \in adapter_ids
  BY RoutingAssumption DEF RunInv, adapter_ids
<1>2. multitask_or_first \in adapter_ids
  BY <1>1 DEF multitask_or_first
<1>3. semantic(r) \in adapter_ids
  BY <1>1 DEF semantic
<1>4. sticky_session(r) \in adapter_ids
  BY <1>2 DEF sticky_session
<1>5. /\ first_best(LAMBDA a : cache_aware_score(r, load, a)) \subseteq adapter_ids
      /\ first_best(LAMBDA a : oracle_score(r, a)) \subseteq adapter_ids
  BY DEF first_best, adapter_ids
<1>6. QED
  BY <1>2, <1>3, <1>4, <1>5 DEF choices

\* While requests are generated, none is routed.
LEMMA GenerateChangesNoDecision ==
    ASSUME RunInv, GenerateRequest
    PROVE  decisions = <<>> /\ UNCHANGED <<shape, config, session_adapter, decisions>>
<1>1. planned_request_count \in Int
  BY WorkloadAssumption DEF planned_request_count
<1>2. Len(stream) < planned_request_count
  BY DEF GenerateRequest, Generate
<1>3. Len(stream) # planned_request_count
  BY <1>1, <1>2
<1>4. QED
  BY <1>3 DEF RunInv, GenerateRequest, Generate, state_vars

\* What RouteRequest does, with the request and the adapter it chooses.
LEMMA RouteOne ==
    ASSUME RunInv, RouteRequest
    PROVE  LET n == Len(decisions)
               r == stream[n + 1]
           IN  /\ UNCHANGED <<shape, stream, config>>
               /\ n \in Nat
               /\ DOMAIN decisions = 1 .. n
               /\ DOMAIN decisions' = 1 .. n + 1
               /\ \A i \in 1 .. n : decisions'[i] = decisions[i]
               /\ \E load \in Loads : decisions'[n + 1].adapter \in choices(r, load)
               /\ \A a \in adapter_ids : decisions'[n + 1].cached[a] = cached(a, r)
               /\ session_adapter' =
                     [s \in DOMAIN session_adapter \union {r.session} |->
                         IF s = r.session THEN decisions'[n + 1].adapter
                         ELSE session_adapter[s]]
<1> DEFINE n == Len(decisions)
           r == stream[n + 1]
           entry(adapter) == [adapter |-> adapter,
                              cached  |-> [a \in adapter_ids |-> cached(a, r)]]
<1>0. PICK load \in Loads : \E adapter \in choices(r, load) :
          /\ decisions' = Append(decisions, entry(adapter))
          /\ remember(r, adapter)
  BY DEF RouteRequest
<1>1. PICK adapter \in choices(r, load) :
          /\ decisions' = Append(decisions, entry(adapter))
          /\ remember(r, adapter)
  BY <1>0
<1>2. PICK S : decisions \in Seq(S)
  BY DEF RunInv
<1>3. /\ n \in Nat
      /\ DOMAIN decisions = 1 .. n
      /\ DOMAIN decisions' = 1 .. n + 1
      /\ \A i \in 1 .. n : decisions'[i] = decisions[i]
      /\ decisions'[n + 1] = entry(adapter)
  BY <1>1, <1>2, AppendAnything
<1>4. /\ decisions'[n + 1].adapter = adapter
      /\ \A a \in adapter_ids : decisions'[n + 1].cached[a] = cached(a, r)
  BY <1>3
<1>5. UNCHANGED <<shape, stream, config>>
  BY DEF RouteRequest
<1> HIDE DEF entry
<1>6. QED
  BY <1>1, <1>3, <1>4, <1>5 DEF remember

\* Every step keeps RunInv.
LEMMA RunInvKept == RunInv /\ [Next]_vars => RunInv'
<1> SUFFICES ASSUME RunInv, [Next]_vars PROVE RunInv'
  OBVIOUS
<1>1. CASE GenerateRequest
  BY <1>1, GenerateChangesNoDecision DEF RunInv
<1>2. CASE RouteRequest
  <2>1. PICK S, x : decisions \in Seq(S) /\ decisions' = Append(decisions, x)
    BY <1>2 DEF RunInv, RouteRequest
  <2>2. \E T : decisions' \in Seq(T)
    BY <2>1, AppendAnything
  <2>3. /\ UNCHANGED <<shape, stream, config>>
        /\ Len(stream) = planned_request_count
    BY <1>2 DEF RouteRequest
  <2>4. planned_request_count' = planned_request_count
    BY <2>3 DEF planned_request_count
  <2>5. QED
    BY <2>2, <2>3, <2>4 DEF RunInv
<1>3. CASE UNCHANGED vars
  BY <1>3 DEF RunInv, vars, state_vars, planned_request_count
<1>4. QED
  BY <1>1, <1>2, <1>3 DEF Next

\* A step adds no decision but one of choices, which are served.
LEMMA ServedKept == RunInv /\ DecisionsAreServed /\ [Next]_vars => DecisionsAreServed'
<1> SUFFICES ASSUME RunInv, DecisionsAreServed, [Next]_vars PROVE DecisionsAreServed'
  OBVIOUS
<1>1. CASE GenerateRequest
  BY <1>1, GenerateChangesNoDecision DEF DecisionsAreServed, adapter_ids
<1>2. CASE RouteRequest
  <2> DEFINE n == Len(decisions)
             r == stream[n + 1]
  <2>1. PICK load \in Loads : decisions'[n + 1].adapter \in choices(r, load)
    BY <1>2, RouteOne
  <2>2. decisions'[n + 1].adapter \in adapter_ids
    BY <2>1, ChoicesAreServed
  <2>3. adapter_ids' = adapter_ids
    BY <1>2, RouteOne DEF adapter_ids
  <2>4. /\ n \in Nat
        /\ DOMAIN decisions = 1 .. n
        /\ DOMAIN decisions' = 1 .. n + 1
        /\ \A i \in 1 .. n : decisions'[i] = decisions[i]
    BY <1>2, RouteOne
  <2>5. SUFFICES ASSUME NEW k \in 1 .. n + 1 PROVE decisions'[k].adapter \in adapter_ids
    BY <2>3, <2>4 DEF DecisionsAreServed
  <2>6. CASE k \in 1 .. n
    BY <2>4, <2>6 DEF DecisionsAreServed
  <2>7. CASE k = n + 1
    BY <2>2, <2>7
  <2>8. QED
    BY <2>4, <2>6, <2>7
<1>3. CASE UNCHANGED vars
  BY <1>3 DEF DecisionsAreServed, vars, adapter_ids
<1>4. QED
  BY <1>1, <1>2, <1>3 DEF Next
-----------------------------------------------------------------------------
(***************************************************************************)
(* What sticky_session does with one request, where all specialists are    *)
(* served and the session's adapter is what AffinityInv says.              *)
(***************************************************************************)
LEMMA StickyChoice ==
    ASSUME Tasks \subseteq adapter_ids, NEW r,
           "multitask" \in adapter_ids =>
              (r.session \in DOMAIN session_adapter =>
                  session_adapter[r.session] \in Tasks \union {"multitask"})
    PROVE  LET caught == /\ r.session \in DOMAIN session_adapter
                         /\ session_adapter[r.session] = "multitask"
           IN  /\ r.task \in Tasks /\ "multitask" \in adapter_ids =>
                     sticky_session(r) = IF caught THEN "multitask" ELSE r.task
               /\ r.task \in Tasks /\ "multitask" \notin adapter_ids =>
                     sticky_session(r) = r.task
               /\ r.task \notin Tasks /\ "multitask" \in adapter_ids =>
                     sticky_session(r) = "multitask"
<1> DEFINE current == session_adapter[r.session]
           kept == /\ r.session \in DOMAIN session_adapter
                   /\ current \in adapter_ids
                   /\ compatible(r.task, current)
<1>1. /\ r.task \in Tasks => expected_adapter_for_task(r.task) = r.task
      /\ r.task \notin Tasks => expected_adapter_for_task(r.task) = "multitask"
  BY DEF expected_adapter_for_task
<1>2. /\ kept => sticky_session(r) = current
      /\ ~kept => sticky_session(r) =
                     IF expected_adapter_for_task(r.task) \in adapter_ids
                     THEN expected_adapter_for_task(r.task) ELSE multitask_or_first
  BY DEF sticky_session
<1>3. kept => current = r.task \/ current = "multitask"
  BY CompatibleIsTrained
<1>4. "multitask" \notin Tasks
  BY DEF Tasks
<1>5. ASSUME r.task \in Tasks, "multitask" \in adapter_ids
      PROVE  sticky_session(r) = IF /\ r.session \in DOMAIN session_adapter
                                    /\ current = "multitask"
                                 THEN "multitask" ELSE r.task
  <2>1. compatible(r.task, "multitask")
    BY <1>5, CompatibleIsTrained
  <2> HIDE DEF current
  <2>2. QED
    BY <1>1, <1>2, <1>3, <1>5, <2>1
<1>6. ASSUME r.task \in Tasks, "multitask" \notin adapter_ids
      PROVE  sticky_session(r) = r.task
  BY <1>1, <1>2, <1>3, <1>6
<1>7. ASSUME r.task \notin Tasks, "multitask" \in adapter_ids
      PROVE  sticky_session(r) = "multitask"
  BY <1>1, <1>2, <1>3, <1>7
<1>8. QED
  BY <1>5, <1>6, <1>7

\* Every step keeps the session adapters and the decisions as they should be.
LEMMA StickyKept ==
    RunInv /\ AffinityInv /\ StickyIsSemantic /\ [Next]_vars =>
        AffinityInv' /\ StickyIsSemantic'
<1> SUFFICES ASSUME RunInv, AffinityInv, StickyIsSemantic, [Next]_vars
             PROVE  AffinityInv' /\ StickyIsSemantic'
  OBVIOUS
<1>1. CASE GenerateRequest
  BY <1>1, GenerateChangesNoDecision DEF AffinityInv, StickyIsSemantic, adapter_ids
<1>2. CASE RouteRequest
  <2> DEFINE n == Len(decisions)
             r == stream[n + 1]
             chosen == decisions'[n + 1].adapter
  <2>1. /\ UNCHANGED <<shape, stream, config>>
        /\ n \in Nat
        /\ DOMAIN decisions = 1 .. n
        /\ DOMAIN decisions' = 1 .. n + 1
        /\ \A i \in 1 .. n : decisions'[i] = decisions[i]
        /\ \E load \in Loads : chosen \in choices(r, load)
        /\ session_adapter' =
              [s \in DOMAIN session_adapter \union {r.session} |->
                  IF s = r.session THEN chosen ELSE session_adapter[s]]
    BY <1>2, RouteOne
  <2>2. adapter_ids' = adapter_ids
    BY <2>1 DEF adapter_ids
  <2>3. SUFFICES ASSUME config.policy = "sticky_session", Tasks \subseteq adapter_ids
                 PROVE  AffinityInv' /\ StickyIsSemantic'
    BY <2>1, <2>2 DEF AffinityInv, StickyIsSemantic
  <2>4. chosen = sticky_session(r)
    BY <2>1, <2>3 DEF choices
  <2> DEFINE unknown(s, m) == \E j \in 1 .. m :
                                  stream[j].session = s /\ stream[j].task \notin Tasks
  <2>5. /\ \A j \in 1 .. n : stream[j].session \in DOMAIN session_adapter
        /\ "multitask" \in adapter_ids =>
              \A s \in DOMAIN session_adapter :
                  /\ session_adapter[s] \in Tasks \union {"multitask"}
                  /\ session_adapter[s] = "multitask" <=> unknown(s, n)
    BY <2>1, <2>3 DEF AffinityInv
  <2>6. unknown(r.session, n) => r.session \in DOMAIN session_adapter
    BY <2>5
  <2>7. /\ r.task \in Tasks /\ "multitask" \in adapter_ids =>
              chosen = IF unknown(r.session, n) THEN "multitask" ELSE r.task
        /\ r.task \in Tasks /\ "multitask" \notin adapter_ids => chosen = r.task
        /\ r.task \notin Tasks /\ "multitask" \in adapter_ids => chosen = "multitask"
    <3> HIDE DEF r, chosen, n
    <3>1. QED
      BY <2>3, <2>4, <2>5, <2>6, StickyChoice
  <2>8. \A s : unknown(s, n + 1) <=>
                  unknown(s, n) \/ (s = r.session /\ r.task \notin Tasks)
    BY <2>1
  <2>9. \A j \in 1 .. n + 1 : stream[j].session \in DOMAIN session_adapter'
    <3>1. DOMAIN session_adapter' = DOMAIN session_adapter \union {r.session}
      BY <2>1
    <3>2. \A j \in 1 .. n + 1 : j \in 1 .. n \/ j = n + 1
      BY <2>1
    <3>3. QED
      BY <2>5, <3>1, <3>2
  <2>10. ASSUME "multitask" \in adapter_ids, NEW s \in DOMAIN session_adapter'
         PROVE  /\ session_adapter'[s] \in Tasks \union {"multitask"}
                /\ session_adapter'[s] = "multitask" <=> unknown(s, n + 1)
    <3>1. "multitask" \notin Tasks
      BY DEF Tasks
    <3>2. CASE s = r.session
      <4>1. session_adapter'[s] = chosen
        BY <2>1, <3>2
      <4> HIDE DEF r, chosen, n, unknown
      <4>2. QED
        BY <2>7, <2>8, <2>10, <3>1, <3>2, <4>1
    <3>3. CASE s # r.session
      <4>1. s \in DOMAIN session_adapter /\ session_adapter'[s] = session_adapter[s]
        BY <2>1, <2>10, <3>3
      <4> HIDE DEF r, chosen, n, unknown
      <4>2. QED
        BY <2>5, <2>8, <2>10, <3>3, <4>1
    <3>4. QED
      BY <3>2, <3>3
  <2>11. AffinityInv'
    BY <2>1, <2>2, <2>9, <2>10 DEF AffinityInv
  <2>12. StickyIsSemantic'
    <3>1. SUFFICES ASSUME NEW k \in 1 .. n + 1, stream[k].task \in Tasks
                   PROVE  decisions'[k].adapter =
                             IF /\ "multitask" \in adapter_ids
                                /\ unknown(stream[k].session, k - 1)
                             THEN "multitask" ELSE stream[k].task
      <4>1. StickyIsSemantic' <=>
               (config.policy = "sticky_session" /\ Tasks \subseteq adapter_ids =>
                   \A k \in 1 .. n + 1 :
                       stream[k].task \in Tasks =>
                           decisions'[k].adapter =
                              IF /\ "multitask" \in adapter_ids
                                 /\ unknown(stream[k].session, k - 1)
                              THEN "multitask" ELSE stream[k].task)
        BY <2>1, <2>2 DEF StickyIsSemantic
      <4>2. QED
        BY <3>1, <4>1
    <3>2. CASE k \in 1 .. n
      BY <2>1, <2>3, <3>1, <3>2 DEF StickyIsSemantic
    <3>3. CASE k = n + 1
      <4>1. k - 1 = n /\ stream[k] = r /\ decisions'[k].adapter = chosen
        BY <2>1, <3>3
      <4> HIDE DEF r, chosen, n, unknown
      <4>2. QED
        BY <2>7, <3>1, <4>1
    <3>4. QED
      BY <2>1, <3>2, <3>3
  <2>13. QED
    BY <2>11, <2>12
<1>3. CASE UNCHANGED vars
  BY <1>3 DEF AffinityInv, StickyIsSemantic, vars, state_vars, adapter_ids
<1>4. QED
  BY <1>1, <1>2, <1>3 DEF Next
-----------------------------------------------------------------------------
\* Inv is inductive.
LEMMA InvHolds == Spec => []Inv
<1>1. Init => Inv
  <2> SUFFICES ASSUME Init PROVE Inv
    OBVIOUS
  <2>1. decisions \in Seq({}) /\ decisions = <<>> /\ DOMAIN decisions = {}
    BY DEF Init
  <2>2. QED
    BY <2>1 DEF Init, WorkloadInit, Inv, RunInv, DecisionsAreServed, AffinityInv,
                StickyIsSemantic
<1>2. Inv /\ [Next]_vars => Inv'
  BY RunInvKept, ServedKept, StickyKept DEF Inv
<1>3. QED
  BY <1>1, <1>2, PTL DEF Spec

(***************************************************************************)
(* Whatever a policy falls back to, each decision of the routers in        *)
(* routing/*.py names an adapter of the configuration.                     *)
(***************************************************************************)
THEOREM EveryDecisionIsServed == Spec => []DecisionsAreServed
<1>1. Inv => DecisionsAreServed
  BY DEF Inv
<1>2. QED
  BY InvHolds, <1>1, PTL

(***************************************************************************)
(* Where all specialists are served, sticky_session_policy.py keeps a      *)
(* session from the adapter of a request's task only after a request of    *)
(* a task without a specialist, and then for good.                         *)
(***************************************************************************)
THEOREM StickyFollowsSemantic == Spec => []StickyIsSemantic
<1>1. Inv => StickyIsSemantic
  BY DEF Inv
<1>2. QED
  BY InvHolds, <1>1, PTL

------------------------------------------------------------------------------
(***************************************************************************)
(* A prompt ends or begins with the segments of its task; every segment is *)
(* of a kind that has a size.                                              *)
(***************************************************************************)
SegmentKinds == {"document", "half", "shared", "unique", "task", "question", "trace"}

\* A list of segments, each of which has a size.
IsPrompt(p) ==
    /\ \E S : p \in Seq(S)
    /\ \A k \in 1 .. Len(p) : p[k][1] \in SegmentKinds
    /\ \E k \in 1 .. Len(p) : p[k][1] = "task"

\* Every segment has a number of words.
Sized(p) == (\E S : p \in Seq(S)) /\ \A k \in 1 .. Len(p) : size(p[k]) \in Nat

\* The sizes of the segments of a prompt, as a function.
LEMMA PromptIsSized ==
    ASSUME NEW p, IsPrompt(p)
    PROVE  Sized(p) /\ \E k \in 1 .. Len(p) : size(p[k]) = 10
<1>1. \A s : s[1] \in SegmentKinds => size(s) \in Nat
  BY WorkloadAssumption DEF size, SegmentKinds
<1>2. \A s : s[1] = "task" => size(s) = 10
  BY DEF size
<1>. QED  BY <1>1, <1>2 DEF IsPrompt, Sized

\* The words of a prompt are a running sum over its segments.
LEMMA TokenRun ==
    ASSUME NEW p, Sized(p)
    PROVE  /\ Len(p) \in Nat
           /\ \E u \in [0 .. Len(p) -> Nat] :
                /\ u[0] = 0
                /\ \A k \in 1 .. Len(p) : u[k] = u[k - 1] + size(p[k])
                /\ tokens(p) = u[Len(p)]
<1> DEFINE n == Len(p)
           D == DOMAIN p
           f == [k \in D |-> size(p[k])]
           Is(h) == h = [s \in SUBSET D |-> IF s = {} THEN 0
                             ELSE size(p[CHOOSE x \in s : TRUE]) + h[s \ {CHOOSE x \in s : TRUE}]]
           fold == CHOOSE h : Is(h)
<1>1. D = 1 .. n /\ n \in Nat
  BY DEF Sized
<1>2. tokens(p) = fold[D]
  BY Zenon DEF tokens, MapThenSumSet, MapThenFoldSet
<1>3. f \in [D -> Nat] /\ IsFiniteSet(D) /\ \A k \in D : f[k] = size(p[k])
  BY <1>1, FS_Interval DEF Sized
<1> HIDE DEF n, D, f
<1>4. PICK g \in [SUBSET D -> Nat] : IsSum(g, D, f)
  BY <1>3, SumExists
<1>5. Is(g)
  <2>1. ASSUME NEW s \in SUBSET D
        PROVE  g[s] = IF s = {} THEN 0
                      ELSE size(p[CHOOSE x \in s : TRUE]) + g[s \ {CHOOSE x \in s : TRUE}]
    BY <1>3, <1>4 DEF IsSum
  <2>. QED  BY <2>1
<1>6. Is(fold)
  BY <1>5
<1>7. \A s \in SUBSET D : fold[s] = IF s = {} THEN 0
                             ELSE size(p[CHOOSE x \in s : TRUE]) + fold[s \ {CHOOSE x \in s : TRUE}]
  BY <1>6
<1>8. DOMAIN fold = SUBSET D /\ fold = [s \in SUBSET D |-> fold[s]]
  BY <1>6
<1> HIDE DEF fold
<1>9. \A s \in SUBSET D : fold[s] = g[s]
  <2>1. IsSum(fold, D, f)
    <3>1. ASSUME NEW s \in SUBSET D
          PROVE  fold[s] = IF s = {} THEN 0
                           ELSE f[CHOOSE x \in s : TRUE] + fold[s \ {CHOOSE x \in s : TRUE}]
      BY <1>3, <1>7
    <3>. QED  BY <3>1 DEF IsSum
  <2>. QED  BY <1>3, <1>4, <2>1, SumIsUnique
<1>10. g[{}] = 0 /\ \A s \in SUBSET D : \A x \in s : g[s] = f[x] + g[s \ {x}]
  BY <1>3, <1>4, SumAnyOrder
<1> DEFINE u == [k \in 0 .. n |-> g[1 .. k]]
<1>11. \A k \in 0 .. n : 1 .. k \in SUBSET D /\ u[k] = g[1 .. k] /\ u[k] \in Nat
  <2>1. \A k \in 0 .. n : 1 .. k \in SUBSET D
    BY <1>1
  <2>. QED  BY <2>1
<1>12. u[0] = 0
  <2>1. 1 .. 0 = {}
    OBVIOUS
  <2>. QED  BY <1>1, <1>10, <1>11, <2>1
<1>13. ASSUME NEW k \in 1 .. n PROVE u[k] = u[k - 1] + size(p[k])
  <2>1. k \in 1 .. k /\ (1 .. k) \ {k} = 1 .. (k - 1) /\ k \in D /\ k \in 0 .. n /\ k - 1 \in 0 .. n
    BY <1>1
  <2>2. g[1 .. k] = f[k] + g[(1 .. k) \ {k}]
    BY <1>10, <1>11, <2>1
  <2>3. u[k] = f[k] + u[k - 1] /\ f[k] \in Nat /\ u[k - 1] \in Nat
    BY <1>3, <1>11, <2>1, <2>2
  <2>. QED  BY <1>3, <2>1, <2>3
<1>14. u \in [0 .. n -> Nat] /\ u[n] = tokens(p)
  <2>1. n \in 0 .. n /\ D \in SUBSET D
    BY <1>1
  <2>. QED  BY <1>1, <1>2, <1>9, <1>11, <2>1
<1> HIDE DEF u
<1>. QED  BY <1>1, <1>12, <1>13, <1>14 DEF n

\* The beginning of a prompt has no more words than the whole prompt.
LEMMA PrefixTokens ==
    ASSUME NEW p, Sized(p), NEW m \in 0 .. Len(p)
    PROVE  tokens(p) \in Nat /\ tokens(SubSeq(p, 1, m)) \in 0 .. tokens(p)
<1> DEFINE n == Len(p)
           q == SubSeq(p, 1, m)
<1>1. PICK S : p \in Seq(S)
  BY DEF Sized
<1>2. n \in Nat /\ \A k \in 1 .. n : size(p[k]) \in Nat
  BY <1>1 DEF Sized
<1>3. /\ q \in Seq(S) /\ Len(q) = m
      /\ \A k \in 1 .. m : q[k] = p[k] /\ k \in 1 .. n
  BY <1>1, <1>2
<1>4. Sized(q)
  BY <1>2, <1>3 DEF Sized
<1>5. PICK u \in [0 .. n -> Nat] :
         u[0] = 0 /\ (\A k \in 1 .. n : u[k] = u[k - 1] + size(p[k])) /\ tokens(p) = u[n]
  BY TokenRun
<1>6. PICK v \in [0 .. m -> Nat] :
         v[0] = 0 /\ (\A k \in 1 .. m : v[k] = v[k - 1] + size(q[k])) /\ tokens(q) = v[m]
  BY <1>3, <1>4, TokenRun
<1> HIDE DEF n, q
<1> DEFINE P == {k \in 0 .. m : u[k] = v[k]}
<1>7. 0 \in P
  BY <1>5, <1>6
<1>8. ASSUME NEW k \in 1 .. m, k - 1 \in P PROVE k \in P
  <2>0. k \in 1 .. n /\ q[k] = p[k]
    BY <1>3
  <2>1. k \in 0 .. m /\ u[k - 1] = v[k - 1]
    BY <1>8
  <2>2. u[k] = u[k - 1] + size(p[k]) /\ v[k] = v[k - 1] + size(q[k])
    BY <1>5, <1>6, <2>0
  <2>3. u[k] = v[k]
    BY <2>0, <2>1, <2>2
  <2>. QED  BY <2>1, <2>3
<1> HIDE DEF P
<1>9. \A k \in 0 .. m : k \in P
  <2>1. m \in Nat
    BY <1>2 DEF n
  <2>. QED  BY <2>1, <1>7, <1>8, InductionUpTo
<1>10. u[m] = v[m] /\ m \in 0 .. n /\ n \in 0 .. n
  BY <1>2, <1>9 DEF P, n
<1> DEFINE w == [k \in 1 .. n |-> size(p[k])]
<1>11. w \in [1 .. n -> Nat] /\ \A k \in 1 .. n : u[k] = u[k - 1] + w[k]
  BY <1>2, <1>5
<1> HIDE DEF w
<1>12. \A k \in 0 .. n : \A j \in 0 .. k : u[j] <= u[k]
  BY <1>2, <1>11, RunGrows
<1>13. m \in 0 .. n /\ u[m] <= u[n]
  BY <1>2, <1>10, <1>12
<1>. QED  BY <1>5, <1>6, <1>10, <1>13 DEF q

\* A prompt has words.
LEMMA PromptHasTokens ==
    ASSUME NEW p, IsPrompt(p)
    PROVE  tokens(p) \in Nat /\ tokens(p) > 0
<1> DEFINE n == Len(p)
<1>1. Sized(p) /\ \E k \in 1 .. n : size(p[k]) = 10
  BY PromptIsSized
<1>2. n \in Nat /\ \A k \in 1 .. n : size(p[k]) \in Nat
  BY <1>1 DEF Sized
<1>3. PICK u \in [0 .. n -> Nat] :
         u[0] = 0 /\ (\A k \in 1 .. n : u[k] = u[k - 1] + size(p[k])) /\ tokens(p) = u[n]
  BY <1>1, TokenRun
<1> HIDE DEF n
<1> DEFINE w == [k \in 1 .. n |-> size(p[k])]
<1>4. w \in [1 .. n -> Nat] /\ \A k \in 1 .. n : u[k] = u[k - 1] + w[k]
  BY <1>2, <1>3
<1> HIDE DEF w
<1>5. \A k \in 0 .. n : \A j \in 0 .. k : u[j] <= u[k]
  BY <1>2, <1>4, RunGrows
<1>6. PICK k \in 1 .. n : size(p[k]) = 10
  BY <1>1 DEF n
<1>7. k \in 0 .. n /\ n \in 0 .. n /\ k \in 0 .. n /\ k - 1 \in 0 .. n
  BY <1>2
<1>8. u[k] = u[k - 1] + 10 /\ u[k] <= u[n] /\ u[k - 1] \in Nat /\ u[n] \in Nat
  BY <1>2, <1>3, <1>5, <1>6, <1>7
<1>. QED  BY <1>3, <1>8

\* What a prompt shares with another is not more than it has.
LEMMA SharedTokensBound ==
    ASSUME NEW p, NEW q, Sized(p), Sized(q)
    PROVE  shared_tokens(p, q) \in 0 .. tokens(q)
<1> DEFINE common == {n \in 0 .. Len(p) : n <= Len(q) /\ \A k \in 1 .. n : p[k] = q[k]}
           m == Max(common)
           t == tokens(SubSeq(p, 1, m))
<1>1. Len(p) \in Nat /\ Len(q) \in Nat
  BY DEF Sized
<1>2. common \subseteq 0 .. Len(p) /\ 0 \in common
  BY <1>1
<1>3. m \in common
  <2>. HIDE DEF common
  <2>. QED  BY <1>1, <1>2, MaxFacts
<1>4. m \in 0 .. Len(p) /\ m \in 0 .. Len(q) /\ \A k \in 1 .. m : p[k] = q[k]
  BY <1>1, <1>3
<1> HIDE DEF m
<1>5. SubSeq(p, 1, m) = SubSeq(q, 1, m)
  BY <1>1, <1>4 DEF Sized
<1>6. t \in 0 .. tokens(q) /\ tokens(q) \in Nat
  BY <1>4, <1>5, PrefixTokens
<1> HIDE DEF t
<1>7. (t \div BlockSize) * BlockSize \in 0 .. t
  BY <1>6, RoutingAssumption
<1>8. shared_tokens(p, q) = IF p = q THEN t ELSE (t \div BlockSize) * BlockSize
  BY DEF shared_tokens, t, m
<1>. QED  BY <1>6, <1>7, <1>8

(***************************************************************************)
(* Requests have prompts, and the cache has seen nothing else.             *)
(***************************************************************************)
PromptInv ==
    /\ \E S : stream \in Seq(S)
    /\ \A k \in DOMAIN stream : IsPrompt(stream[k].prompt)
    /\ \A o \in observed : IsPrompt(o.prompt)

\* The estimate of a cache is at most the prompt.
LEMMA CachedBound ==
    ASSUME NEW a, NEW r, IsPrompt(r.prompt), \A o \in observed : IsPrompt(o.prompt)
    PROVE  cached(a, r) \in 0 .. tokens(r.prompt)
<1> DEFINE hits == {0} \union {shared_tokens(o.prompt, r.prompt) :
                                  o \in {o \in observed : o.namespace = namespace(a, r)}}
           n == tokens(r.prompt)
<1>1. n \in Nat
  BY PromptHasTokens
<1>2. \A o \in observed : shared_tokens(o.prompt, r.prompt) \in 0 .. n
  BY PromptIsSized, SharedTokensBound
<1> HIDE DEF n
<1>3. hits \subseteq 0 .. n /\ hits # {}
  BY <1>1, <1>2
<1>4. cached(a, r) = IF config.condition # "warm" THEN 0 ELSE Max(hits)
  BY DEF cached
<1> HIDE DEF hits
<1>5. Max(hits) \in hits
  BY <1>1, <1>3, MaxFacts
<1> DEFINE m == Max(hits)
<1> HIDE DEF m
<1>6. 0 \in 0 .. n /\ m \in 0 .. n
  <2>1. m \in hits
    BY <1>5 DEF m
  <2>2. m \in 0 .. n
    BY <1>3, <2>1
  <2>. QED  BY <1>1, <2>2
<1>7. cached(a, r) \in 0 .. n
  BY <1>4, <1>6 DEF m
<1>. QED  BY <1>7 DEF n

\* Documents: what a prompt is made of besides its task.
IsDocument(d) == (\E S : d \in Seq(S)) /\ \A k \in 1 .. Len(d) : d[k][1] \in SegmentKinds

\* templates.py prompt_for: both layouts keep the segments of the task.
LEMMA PromptForIsPrompt ==
    ASSUME NEW a, NEW d, IsDocument(d), NEW i, NEW layout
    PROVE  IsPrompt(prompt_for(a, d, i, layout))
<1> DEFINE task == <<<<"task", a>>, <<"question", i>>>>
           n == Len(d)
<1>1. PICK S : d \in Seq(S)
  BY DEF IsDocument
<1> DEFINE U == S \union {<<"task", a>>, <<"question", i>>}
<1>2. /\ d \in Seq(U) /\ n \in Nat /\ \A k \in 1 .. n : d[k][1] \in SegmentKinds
  BY <1>1 DEF IsDocument
<1>3. /\ task \in Seq(U) /\ Len(task) = 2
      /\ task[1][1] = "task" /\ task[2][1] = "question"
      /\ \A k \in 1 .. 2 : task[k][1] \in SegmentKinds
  BY DEF SegmentKinds
<1> HIDE DEF task, n, U
<1>4. IsPrompt(d \o task)
  <2>1. /\ d \o task \in Seq(U) /\ Len(d \o task) = n + 2
        /\ \A k \in 1 .. n : (d \o task)[k] = d[k]
        /\ \A k \in n + 1 .. n + 2 : (d \o task)[k] = task[k - n]
    <3>1. /\ d \o task \in Seq(U) /\ Len(d \o task) = Len(d) + Len(task)
          /\ \A k \in 1 .. Len(d) + Len(task) :
                (d \o task)[k] = IF k <= Len(d) THEN d[k] ELSE task[k - Len(d)]
      BY <1>2, <1>3, ConcatProperties
    <3>. QED  BY <1>2, <1>3, <3>1 DEF n
  <2>2. ASSUME NEW k \in 1 .. n + 2 PROVE (d \o task)[k][1] \in SegmentKinds
    <3>1. CASE k \in 1 .. n
      BY <1>2, <2>1, <3>1
    <3>2. CASE k \in n + 1 .. n + 2
      <4>1. k - n \in 1 .. 2
        BY <1>2, <3>2
      <4>. QED  BY <1>3, <2>1, <3>2, <4>1
    <3>3. k \in 1 .. n \/ k \in n + 1 .. n + 2
      BY <1>2
    <3>. QED  BY <3>1, <3>2, <3>3
  <2>3. n + 1 \in 1 .. n + 2 /\ (d \o task)[n + 1][1] = "task"
    BY <1>2, <1>3, <2>1
  <2>. QED  BY <2>1, <2>2, <2>3 DEF IsPrompt
<1>5. IsPrompt(task \o d)
  <2>1. /\ task \o d \in Seq(U) /\ Len(task \o d) = n + 2
        /\ \A k \in 1 .. 2 : (task \o d)[k] = task[k]
        /\ \A k \in 3 .. n + 2 : (task \o d)[k] = d[k - 2]
    <3>1. /\ task \o d \in Seq(U) /\ Len(task \o d) = Len(task) + Len(d)
          /\ \A k \in 1 .. Len(task) + Len(d) :
                (task \o d)[k] = IF k <= Len(task) THEN task[k] ELSE d[k - Len(task)]
      BY <1>2, <1>3, ConcatProperties
    <3>. QED  BY <1>2, <1>3, <3>1 DEF n
  <2>2. ASSUME NEW k \in 1 .. n + 2 PROVE (task \o d)[k][1] \in SegmentKinds
    <3>1. CASE k \in 1 .. 2
      BY <1>3, <2>1, <3>1
    <3>2. CASE k \in 3 .. n + 2
      <4>1. k - 2 \in 1 .. n
        BY <1>2, <3>2
      <4>. QED  BY <1>2, <2>1, <3>2, <4>1
    <3>3. k \in 1 .. 2 \/ k \in 3 .. n + 2
      BY <1>2
    <3>. QED  BY <3>1, <3>2, <3>3
  <2>3. 1 \in 1 .. n + 2 /\ (task \o d)[1][1] = "task"
    BY <1>2, <1>3, <2>1
  <2>. QED  BY <2>1, <2>2, <2>3 DEF IsPrompt
<1>. QED  BY <1>4, <1>5 DEF prompt_for, task

\* So has every request the generator records.
LEMMA RecordHasPrompt ==
    ASSUME NEW d, IsDocument(d)
    PROVE  \A i, t, doc, s, layout : IsPrompt(record(i, t, doc, s, d, layout).prompt)
BY PromptForIsPrompt DEF record

\* The documents of the workloads, shared, unique or halved, are documents.
LEMMA Documents ==
    /\ \A d : IsDocument(shared_document(d))
    /\ \A i : IsDocument(<<<<"shared", 0>>, <<"unique", i>>>>)
    /\ \A i \in Nat : IsDocument(<<<<"half", 0>>>> \o session_trace(i))
<1>1. ASSUME NEW d PROVE IsDocument(shared_document(d))
  <2>1. shared_document(d) \in Seq({<<"document", d>>}) /\ Len(shared_document(d)) = 1
        /\ shared_document(d)[1][1] = "document"
    BY DEF shared_document
  <2>. QED  BY <2>1 DEF IsDocument, SegmentKinds
<1>2. ASSUME NEW i PROVE IsDocument(<<<<"shared", 0>>, <<"unique", i>>>>)
  <2>. DEFINE d == <<<<"shared", 0>>, <<"unique", i>>>>
  <2>1. d \in Seq({<<"shared", 0>>, <<"unique", i>>}) /\ Len(d) = 2
        /\ d[1][1] = "shared" /\ d[2][1] = "unique"
    OBVIOUS
  <2>2. \A k \in 1 .. 2 : d[k][1] \in SegmentKinds
    BY <2>1 DEF SegmentKinds
  <2>. HIDE DEF d
  <2>3. IsDocument(d)
    BY <2>1, <2>2 DEF IsDocument
  <2>. QED  BY <2>3 DEF d
<1>3. ASSUME NEW i \in Nat PROVE IsDocument(<<<<"half", 0>>>> \o session_trace(i))
  <2>. DEFINE n == (i \div Sessions) + 1
              t == session_trace(i)
              h == <<<<"half", 0>>>>
              U == {<<"half", 0>>} \union {t[k] : k \in 1 .. n}
  <2>1. n \in Nat
    BY WorkloadAssumption
  <2>2. t \in Seq({t[k] : k \in 1 .. n}) /\ Len(t) = n /\ \A k \in 1 .. n : t[k][1] = "trace"
    <3>1. t = [k \in 1 .. n |-> t[k]] /\ \A k \in 1 .. n : t[k][1] = "trace"
      BY DEF session_trace
    <3>. HIDE DEF n, t
    <3>. QED  BY <2>1, <3>1
  <2>. HIDE DEF n, t
  <2>3. t \in Seq(U) /\ h \in Seq(U) /\ Len(h) = 1 /\ h[1][1] = "half"
    BY <2>1, <2>2
  <2>. HIDE DEF U, h
  <2>4. /\ h \o t \in Seq(U) /\ Len(h \o t) = 1 + n
        /\ (h \o t)[1] = h[1] /\ \A k \in 2 .. 1 + n : (h \o t)[k] = t[k - 1]
    <3>1. /\ h \o t \in Seq(U) /\ Len(h \o t) = Len(h) + Len(t)
          /\ \A k \in 1 .. Len(h) + Len(t) :
                (h \o t)[k] = IF k <= Len(h) THEN h[k] ELSE t[k - Len(h)]
      BY <2>3, ConcatProperties
    <3>. QED  BY <2>1, <2>2, <2>3, <3>1
  <2>5. ASSUME NEW k \in 1 .. 1 + n PROVE (h \o t)[k][1] \in SegmentKinds
    <3>1. CASE k = 1
      BY <2>3, <2>4, <3>1 DEF SegmentKinds
    <3>2. CASE k \in 2 .. 1 + n
      <4>1. k - 1 \in 1 .. n
        BY <2>1, <3>2
      <4>2. (h \o t)[k][1] = "trace"
        BY <2>2, <2>4, <3>2, <4>1
      <4>. QED  BY <4>2 DEF SegmentKinds
    <3>3. k = 1 \/ k \in 2 .. 1 + n
      BY <2>1
    <3>. QED  BY <3>1, <3>2, <3>3
  <2>6. IsDocument(h \o t)
    BY <2>4, <2>5 DEF IsDocument
  <2>. QED  BY <2>6 DEF h, t
<1>. QED  BY <1>1, <1>2, <1>3

\* generator.py: the workloads without a random choice.
LEMMA FixedHasPrompt ==
    ASSUME NEW i \in Nat, shape \in WorkloadNames,
           shape \notin {"regime_uniform", "regime_zipfian", "regime_phase_shift",
                         "regime_bursty_session", "regime_adversarial_churn", "jsonl_eval"}
    PROVE  IsPrompt(fixed_request(i).prompt)
<1>1. \A d : IsDocument(d) => \A j, t, doc, s, layout : IsPrompt(record(j, t, doc, s, d, layout).prompt)
  BY RecordHasPrompt
<1> DEFINE task == REGIME_TASKS[(i % 4) + 1]
<1>2. CASE shape = "shared_doc_qa"
  <2>1. fixed_request(i) = record(i, "qa", i % Docs, i % Sessions, shared_document(i % Docs), first_document)
    BY <1>2 DEF fixed_request
  <2>. QED  BY <1>1, <2>1, Documents
<1>3. CASE shape = "mixed_tasks_same_doc"
  <2>1. fixed_request(i) = record(i, task, 0, i % Sessions, shared_document(0), first_document)
    BY <1>3 DEF fixed_request
  <2>. QED  BY <1>1, <2>1, Documents
<1>4. CASE shape = "agent_session"
  <2>1. fixed_request(i) = record(i, REGIME_TASKS[(i % 3) + 1], 0, i % Sessions,
                                  <<<<"half", 0>>>> \o session_trace(i), first_document)
    BY <1>4 DEF fixed_request
  <2>. QED  BY <1>1, <2>1, Documents
<1>5. CASE shape = "low_overlap_control"
  <2>1. fixed_request(i) = record(i, task, i, i % Sessions, shared_document(i), first_instruction)
    BY <1>5 DEF fixed_request
  <2>. QED  BY <1>1, <2>1, Documents
<1>6. CASE shape = "controlled_overlap"
  <2>1. fixed_request(i) = record(i, task, i, i % Sessions, <<<<"shared", 0>>, <<"unique", i>>>>, first_document)
    BY <1>6 DEF fixed_request
  <2>. QED  BY <1>1, <2>1, Documents
<1>7. CASE shape = "prompt_layout_ablation"
  <2>1. fixed_request(i) = record(i, REGIME_TASKS[(i % 2) + 1], 0, i % Sessions, shared_document(0),
                                  IF i % 2 = 0 THEN first_instruction ELSE first_document)
    BY <1>7 DEF fixed_request
  <2>. QED  BY <1>1, <2>1, Documents
<1>. QED  BY <1>2, <1>3, <1>4, <1>5, <1>6, <1>7 DEF WorkloadNames

\* Whatever request comes next, it has a prompt.
LEMMA NextHasPrompt ==
    ASSUME NEW i \in Nat, shape \in WorkloadNames, NEW next \in next_requests(i)
    PROVE  IsPrompt(next.request.prompt)
<1>1. \A d, j, t, doc, s, layout : IsPrompt(record(j, t, doc, s, shared_document(d), layout).prompt)
  BY RecordHasPrompt, Documents
<1>2. CASE shape = "regime_uniform"
  BY <1>1, <1>2 DEF next_requests, regime_uniform
<1>3. CASE shape = "regime_zipfian"
  BY <1>1, <1>3 DEF next_requests, regime_zipfian
<1>4. CASE shape = "regime_phase_shift"
  BY <1>1, <1>4 DEF next_requests, regime_phase_shift
<1>5. CASE shape = "regime_bursty_session"
  <2>1. ASSUME NEW b PROVE IsPrompt(in_burst(i, b).request.prompt)
    <3>1. \E t, doc, s : in_burst(i, b).request = record(i, t, doc, s, shared_document(doc), first_document)
      BY Zenon DEF in_burst
    <3>. QED  BY <1>1, <3>1
  <2>2. next \in regime_bursty_session(i)
    BY <1>5 DEF next_requests
  <2>3. \E b : next = in_burst(i, b)
    BY <2>2 DEF regime_bursty_session
  <2>. QED  BY <2>1, <2>3
<1>6. CASE shape = "regime_adversarial_churn"
  BY <1>1, <1>6 DEF next_requests, regime_adversarial_churn
<1>7. CASE shape = "jsonl_eval"
  <2>1. \A a, d : IsPrompt(prompt_for(a, shared_document(d), i, first_document))
    BY PromptForIsPrompt, Documents
  <2>2. PICK a, d : next.request.prompt = prompt_for(a, shared_document(d), i, first_document)
    <3>1. next \in jsonl_eval(i)
      BY <1>7 DEF next_requests
    <3>. DEFINE row == Rows[i + 1]
                expected == IF row.expected = "" THEN expected_adapter_for_task(row.task) ELSE row.expected
                base == record(i, row.task, row.doc, row.session, shared_document(row.doc), first_document)
                p == prompt_for(expected, shared_document(row.doc), i, first_document)
                request == [base EXCEPT !.tenant = row.tenant, !.trust = row.trust,
                                        !.expected = expected, !.prompt = p]
    <3>2. next.request = request
      BY <3>1 DEF jsonl_eval
    <3>3. base = [base EXCEPT !.prompt = base.prompt] /\ "prompt" \in DOMAIN base
      BY DEF record
    <3>. HIDE DEF base, p
    <3>4. request.prompt = p
      BY <3>3
    <3>. QED  BY <3>2, <3>4 DEF p
  <2>. QED  BY <2>1, <2>2
<1>8. CASE shape \notin {"regime_uniform", "regime_zipfian", "regime_phase_shift",
                         "regime_bursty_session", "regime_adversarial_churn", "jsonl_eval"}
  BY <1>8, FixedHasPrompt DEF next_requests
<1>. QED  BY <1>2, <1>3, <1>4, <1>5, <1>6, <1>7, <1>8

\* Generating appends such a request, routing shows a cache one of them.
LEMMA PromptInvKept == RunInv /\ PromptInv /\ [Next]_vars => PromptInv'
<1> SUFFICES ASSUME RunInv, PromptInv, [Next]_vars PROVE PromptInv'
  OBVIOUS
<1>0. PICK S : stream \in Seq(S)
  BY DEF PromptInv
<1>1. CASE GenerateRequest
  <2>1. PICK next \in next_requests(Len(stream)) : stream' = Append(stream, next.request)
    BY <1>1 DEF GenerateRequest, Generate
  <2>2. IsPrompt(next.request.prompt)
    <3>1. Len(stream) \in Nat /\ shape \in WorkloadNames
      BY <1>0, WorkloadAssumption DEF RunInv
    <3>. QED  BY <2>1, <3>1, NextHasPrompt
  <2> DEFINE x == next.request
  <2> HIDE DEF x
  <2>3. /\ stream' \in Seq(S \union {x})
        /\ Len(stream) \in Nat
        /\ DOMAIN stream = 1 .. Len(stream)
        /\ DOMAIN stream' = 1 .. Len(stream) + 1
        /\ \A i \in 1 .. Len(stream) : stream'[i] = stream[i]
        /\ stream'[Len(stream) + 1] = x
    BY <1>0, <2>1, AppendAnything DEF x
  <2>4. ASSUME NEW k \in DOMAIN stream' PROVE IsPrompt(stream'[k].prompt)
    <3>1. CASE k \in DOMAIN stream
      BY <2>3, <3>1 DEF PromptInv
    <3>2. CASE k = Len(stream) + 1
      BY <2>2, <2>3, <3>2 DEF x
    <3>3. k \in DOMAIN stream \/ k = Len(stream) + 1
      BY <2>3, <2>4
    <3>. QED  BY <3>1, <3>2, <3>3
  <2>5. observed' = observed
    BY <1>1 DEF GenerateRequest
  <2>. QED  BY <2>3, <2>4, <2>5 DEF PromptInv
<1>2. CASE RouteRequest
  <2>1. stream' = stream
    BY <1>2 DEF RouteRequest
  <2>2. IsPrompt(stream[Len(decisions) + 1].prompt)
    <3>1. Len(decisions) + 1 \in DOMAIN stream
      BY <1>0, <1>2 DEF RouteRequest, RunInv
    <3>. QED  BY <3>1 DEF PromptInv
  <2>3. \A o \in observed' : o \in observed \/ o.prompt = stream[Len(decisions) + 1].prompt
    BY <1>2 DEF RouteRequest
  <2>. QED  BY <2>1, <2>2, <2>3 DEF PromptInv
<1>3. CASE UNCHANGED vars
  BY <1>3 DEF PromptInv, vars
<1>. QED  BY <1>1, <1>2, <1>3 DEF Next

\* scoring.py: what the priors promise of trained and untrained adapters.
LEMMA PriorFacts ==
    ASSUME NEW t \in Tasks, NEW d, d \notin {t, "multitask"}
    PROVE  /\ quality_prior(t, t) \in Nat /\ quality_prior(t, t) >= 880
           /\ quality_prior(t, "multitask") \in Nat /\ quality_prior(t, "multitask") >= 760
           /\ quality_prior(t, d) = 460
BY DEF quality_prior, Tasks, specialist_prior, multitask_prior

\* No served adapter scores more than the one that is chosen.
LEMMA FirstBestIsBest ==
    ASSUME NEW r, NEW load
    PROVE  /\ \A d \in first_best(LAMBDA a : cache_aware_score(r, load, a)) : \A b \in adapter_ids :
                  cache_aware_score(r, load, b) <= cache_aware_score(r, load, d)
           /\ \A d \in first_best(LAMBDA a : oracle_score(r, a)) : \A b \in adapter_ids :
                  oracle_score(r, b) <= oracle_score(r, d)
BY DEF first_best, adapter_ids

(***************************************************************************)
(* cache_aware_policy.py: an adapter of another task needs cached tokens   *)
(* that the specialist lacks.                                              *)
(***************************************************************************)
LEMMA CacheAwareChoice ==
    ASSUME PriorsPrevail, RunInv, NEW r, r.task \in Tasks, r.task \in adapter_ids,
           \A a \in adapter_ids : cached(a, r) \in Nat, NEW load \in Loads,
           NEW d \in first_best(LAMBDA a : cache_aware_score(r, load, a)), d \notin {r.task, "multitask"}
    PROVE  cached(d, r) > cached(r.task, r)
<1> DEFINE t == r.task
           sw(a) == IF (IF r.session \in DOMAIN session_adapter THEN session_adapter[r.session] ELSE a) # a
                    THEN Weights.gamma ELSE 0
           scope == IF config.salt THEN "none" ELSE config.scope
           iso(a) == Weights.delta * isolation_penalty(a, r, scope)
           cold(a) == IF a \in warm_adapters THEN 0 ELSE Weights.epsilon
           ca(a) == Weights.alpha * cached(a, r)
           lo(a) == Weights.beta * load[a]
<1>1. SUFFICES ASSUME ~(cached(d, r) > cached(t, r)) PROVE FALSE
  OBVIOUS
<1>2. d \in adapter_ids /\ t \in adapter_ids
  BY DEF first_best, adapter_ids
<1>3. cache_aware_score(r, load, t) <= cache_aware_score(r, load, d)
  BY <1>2, FirstBestIsBest
<1>4. \A a : cache_aware_score(r, load, a) = quality_prior(t, a) + ca(a) - lo(a) - sw(a) - iso(a) - cold(a)
  BY DEF cache_aware_score
<1>5. /\ Weights.alpha \in Nat /\ Weights.beta \in Nat /\ Weights.gamma \in Nat
      /\ Weights.delta \in Nat /\ Weights.epsilon \in Nat
      /\ \A a \in adapter_ids : load[a] \in Nat
  BY RoutingAssumption DEF RunInv, adapter_ids
<1>6. ca(d) \in Nat /\ ca(t) \in Nat /\ ca(d) <= ca(t)
  <2>1. cached(d, r) \in Nat /\ cached(t, r) \in Nat /\ cached(d, r) <= cached(t, r)
    BY <1>1, <1>2
  <2>. QED  BY <1>5, <2>1, TimesIsMonotone
<1>7. \A a \in adapter_ids : lo(a) \in Nat
  BY <1>5
<1>8. \A a : sw(a) \in 0 .. Weights.gamma
  BY <1>5
<1>9. \A a : isolation_penalty(a, r, scope) \in {0, 1} /\ (a \notin warm_adapters => isolation_penalty(a, r, scope) = 0)
  BY DEF isolation_penalty
<1>10. ASSUME NEW a
       PROVE  /\ iso(a) \in Nat /\ cold(a) \in Nat
              /\ iso(a) + cold(a) <= Weights.delta \/ iso(a) + cold(a) <= Weights.epsilon
  <2>1. iso(a) \in {0, Weights.delta} /\ (a \notin warm_adapters => iso(a) = 0)
    BY <1>5, <1>9
  <2>. QED  BY <1>5, <2>1
<1>11. lo(t) + Weights.gamma + Weights.delta < 420 /\ lo(t) + Weights.gamma + Weights.epsilon < 420
  BY <1>2 DEF PriorsPrevail, RunInv, adapter_ids
<1>12. /\ quality_prior(t, t) \in Nat /\ quality_prior(t, t) >= 880 /\ quality_prior(t, d) = 460
  BY PriorFacts
<1>13. /\ quality_prior(t, t) + ca(t) - lo(t) - sw(t) - iso(t) - cold(t)
            <= 460 + ca(d) - lo(d) - sw(d) - iso(d) - cold(d)
  BY <1>3, <1>4, <1>12
<1>14. /\ lo(t) \in Nat /\ lo(d) \in Nat /\ sw(t) \in 0 .. Weights.gamma /\ sw(d) \in Nat
       /\ iso(t) \in Nat /\ cold(t) \in Nat /\ iso(d) \in Nat /\ cold(d) \in Nat
       /\ iso(t) + cold(t) <= Weights.delta \/ iso(t) + cold(t) <= Weights.epsilon
  BY <1>2, <1>5, <1>7, <1>8, <1>10
<1> HIDE DEF t, sw, scope, iso, cold, ca, lo
<1>. QED  BY <1>5, <1>6, <1>11, <1>12, <1>13, <1>14

(***************************************************************************)
(* oracle_policy.py: tokens that are cached count for a fifth, which is    *)
(* less than what a trained adapter is better.                             *)
(***************************************************************************)
LEMMA OracleChoice ==
    ASSUME NEW r, r.task \in Tasks, IsPrompt(r.prompt),
           \A a \in adapter_ids : cached(a, r) \in 0 .. tokens(r.prompt), NEW load,
           NEW d \in first_best(LAMBDA a : oracle_score(r, a)), d \notin {r.task, "multitask"}
    PROVE  {r.task, "multitask"} \intersect adapter_ids = {}
<1> DEFINE n == tokens(r.prompt)
<1>1. SUFFICES ASSUME NEW b \in {r.task, "multitask"}, b \in adapter_ids PROVE FALSE
  OBVIOUS
<1>2. n \in Nat /\ n > 0
  BY PromptHasTokens
<1>3. d \in adapter_ids /\ oracle_score(r, b) <= oracle_score(r, d)
  <2>1. d \in adapter_ids
    BY DEF first_best, adapter_ids
  <2>. QED  BY <1>1, <2>1, FirstBestIsBest
<1>4. quality_prior(r.task, b) \in Nat /\ quality_prior(r.task, b) >= 760 /\ quality_prior(r.task, d) = 460
  BY PriorFacts
<1>5. cached(b, r) \in 0 .. n /\ cached(d, r) \in 0 .. n
  BY <1>1, <1>3
<1>6. quality_prior(r.task, b) * n + 200 * cached(b, r) <= 460 * n + 200 * cached(d, r)
  BY <1>3, <1>4 DEF oracle_score
<1> HIDE DEF n
<1>7. n * 760 <= n * quality_prior(r.task, b)
  BY <1>2, <1>4, TimesIsMonotone
<1>8. 760 * n <= quality_prior(r.task, b) * n /\ quality_prior(r.task, b) * n \in Nat
  BY <1>2, <1>4, <1>7
<1>. QED  BY <1>2, <1>5, <1>6, <1>8

\* Every step keeps the property: the request that is routed has a prompt.
LEMMA UntrainedKept ==
    PriorsPrevail /\ RunInv /\ PromptInv /\ UntrainedOnlyForCache /\ [Next]_vars => UntrainedOnlyForCache'
<1> SUFFICES ASSUME PriorsPrevail, RunInv, PromptInv, UntrainedOnlyForCache, [Next]_vars
             PROVE  UntrainedOnlyForCache'
  OBVIOUS
<1>1. CASE GenerateRequest
  BY <1>1, GenerateChangesNoDecision DEF UntrainedOnlyForCache
<1>2. CASE RouteRequest
  <2> DEFINE n == Len(decisions)
             r == stream[n + 1]
             d == decisions'[n + 1]
  <2>1. /\ UNCHANGED <<shape, stream, config>>
        /\ n \in Nat
        /\ DOMAIN decisions = 1 .. n
        /\ DOMAIN decisions' = 1 .. n + 1
        /\ \A i \in 1 .. n : decisions'[i] = decisions[i]
        /\ \A a \in adapter_ids : d.cached[a] = cached(a, r)
    BY <1>2, RouteOne
  <2>2. PICK load \in Loads : d.adapter \in choices(r, load)
    BY <1>2, RouteOne
  <2>3. adapter_ids' = adapter_ids
    BY <2>1 DEF adapter_ids
  <2>4. IsPrompt(r.prompt) /\ \A a \in adapter_ids : cached(a, r) \in 0 .. tokens(r.prompt)
    <3>1. n + 1 \in DOMAIN stream
      BY <1>2 DEF RouteRequest, RunInv, PromptInv
    <3>2. IsPrompt(r.prompt)
      BY <3>1 DEF PromptInv
    <3>. HIDE DEF r
    <3>. QED  BY <3>2, CachedBound DEF PromptInv
  <2>5. d.adapter \in adapter_ids
    <3>. HIDE DEF r, d, n
    <3>. QED  BY <2>2, ChoicesAreServed
  <2>6. \A a \in adapter_ids : cached(a, r) \in Nat
    <3>1. tokens(r.prompt) \in Nat
      BY <2>4, PromptHasTokens
    <3>. HIDE DEF r
    <3>. QED  BY <2>4, <3>1
  <2>7. ASSUME r.task \in Tasks, d.adapter \notin {r.task, "multitask"}
        PROVE  /\ config.policy = "cache_aware" /\ r.task \in adapter_ids
                  => d.cached[d.adapter] > d.cached[r.task]
               /\ config.policy = "oracle" => {r.task, "multitask"} \intersect adapter_ids = {}
    <3>1. ASSUME config.policy = "cache_aware", r.task \in adapter_ids
          PROVE  d.cached[d.adapter] > d.cached[r.task]
      <4>1. d.adapter \in first_best(LAMBDA a : cache_aware_score(r, load, a))
        BY <2>2, <3>1 DEF choices
      <4>2. cached(d.adapter, r) > cached(r.task, r)
        <5>. HIDE DEF r, d, n
        <5>. QED  BY <2>6, <2>7, <3>1, <4>1, CacheAwareChoice
      <4>. QED  BY <2>1, <2>5, <3>1, <4>2
    <3>2. ASSUME config.policy = "oracle" PROVE {r.task, "multitask"} \intersect adapter_ids = {}
      <4>1. d.adapter \in first_best(LAMBDA a : oracle_score(r, a))
        BY <2>2, <3>2 DEF choices
      <4>. HIDE DEF r, d, n
      <4>. QED  BY <2>4, <2>7, <4>1, OracleChoice
    <3>. QED  BY <3>1, <3>2
  <2>8. ASSUME NEW k \in 1 .. n + 1
        PROVE  LET e == decisions'[k]
                   q == stream[k]
                   untrained == q.task \in Tasks /\ e.adapter \notin {q.task, "multitask"}
               IN  /\ config.policy = "cache_aware" /\ untrained /\ q.task \in adapter_ids
                        => e.cached[e.adapter] > e.cached[q.task]
                   /\ config.policy = "oracle" /\ untrained
                        => {q.task, "multitask"} \intersect adapter_ids = {}
    <3>1. CASE k \in 1 .. n
      BY <2>1, <3>1 DEF UntrainedOnlyForCache
    <3>2. CASE k = n + 1
      BY <2>7, <3>2
    <3>3. k \in 1 .. n \/ k = n + 1
      BY <2>1
    <3>. QED  BY <3>1, <3>2, <3>3
  <2>. QED  BY <2>1, <2>3, <2>8 DEF UntrainedOnlyForCache
<1>3. CASE UNCHANGED vars
  BY <1>3 DEF UntrainedOnlyForCache, vars, adapter_ids
<1>. QED  BY <1>1, <1>2, <1>3 DEF Next

(***************************************************************************)
(* cache_aware_policy.py, oracle_policy.py: with weights and loads that    *)
(* leave the specialist ahead, no request goes to an adapter of another    *)
(* task but for what it has cached, whatever was routed before.            *)
(***************************************************************************)
THEOREM UntrainedOnlyWhereCached == PriorsPrevail => (Spec => []UntrainedOnlyForCache)
<1> SUFFICES ASSUME PriorsPrevail PROVE Spec => []UntrainedOnlyForCache
  OBVIOUS
<1> DEFINE J == RunInv /\ PromptInv /\ UntrainedOnlyForCache
<1>1. Init => J
  <2> SUFFICES ASSUME Init PROVE J
    OBVIOUS
  <2>1. decisions \in Seq({}) /\ decisions = <<>> /\ DOMAIN decisions = {}
        /\ stream \in Seq({}) /\ DOMAIN stream = {} /\ observed = {}
    BY DEF Init, WorkloadInit
  <2>. QED
    BY <2>1 DEF Init, WorkloadInit, RunInv, PromptInv, UntrainedOnlyForCache
<1>2. J /\ [Next]_vars => J'
  BY RunInvKept, PromptInvKept, UntrainedKept
<1>3. J => UntrainedOnlyForCache
  OBVIOUS
<1> HIDE DEF J
<1>. QED  BY <1>1, <1>2, <1>3, PTL DEF Spec
-----------------------------------------------------------------------------
(* One request more *)
LEMMA GenerateOne ==
    ASSUME NEW S, stream \in Seq(S), Generate
    PROVE  LET n == Len(stream)
           IN  \E next \in next_requests(n) :
                 /\ n \in Nat /\ n < planned_request_count
                 /\ \E T : stream' \in Seq(T)
                 /\ Len(stream') = n + 1
                 /\ stream'[n + 1] = next.request
                 /\ \A i \in 1 .. n : stream'[i] = stream[i]
                 /\ drawn' = next.left
                 /\ shape' = shape
<1>1. PICK next \in next_requests(Len(stream)) :
          stream' = Append(stream, next.request) /\ drawn' = next.left
  BY DEF Generate
<1> DEFINE x == next.request
<1> HIDE DEF x
<1>2. stream' = Append(stream, x)
  BY <1>1 DEF x
<1>3. /\ stream' \in Seq(S \union {x}) /\ Len(stream) \in Nat /\ Len(stream') = Len(stream) + 1
      /\ \A i \in 1 .. Len(stream) : stream'[i] = stream[i]
      /\ stream'[Len(stream) + 1] = x
  BY <1>2, AppendAnything
<1>4. shape' = shape /\ Len(stream) < planned_request_count
  BY DEF Generate
<1>. QED  BY <1>1, <1>3, <1>4 DEF x

\* The bounds of a run are numbers; only jsonl_eval may end before the count.
LEMMA CountIsNat ==
    /\ planned_request_count \in Nat
    /\ shape # "jsonl_eval" => planned_request_count = Count
    /\ Count \in Nat /\ Docs \in Nat \ {0} /\ Sessions \in Nat \ {0}
BY WorkloadAssumption DEF planned_request_count

------------------------------------------------------------------------------
(***************************************************************************)
(* regime_phase_shift: the documents of a phase are those of its half.     *)
(***************************************************************************)
PhaseInv ==
    \A k \in 1 .. Len(stream) :
        IF k <= midpoint THEN stream[k].prefix \in 0 .. (phase_docs \div 2) - 1
                         ELSE stream[k].prefix \in phase_docs \div 2 .. phase_docs - 1

\* The next request has a document of its half.
LEMMA PhaseStep ==
    ASSUME shape = "regime_phase_shift", NEW S, stream \in Seq(S), PhaseInv, Generate PROVE PhaseInv'
<1> DEFINE n == Len(stream)
<1>1. PICK next \in next_requests(n) :
          /\ n \in Nat /\ Len(stream') = n + 1 /\ stream'[n + 1] = next.request
          /\ \A i \in 1 .. n : stream'[i] = stream[i]
  BY GenerateOne
<1>2. midpoint \in Nat
  BY CountIsNat DEF midpoint
<1>3. PICK t, doc, s, d, layout :
          /\ next.request = record(n, t, doc, s, d, layout)
          /\ doc \in IF n < midpoint THEN 0 .. (phase_docs \div 2) - 1
                                     ELSE phase_docs \div 2 .. phase_docs - 1
  BY <1>1 DEF next_requests, regime_phase_shift
<1>4. next.request.prefix = doc
  BY <1>3 DEF record
<1> HIDE DEF n
<1>5. ASSUME NEW k \in 1 .. n + 1
      PROVE IF k <= midpoint THEN stream'[k].prefix \in 0 .. (phase_docs \div 2) - 1
                             ELSE stream'[k].prefix \in phase_docs \div 2 .. phase_docs - 1
  <2>1. CASE k \in 1 .. n
    BY <1>1, <2>1 DEF PhaseInv, n
  <2>2. CASE k = n + 1
    BY <1>1, <1>2, <1>3, <1>4, <2>2
  <2>. QED  BY <1>1, <2>1, <2>2
<1>. QED  BY <1>1, <1>5 DEF PhaseInv, midpoint, phase_docs

\* So the two halves share no document.
LEMMA PhaseStructure ==
    ASSUME PhaseInv, NEW j \in 1 .. midpoint, NEW k \in midpoint + 1 .. Len(stream), Len(stream) = Count
    PROVE  stream[j].prefix # stream[k].prefix
<1>1. midpoint \in Nat /\ Count \in Nat /\ midpoint <= Count /\ phase_docs \div 2 \in Nat /\ phase_docs \in Nat
  BY CountIsNat DEF midpoint, phase_docs
<1>2. j \in 1 .. Len(stream) /\ k \in 1 .. Len(stream) /\ j <= midpoint /\ ~(k <= midpoint)
  BY <1>1
<1>3. stream[j].prefix \in 0 .. (phase_docs \div 2) - 1 /\ stream[k].prefix \in phase_docs \div 2 .. phase_docs - 1
  BY <1>2 DEF PhaseInv
<1>. QED  BY <1>1, <1>3

------------------------------------------------------------------------------
(***************************************************************************)
(* regime_adversarial_churn: adapters, documents and sessions go round.    *)
(***************************************************************************)
ChurnInv ==
    /\ drawn.order \in Permutations_of(4) /\ drawn.doc \in 0 .. churn_docs - 1
    /\ drawn.session \in 0 .. Sessions - 1
    /\ \A k \in 1 .. Len(stream) :
          /\ stream[k].expected = REGIME_TASKS[drawn.order[(k - 1) % 4] + 1]
          /\ stream[k].prefix = (drawn.doc + (k - 1)) % churn_docs
          /\ stream[k].session = (drawn.session + (k - 1)) % Sessions

\* No fewer documents than requests.
LEMMA ChurnDocs == churn_docs \in Nat \ {0} /\ Count <= churn_docs
BY CountIsNat DEF churn_docs

\* The next request has the next adapter, document and session.
LEMMA ChurnStep ==
    ASSUME shape = "regime_adversarial_churn", NEW S, stream \in Seq(S), ChurnInv, Generate PROVE ChurnInv'
<1> DEFINE n == Len(stream)
<1>1. PICK next \in next_requests(n) :
          /\ n \in Nat /\ Len(stream') = n + 1 /\ stream'[n + 1] = next.request
          /\ \A i \in 1 .. n : stream'[i] = stream[i]
          /\ drawn' = next.left
  BY GenerateOne
<1>2. next \in regime_adversarial_churn(n)
  BY <1>1 DEF next_requests
<1>3. drawn' = drawn
  BY <1>1, <1>2 DEF regime_adversarial_churn
<1> DEFINE t == REGIME_TASKS[drawn.order[n % 4] + 1]
           doc == (drawn.doc + n) % churn_docs
           s == (drawn.session + n) % Sessions
<1>4. PICK d, layout : next.request = record(n, t, doc, s, d, layout)
  BY <1>2 DEF regime_adversarial_churn
<1>5. t \in Tasks
  <2>1. n % 4 \in 0 .. 3
    BY <1>1
  <2>2. drawn.order \in [0 .. 3 -> 0 .. 3]
    BY DEF ChurnInv, Permutations_of
  <2>3. drawn.order[n % 4] \in 0 .. 3
    BY <2>1, <2>2
  <2>. QED  BY <2>3 DEF REGIME_TASKS, Tasks
<1>6. next.request.expected = t /\ next.request.prefix = doc /\ next.request.session = s
  <2>. HIDE DEF t, doc, s
  <2>. QED  BY <1>4, <1>5 DEF record, expected_adapter_for_task
<1> HIDE DEF n
<1>7. ASSUME NEW k \in 1 .. n + 1
      PROVE  /\ stream'[k].expected = REGIME_TASKS[drawn.order[(k - 1) % 4] + 1]
             /\ stream'[k].prefix = (drawn.doc + (k - 1)) % churn_docs
             /\ stream'[k].session = (drawn.session + (k - 1)) % Sessions
  <2>1. CASE k \in 1 .. n
    BY <1>1, <2>1 DEF ChurnInv, n
  <2>2. CASE k = n + 1
    <3>1. k - 1 = n /\ stream'[k] = next.request
      BY <1>1, <2>2
    <3>. QED  BY <1>6, <3>1
  <2>. QED  BY <1>1, <2>1, <2>2
<1>. QED  BY <1>1, <1>3, <1>7 DEF ChurnInv, churn_docs

\* The positions of REGIME_TASKS are its tasks, each once.
LEMMA RegimeTasks ==
    /\ \A t \in 0 .. 3 : REGIME_TASKS[t + 1] \in Tasks
    /\ \A t, u \in 0 .. 3 : REGIME_TASKS[t + 1] = REGIME_TASKS[u + 1] => t = u
    /\ \A task \in Tasks : \E t \in 0 .. 3 : REGIME_TASKS[t + 1] = task
<1>1. REGIME_TASKS[0 + 1] = "qa" /\ REGIME_TASKS[1 + 1] = "json"
      /\ REGIME_TASKS[2 + 1] = "summary" /\ REGIME_TASKS[3 + 1] = "code"
  BY DEF REGIME_TASKS
<1>2. \A t \in 0 .. 3 : t = 0 \/ t = 1 \/ t = 2 \/ t = 3
  OBVIOUS
<1>3. 0 \in 0 .. 3 /\ 1 \in 0 .. 3 /\ 2 \in 0 .. 3 /\ 3 \in 0 .. 3
  OBVIOUS
<1> DEFINE f(t) == REGIME_TASKS[t + 1]
<1>4. f(0) = "qa" /\ f(1) = "json" /\ f(2) = "summary" /\ f(3) = "code"
  BY <1>1
<1> HIDE DEF f
<1>5. \A t \in 0 .. 3 : f(t) \in Tasks
  BY <1>2, <1>4 DEF Tasks
<1>6. \A t, u \in 0 .. 3 : f(t) = f(u) => t = u
  BY <1>2, <1>4
<1>7. \A task \in Tasks : \E t \in 0 .. 3 : f(t) = task
  BY <1>3, <1>4 DEF Tasks
<1>. QED  BY <1>5, <1>6, <1>7 DEF f

\* Adapters come back after four requests, and documents and sessions when all
\* others had their turn.
LEMMA ChurnTurns ==
    ASSUME ChurnInv, NEW S, stream \in Seq(S), Len(stream) = Count
    PROVE  /\ \A k \in 1 .. Len(stream) : \A j \in 1 .. k - 1 :
                 /\ j > k - 4 => stream[j].expected # stream[k].expected
                 /\ j = k - 4 => stream[j].expected = stream[k].expected
                 /\ stream[j].prefix # stream[k].prefix
                 /\ j = k - 1 /\ Sessions > 1 => stream[j].session # stream[k].session
<1> DEFINE n == Len(stream)
<1>1. n \in Nat /\ n = Count
  BY CountIsNat
<1>2. /\ drawn.order \in Permutations_of(4) /\ drawn.doc \in 0 .. churn_docs - 1
      /\ drawn.session \in 0 .. Sessions - 1
      /\ \A k \in 1 .. n :
            /\ stream[k].expected = REGIME_TASKS[drawn.order[(k - 1) % 4] + 1]
            /\ stream[k].prefix = (drawn.doc + (k - 1)) % churn_docs
            /\ stream[k].session = (drawn.session + (k - 1)) % Sessions
  BY DEF ChurnInv
<1>3. /\ drawn.order \in [0 .. 3 -> 0 .. 3]
      /\ \A i, j \in 0 .. 3 : i # j => drawn.order[i] # drawn.order[j]
  BY <1>2 DEF Permutations_of
<1> HIDE DEF n
<1> SUFFICES ASSUME NEW k \in 1 .. n, NEW j \in 1 .. k - 1
             PROVE  /\ j > k - 4 => stream[j].expected # stream[k].expected
                    /\ j = k - 4 => stream[j].expected = stream[k].expected
                    /\ stream[j].prefix # stream[k].prefix
                    /\ j = k - 1 /\ Sessions > 1 => stream[j].session # stream[k].session
  BY DEF n
<1>4. /\ j \in 1 .. n /\ j - 1 \in Nat /\ k - 1 \in Nat /\ k - j \in Nat /\ k - j >= 1 /\ k - j <= n - 1
  BY <1>1
<1>5. ASSUME j > k - 4 PROVE stream[j].expected # stream[k].expected
  <2>1. ((j - 1) + (k - j)) % 4 # (j - 1) % 4
    <3>. DEFINE x == j - 1
                d == k - j
                m == 4
    <3>1. m \in Nat \ {0} /\ x \in Nat /\ d \in 1 .. m - 1
      BY <1>4, <1>5
    <3>. HIDE DEF x, d, m
    <3>2. (x + d) % m # x % m
      BY <3>1, NoReturn
    <3>. QED  BY <3>2 DEF x, d, m
  <2>2. (j - 1) + (k - j) = k - 1
    BY <1>4
  <2>3. (k - 1) % 4 # (j - 1) % 4
    BY <2>1, <2>2
  <2>4. (k - 1) % 4 \in 0 .. 3 /\ (j - 1) % 4 \in 0 .. 3
    BY <1>4
  <2>. DEFINE p == (k - 1) % 4
              q == (j - 1) % 4
  <2>5. p \in 0 .. 3 /\ q \in 0 .. 3 /\ p # q
    BY <2>3, <2>4
  <2>6. stream[k].expected = REGIME_TASKS[drawn.order[p] + 1] /\ stream[j].expected = REGIME_TASKS[drawn.order[q] + 1]
    BY <1>2, <1>4
  <2>. HIDE DEF p, q
  <2>7. drawn.order[p] \in 0 .. 3 /\ drawn.order[q] \in 0 .. 3 /\ drawn.order[p] # drawn.order[q]
    BY <1>3, <2>5
  <2>. QED  BY <2>6, <2>7, RegimeTasks
<1>6. ASSUME j = k - 4 PROVE stream[j].expected = stream[k].expected
  <2>. DEFINE x == j - 1
              y == k - 1
              q == x \div 4
              r == x % 4
  <2>1. q \in Nat /\ r \in 0 .. 3 /\ x = 4 * q + r
    <3>1. x \in Nat
      BY <1>4
    <3>. HIDE DEF x
    <3>. QED  BY <3>1
  <2>2. y = x + 4 /\ y \in Nat
    BY <1>4, <1>6
  <2>. HIDE DEF x, y, q, r
  <2>3. y = 4 * (q + 1) + r /\ q + 1 \in Nat
    BY <2>1, <2>2
  <2>4. y % 4 = r
    BY <2>1, <2>2, <2>3, RemainderIsUnique
  <2>5. (k - 1) % 4 = (j - 1) % 4
    BY <2>4 DEF x, y, r
  <2>. QED  BY <1>2, <1>4, <2>5
<1>7. stream[j].prefix # stream[k].prefix
  <2>. DEFINE x == drawn.doc + (j - 1)
              d == k - j
              m == churn_docs
  <2>1. m \in Nat \ {0} /\ x \in Nat /\ d \in 1 .. m - 1 /\ x + d = drawn.doc + (k - 1)
    <3>1. m \in Nat \ {0} /\ Count <= m
      BY ChurnDocs
    <3>2. drawn.doc \in Nat
      BY <1>2, <3>1
    <3>. HIDE DEF m
    <3>. QED  BY <1>1, <1>4, <3>1, <3>2
  <2>2. stream[j].prefix = x % m /\ stream[k].prefix = (drawn.doc + (k - 1)) % m
    BY <1>2, <1>4
  <2>. HIDE DEF x, d, m
  <2>3. (x + d) % m # x % m
    BY <2>1, NoReturn
  <2>. QED  BY <2>1, <2>2, <2>3
<1>8. ASSUME j = k - 1, Sessions > 1 PROVE stream[j].session # stream[k].session
  <2>. DEFINE x == drawn.session + (j - 1)
  <2>1. Sessions \in Nat \ {0} /\ x \in Nat /\ 1 \in 1 .. Sessions - 1 /\ x + 1 = drawn.session + (k - 1)
    <3>1. Sessions \in Nat \ {0}
      BY CountIsNat
    <3>2. drawn.session \in Nat
      BY <1>2, <3>1
    <3>. QED  BY <1>4, <1>8, <3>1, <3>2
  <2>2. stream[j].session = x % Sessions /\ stream[k].session = (drawn.session + (k - 1)) % Sessions
    BY <1>2, <1>4
  <2>. HIDE DEF x
  <2>3. (x + 1) % Sessions # x % Sessions
    BY <2>1, NoReturn
  <2>. QED  BY <2>1, <2>2, <2>3
<1>. QED  BY <1>5, <1>6, <1>7, <1>8

\* A sum of a constant.
LEMMA SumOfThrees ==
    ASSUME NEW n \in Nat, \A k \in 5 .. n : k - Max(previous_use(stream, k)) - 1 = 3,
           {k \in DOMAIN stream : previous_use(stream, k) # {}} = 5 .. n
    PROVE  reuse_distances(stream) = 3 * Cardinality(5 .. n)
<1> DEFINE D == {k \in DOMAIN stream : previous_use(stream, k) # {}}
           w == [k \in D |-> 3]
           Is(h) == h = [s \in SUBSET D |-> IF s = {} THEN 0
                             ELSE (LET k == CHOOSE x \in s : TRUE
                                   IN  k - Max(previous_use(stream, k)) - 1)
                                  + h[s \ {CHOOSE x \in s : TRUE}]]
           fold == CHOOSE h : Is(h)
<1>1. reuse_distances(stream) = fold[D]
  BY Zenon DEF reuse_distances, MapThenSumSet, MapThenFoldSet
<1>2. D = 5 .. n /\ IsFiniteSet(D) /\ \A k \in D : k - Max(previous_use(stream, k)) - 1 = 3
  <2>1. D = 5 .. n
    OBVIOUS
  <2>2. IsFiniteSet(5 .. n)
    BY FS_Interval
  <2>. HIDE DEF D
  <2>. QED  BY <2>1, <2>2
<1> HIDE DEF D
<1>3. w \in [D -> Nat] /\ \A k \in D : w[k] = 3
  OBVIOUS
<1>4. w = [k \in D |-> 3]
  OBVIOUS
<1> HIDE DEF w
<1>5. PICK g \in [SUBSET D -> Nat] : IsSum(g, D, w)
  BY <1>2, <1>3, SumExists
<1>6. \A s \in SUBSET D : s # {} =>
          LET k == CHOOSE x \in s : TRUE IN k - Max(previous_use(stream, k)) - 1 = w[k]
  BY <1>2, <1>3
<1>7. Is(g)
  <2>1. \A s \in SUBSET D : g[s] = IF s = {} THEN 0
                             ELSE (LET k == CHOOSE x \in s : TRUE
                                   IN  k - Max(previous_use(stream, k)) - 1)
                                  + g[s \ {CHOOSE x \in s : TRUE}]
    BY <1>5, <1>6 DEF IsSum
  <2>. QED  BY <2>1
<1>8. Is(fold)
  <2>. HIDE DEF Is
  <2>. QED  BY <1>7
<1>9. \A s \in SUBSET D : fold[s] = IF s = {} THEN 0
                             ELSE (LET k == CHOOSE x \in s : TRUE
                                   IN  k - Max(previous_use(stream, k)) - 1)
                                  + fold[s \ {CHOOSE x \in s : TRUE}]
  BY <1>8
<1> HIDE DEF fold
<1>10. IsSum(fold, D, w)
  BY <1>6, <1>9 DEF IsSum
<1>11. fold[D] = g[D]
  BY <1>2, <1>5, <1>10, SumIsUnique
<1>12. g[D] = 3 * Cardinality(D)
  BY <1>2, <1>4, <1>5, ConstantSum
<1>. QED  BY <1>1, <1>2, <1>11, <1>12

(***************************************************************************)
(* workload_metrics.py: so churn changes the adapter with every request,   *)
(* reuses no document and comes back to an adapter as late as it can.      *)
(***************************************************************************)
LEMMA ChurnStructure ==
    ASSUME ChurnInv, NEW S, stream \in Seq(S), Len(stream) = Count
    PROVE  LET n == Len(stream)
           IN  /\ n > 0 => switches(stream) = n - 1
               /\ reusable(stream) = 0
               /\ Sessions > 1 => same_session_transitions(stream) = 0
               /\ reuse_distances(stream) = 3 * Cardinality(5 .. n)
<1> DEFINE n == Len(stream)
<1>1. n \in Nat /\ DOMAIN stream = 1 .. n
  BY LenProperties
<1>2. \A k \in 1 .. n : \A j \in 1 .. k - 1 :
                 /\ j > k - 4 => stream[j].expected # stream[k].expected
                 /\ j = k - 4 => stream[j].expected = stream[k].expected
                 /\ stream[j].prefix # stream[k].prefix
                 /\ j = k - 1 /\ Sessions > 1 => stream[j].session # stream[k].session
  BY ChurnTurns
<1>3. transitions(stream) = 2 .. n
  BY DEF transitions
<1> HIDE DEF n
<1>4. \A k \in 2 .. n : k \in 1 .. n /\ k - 1 \in 1 .. k - 1 /\ k - 1 > k - 4
  BY <1>1
<1>5. ASSUME n > 0 PROVE switches(stream) = n - 1
  <2>1. {k \in transitions(stream) : stream[k].expected # stream[k - 1].expected} = 2 .. n
    BY <1>2, <1>3, <1>4
  <2>2. Cardinality(2 .. n) = n - 1
    <3>1. Cardinality(2 .. n) = IF 2 > n THEN 0 ELSE n - 2 + 1
      BY <1>1, FS_Interval
    <3>. QED  BY <1>1, <1>5, <3>1
  <2>. QED  BY <2>1, <2>2 DEF switches
<1>6. reusable(stream) = 0
  <2>1. {k \in DOMAIN stream : \E j \in 1 .. k - 1 : stream[j].prefix = stream[k].prefix} = {}
    BY <1>1, <1>2
  <2>. QED  BY <2>1, FS_EmptySet DEF reusable
<1>7. ASSUME Sessions > 1 PROVE same_session_transitions(stream) = 0
  <2>1. {k \in transitions(stream) : stream[k].session = stream[k - 1].session} = {}
    BY <1>2, <1>3, <1>4, <1>7
  <2>. QED  BY <2>1, FS_EmptySet DEF same_session_transitions
<1>8. ASSUME NEW k \in 1 .. n
      PROVE  /\ previous_use(stream, k) # {} <=> k >= 5
             /\ k >= 5 => Max(previous_use(stream, k)) = k - 4
  <2>. DEFINE U == previous_use(stream, k)
  <2>1. \A j : j \in U <=> j \in 1 .. k - 1 /\ stream[j].expected = stream[k].expected
    BY DEF previous_use
  <2>. HIDE DEF U
  <2>2. \A j \in U : j \in 1 .. k - 4
    BY <1>2, <2>1
  <2>3. k >= 5 => k - 4 \in U
    <3>1. k >= 5 => k - 4 \in 1 .. k - 1
      OBVIOUS
    <3>. QED  BY <1>2, <2>1, <3>1
  <2>4. U # {} <=> k >= 5
    BY <2>2, <2>3
  <2>5. ASSUME k >= 5 PROVE Max(U) = k - 4
    <3>1. U \subseteq 0 .. n /\ U # {}
      BY <1>1, <2>2, <2>4, <2>5
    <3>2. Max(U) \in U /\ \A y \in U : y <= Max(U)
      BY <1>1, <3>1, MaxFacts
    <3>. QED  BY <2>2, <2>3, <2>5, <3>2
  <2>. QED  BY <2>4, <2>5 DEF U
<1>9. reuse_distances(stream) = 3 * Cardinality(5 .. n)
  <2>1. {k \in DOMAIN stream : previous_use(stream, k) # {}} = 5 .. n
    <3>1. \A k : k \in 5 .. n <=> k \in 1 .. n /\ k >= 5
      BY <1>1
    <3>. QED  BY <1>1, <1>8, <3>1
  <2>2. ASSUME NEW k \in 5 .. n PROVE k - Max(previous_use(stream, k)) - 1 = 3
    <3>1. k \in 1 .. n /\ k >= 5
      BY <1>1
    <3>2. Max(previous_use(stream, k)) = k - 4
      BY <1>8, <3>1
    <3>. QED  BY <3>1, <3>2
  <2>. QED  BY <1>1, <2>1, <2>2, SumOfThrees
<1>. QED  BY <1>5, <1>6, <1>7, <1>9 DEF n

\* A request more in a list is a transition more.
LEMMA SameSteps ==
    ASSUME NEW s, NEW t, NEW n \in Nat, Len(s) = n, Len(t) = n + 1, \A i \in 1 .. n : t[i] = s[i]
    PROVE  /\ same_session_transitions(s) \in Nat
           /\ n = 0 => same_session_transitions(t) = 0
           /\ n > 0 => same_session_transitions(t) = same_session_transitions(s) +
                          IF t[n + 1].session = s[n].session THEN 1 ELSE 0
<1> DEFINE A == {k \in 2 .. n : s[k].session = s[k - 1].session}
           B == {k \in 2 .. n + 1 : t[k].session = t[k - 1].session}
<1>1. same_session_transitions(s) = Cardinality(A) /\ same_session_transitions(t) = Cardinality(B)
  BY DEF same_session_transitions, transitions
<1>2. IsFiniteSet(A) /\ Cardinality(A) \in Nat
  <2>1. IsFiniteSet(2 .. n) /\ A \subseteq 2 .. n
    BY FS_Interval
  <2>. HIDE DEF A
  <2>2. IsFiniteSet(A)
    BY <2>1, FS_Subset
  <2>. QED  BY <2>2, FS_CardinalityType
<1>3. ASSUME n = 0 PROVE Cardinality(B) = 0
  <2>1. B = {}
    BY <1>3
  <2>. QED  BY <2>1, FS_EmptySet
<1>4. ASSUME n > 0 PROVE Cardinality(B) = Cardinality(A) + IF t[n + 1].session = s[n].session THEN 1 ELSE 0
  <2>1. \A k \in 2 .. n : k \in 1 .. n /\ k - 1 \in 1 .. n /\ k # n + 1
    OBVIOUS
  <2>2. \A k : k \in 2 .. n + 1 <=> k = n + 1 \/ k \in 2 .. n
    BY <1>4
  <2>3. n \in 1 .. n /\ (n + 1) - 1 = n
    BY <1>4
  <2>4. \A k : k \in B <=> k \in A \/ (k = n + 1 /\ t[n + 1].session = s[n].session)
    BY <2>1, <2>2, <2>3
  <2>5. n + 1 \notin A
    OBVIOUS
  <2>. HIDE DEF A, B
  <2>6. CASE t[n + 1].session = s[n].session
    <3>1. B = A \union {n + 1}
      BY <2>4, <2>6
    <3>2. Cardinality(B) = Cardinality(A) + 1
      BY <1>2, <2>5, <3>1, FS_AddElement
    <3>. QED  BY <2>6, <3>2
  <2>7. CASE t[n + 1].session # s[n].session
    <3>1. B = A
      BY <2>4, <2>7
    <3>. QED  BY <1>2, <2>7, <3>1
  <2>. QED  BY <2>6, <2>7
<1> HIDE DEF A, B
<1>. QED  BY <1>1, <1>2, <1>3, <1>4

(***************************************************************************)
(* regime_bursty_session: a burst keeps its session; each but the last is  *)
(* at least as long as the shortest of BurstLengths, and the last ends     *)
(* with the requests.  The session changes only with a new burst.          *)
(***************************************************************************)
Bursts == [order : Permutations_of(Sessions), burst : Nat, length : Nat, turn : Nat, offset : Nat]

\* The length of the shortest burst that is not cut off by the end.
Shortest == Min(BurstLengths)

\* What holds of a burst b that has been going on for b.turn of n requests.
InBurst(n, b) ==
    /\ b.turn <= n
    /\ b.turn < b.length
    /\ (n - b.turn) + b.length <= Count
    /\ (n - b.turn) + b.length < Count => b.length >= Shortest
    /\ b.burst * Shortest <= n - b.turn

\* The session changes at most once with each burst, and the bursts before the
\* present one take up Shortest requests each.
BurstInv ==
    LET n == Len(stream)
        changes == (n - 1) - same_session_transitions(stream)
    IN  /\ drawn \in Bursts
        /\ drawn.turn > 0 => /\ n > 0
                             /\ InBurst(n, drawn)
                             /\ stream[n].session = drawn.order[drawn.burst % Sessions]
                             /\ changes <= drawn.burst
        /\ drawn.turn = 0 /\ n > 0 => /\ drawn.burst > 0
                                      /\ changes <= drawn.burst - 1
                                      /\ (drawn.burst - 1) * Shortest < n
                                      /\ n < Count => drawn.burst * Shortest <= n
        /\ n = 0 => drawn.burst = 0 /\ drawn.turn = 0

\* It is one of the lengths, which are positive.
LEMMA ShortestFacts == Shortest \in Nat \ {0} /\ \A l \in BurstLengths : l \in Nat /\ Shortest <= l
<1>1. BurstLengths \subseteq Nat \ {0} /\ BurstLengths # {} /\ BurstLengths \subseteq Nat
  BY WorkloadAssumption
<1>2. Min(BurstLengths) \in BurstLengths /\ \A y \in BurstLengths : Min(BurstLengths) <= y
  BY <1>1, MinFacts
<1>. QED  BY <1>1, <1>2 DEF Shortest

\* The burst that the next request is of.
LEMMA NextInBurst ==
    ASSUME BurstInv, NEW n \in Nat, n = Len(stream), n < Count,
           NEW next \in regime_bursty_session(n)
    PROVE  \E b \in Bursts : /\ next = in_burst(n, b)
                             /\ b.burst = drawn.burst /\ b.turn = drawn.turn /\ b.order = drawn.order
                             /\ InBurst(n, b)
<1>1. drawn \in Bursts
  BY DEF BurstInv
<1>2. CASE drawn.turn > 0
  BY <1>1, <1>2 DEF BurstInv, regime_bursty_session
<1>3. CASE ~(drawn.turn > 0)
  <2>1. PICK l \in BurstLengths, o \in 0 .. 3 : next = in_burst(n, begin_burst(n, l, o))
    BY <1>3 DEF regime_bursty_session
  <2>2. l \in Nat /\ l > 0 /\ Shortest <= l /\ Count \in Nat /\ drawn.turn = 0 /\ drawn.burst \in Nat /\ Shortest \in Nat
    BY <1>1, <1>3, ShortestFacts, CountIsNat, WorkloadAssumption DEF Bursts
  <2>. DEFINE b == begin_burst(n, l, o)
              len == IF Count - n < l THEN Count - n ELSE l
  <2>3. b = [drawn EXCEPT !.length = len, !.offset = o]
    BY DEF begin_burst
  <2>4. len \in Nat /\ len > 0 /\ n + len <= Count /\ (n + len < Count => len >= Shortest)
    BY <2>2
  <2>. HIDE DEF b, len
  <2>5. /\ b \in Bursts /\ b.burst = drawn.burst /\ b.turn = drawn.turn /\ b.order = drawn.order
        /\ b.length = len
    <3>1. o \in Nat
      BY <2>1
    <3>. QED  BY <1>1, <2>3, <2>4, <3>1 DEF Bursts
  <2>6. drawn.burst * Shortest <= n
    <3>1. CASE n = 0
      <4>1. drawn.burst = 0
        BY <3>1 DEF BurstInv
      <4>. QED  BY <2>2, <3>1, <4>1
    <3>2. CASE n > 0
      BY <2>2, <3>2 DEF BurstInv
    <3>. QED  BY <3>1, <3>2
  <2>7. InBurst(n, b)
    <3>. DEFINE bm == drawn.burst * Shortest
    <3>1. bm <= n /\ bm \in Nat /\ b.burst * Shortest = bm
      BY <2>2, <2>5, <2>6
    <3>. HIDE DEF bm
    <3>. QED  BY <2>2, <2>4, <2>5, <3>1 DEF InBurst
  <2>. QED  BY <2>1, <2>5, <2>7 DEF b
<1>. QED  BY <1>2, <1>3

\* A request more of a burst, which may end with it.
LEMMA BurstStep ==
    ASSUME shape = "regime_bursty_session", NEW S, stream \in Seq(S), BurstInv, Generate PROVE BurstInv'
<1> DEFINE n == Len(stream)
<1>1. PICK next \in next_requests(n) :
          /\ n \in Nat /\ n < planned_request_count /\ Len(stream') = n + 1
          /\ stream'[n + 1] = next.request
          /\ \A i \in 1 .. n : stream'[i] = stream[i]
          /\ drawn' = next.left
  BY GenerateOne
<1>2. n < Count /\ next \in regime_bursty_session(n)
  BY <1>1, CountIsNat DEF next_requests
<1>3. PICK b \in Bursts : /\ next = in_burst(n, b)
                          /\ b.burst = drawn.burst /\ b.turn = drawn.turn /\ b.order = drawn.order
                          /\ InBurst(n, b)
  <2>. DEFINE k == n
  <2>1. k \in Nat /\ k = Len(stream) /\ k < Count /\ next \in regime_bursty_session(k)
    BY <1>1, <1>2
  <2>. HIDE DEF k
  <2>2. \E b \in Bursts : /\ next = in_burst(k, b)
                          /\ b.burst = drawn.burst /\ b.turn = drawn.turn /\ b.order = drawn.order
                          /\ InBurst(k, b)
    BY <2>1, NextInBurst
  <2>. QED  BY <2>2 DEF k
<1> DEFINE session == b.order[b.burst % Sessions]
           same == same_session_transitions(stream)
           same2 == same_session_transitions(stream')
           last == b.turn + 1 = b.length
<1>4. stream'[n + 1].session = session
  <2>1. \E task, doc, d : next.request = record(n, task, doc, session, d, first_document)
    BY <1>3 DEF in_burst
  <2>. HIDE DEF session
  <2>. QED  BY <1>1, <2>1 DEF record
<1>5. drawn' = [b EXCEPT !.turn   = IF last THEN 0 ELSE b.turn + 1,
                         !.length = IF last THEN 0 ELSE b.length,
                         !.burst  = IF last THEN b.burst + 1 ELSE b.burst]
  BY <1>1, <1>3 DEF in_burst
<1>9. b.burst \in Nat /\ b.turn \in Nat /\ b.length \in Nat
  BY DEF Bursts
<1>6. /\ drawn' \in Bursts
      /\ drawn'.turn = (IF last THEN 0 ELSE b.turn + 1)
      /\ drawn'.length = (IF last THEN 0 ELSE b.length)
      /\ drawn'.burst = (IF last THEN b.burst + 1 ELSE b.burst)
      /\ drawn'.order = b.order
  <2>. DEFINE t2 == IF last THEN 0 ELSE b.turn + 1
              l2 == IF last THEN 0 ELSE b.length
              b2 == IF last THEN b.burst + 1 ELSE b.burst
  <2>1. t2 \in Nat /\ l2 \in Nat /\ b2 \in Nat
    BY <1>9
  <2>2. drawn' = [b EXCEPT !.turn = t2, !.length = l2, !.burst = b2]
    BY <1>5
  <2>. HIDE DEF t2, l2, b2, last
  <2>3. /\ drawn' \in Bursts /\ drawn'.turn = t2 /\ drawn'.length = l2
        /\ drawn'.burst = b2 /\ drawn'.order = b.order
    BY <2>1, <2>2 DEF Bursts
  <2>. QED  BY <2>3 DEF t2, l2, b2
<1>7. /\ same \in Nat
      /\ n = 0 => same2 = 0
      /\ n > 0 => same2 = same + IF session = stream[n].session THEN 1 ELSE 0
  <2>. DEFINE k == n
  <2>1. k \in Nat /\ Len(stream) = k /\ Len(stream') = k + 1 /\ \A i \in 1 .. k : stream'[i] = stream[i]
    BY <1>1
  <2>. HIDE DEF k
  <2>2. /\ same \in Nat
        /\ k = 0 => same2 = 0
        /\ k > 0 => same2 = same +
                          IF stream'[k + 1].session = stream[k].session THEN 1 ELSE 0
    BY <2>1, SameSteps
  <2>. QED  BY <1>4, <2>2 DEF k
<1>8. /\ drawn.turn > 0 => n > 0 /\ session = stream[n].session /\ (n - 1) - same <= drawn.burst
      /\ drawn.turn = 0 /\ n > 0 => drawn.burst > 0 /\ (n - 1) - same <= drawn.burst - 1
      /\ n = 0 => drawn.burst = 0
  BY <1>3 DEF BurstInv
<1> HIDE DEF same, same2, session, n
<1>10. n - same2 <= b.burst
  <2>1. CASE n = 0
    BY <1>7, <1>9, <2>1
  <2>2. CASE n > 0 /\ b.turn > 0
    BY <1>1, <1>3, <1>7, <1>8, <1>9, <2>2
  <2>3. CASE n > 0 /\ b.turn = 0
    <3>1. (n - 1) - same <= b.burst - 1 /\ same \in Nat /\ same2 >= same /\ same2 \in Nat
      BY <1>1, <1>3, <1>7, <1>8, <2>3
    <3>. QED  BY <1>1, <1>9, <3>1
  <2>. QED  BY <1>1, <1>9, <2>1, <2>2, <2>3
<1> DEFINE bm == b.burst * Shortest
<1>11. /\ bm \in Nat /\ Shortest \in Nat /\ Shortest > 0
       /\ (b.burst + 1) * Shortest = bm + Shortest
       /\ b.turn <= n /\ b.turn < b.length
       /\ (n - b.turn) + b.length <= Count
       /\ (n - b.turn) + b.length < Count => b.length >= Shortest
       /\ bm <= n - b.turn
  BY <1>3, <1>9, ShortestFacts DEF InBurst
<1>12. CASE last
  <2>1. drawn'.turn = 0 /\ drawn'.burst = b.burst + 1
    BY <1>6, <1>12
  <2>2. drawn'.burst > 0 /\ drawn'.burst - 1 = b.burst
    BY <1>9, <2>1
  <2>3. (drawn'.burst - 1) * Shortest = bm /\ drawn'.burst * Shortest = bm + Shortest
    BY <1>11, <2>1, <2>2
  <2>. HIDE DEF bm
  <2>4. (drawn'.burst - 1) * Shortest < n + 1
    BY <1>1, <1>9, <1>11, <2>3
  <2>5. n + 1 < Count => drawn'.burst * Shortest <= n + 1
    BY <1>1, <1>9, <1>11, <1>12, <2>3, CountIsNat
  <2>6. ((n + 1) - 1) - same2 <= drawn'.burst - 1
    BY <1>1, <1>10, <2>2
  <2>7. n + 1 # 0 /\ n + 1 > 0 /\ Len(stream') = n + 1
    BY <1>1 DEF n
  <2>. QED  BY <1>6, <2>1, <2>2, <2>4, <2>5, <2>6, <2>7 DEF BurstInv, same2, Shortest
<1>13. CASE ~last
  <2>1. drawn'.turn = b.turn + 1 /\ drawn'.burst = b.burst /\ drawn'.length = b.length /\ drawn'.order = b.order
    BY <1>6, <1>13
  <2>0. b.turn + 1 # b.length
    BY <1>13
  <2>. HIDE DEF bm, last
  <2>2. /\ b.turn + 1 <= n + 1 /\ b.turn + 1 < b.length
        /\ (n + 1) - (b.turn + 1) = n - b.turn
    <3>. DEFINE t == b.turn
                l == b.length
    <3>1. n \in Nat /\ t \in Nat /\ l \in Nat /\ t <= n /\ t < l /\ t + 1 # l
      BY <1>1, <1>9, <1>11, <2>0
    <3>. HIDE DEF t, l
    <3>2. t + 1 <= n + 1 /\ t + 1 < l /\ (n + 1) - (t + 1) = n - t
      BY <3>1
    <3>. QED  BY <3>2 DEF t, l
  <2>3. InBurst(n + 1, drawn')
    BY <1>11, <2>1, <2>2 DEF InBurst, bm
  <2>4. ((n + 1) - 1) - same2 <= drawn'.burst
    BY <1>1, <1>10, <2>1
  <2>5. n + 1 # 0 /\ n + 1 > 0 /\ Len(stream') = n + 1 /\ drawn'.turn > 0 /\ drawn'.turn # 0
    BY <1>1, <1>9, <2>1 DEF n
  <2>6. stream'[n + 1].session = drawn'.order[drawn'.burst % Sessions]
    BY <1>4, <2>1 DEF session
  <2>. QED  BY <1>6, <2>3, <2>4, <2>5, <2>6 DEF BurstInv, same2, InBurst, Shortest
<1>. QED  BY <1>12, <1>13

\* All requests but one in each burst that is not the last follow one of their session.
LEMMA BurstStructure ==
    ASSUME BurstInv, NEW S, stream \in Seq(S), Len(stream) = Count
    PROVE  (Len(stream) - 1 - same_session_transitions(stream)) * Min(BurstLengths) < Len(stream)
<1> DEFINE n == Len(stream)
           same == same_session_transitions(stream)
           B == drawn.burst
           m == Shortest
<1>1. n \in Nat /\ n = Count /\ m \in Nat \ {0} /\ B \in Nat /\ drawn \in Bursts
      /\ drawn.turn \in Nat /\ drawn.length \in Nat
  BY CountIsNat, ShortestFacts DEF BurstInv, Bursts
<1>2. same \in Nat /\ (n = 0 => same = 0)
  <2>1. DOMAIN stream = 1 .. n /\ transitions(stream) = 2 .. n
    BY LenProperties DEF transitions
  <2>2. IsFiniteSet(2 .. n)
    BY <1>1, FS_Interval
  <2>. DEFINE A == {k \in transitions(stream) : stream[k].session = stream[k - 1].session}
  <2>3. A \subseteq 2 .. n
    BY <2>1
  <2>4. same = Cardinality(A)
    BY DEF same_session_transitions
  <2>. HIDE DEF A, same
  <2>5. IsFiniteSet(A)
    BY <2>2, <2>3, FS_Subset
  <2>6. n = 0 => A = {}
    BY <1>1, <2>3
  <2>. QED  BY <2>4, <2>5, <2>6, FS_CardinalityType, FS_EmptySet
<1>3. CASE n = 0
  <2>1. (n - 1) - same = -1
    BY <1>2, <1>3
  <2>2. (n - 1 - same) * m < n
    <3>. HIDE DEF n, same, m
    <3>. QED  BY <1>1, <1>3, <2>1
  <2>. QED  BY <2>2 DEF Shortest
<1>4. CASE n > 0
  <2>1. ~(drawn.turn > 0)
    BY <1>1, <1>4 DEF BurstInv, InBurst
  <2>2. drawn.turn = 0
    BY <1>1, <2>1
  <2>3. B > 0 /\ (n - 1) - same <= B - 1 /\ (B - 1) * m < n
    BY <1>4, <2>2 DEF BurstInv
  <2>. DEFINE c == n - 1 - same
  <2>4. c \in Int /\ c <= B - 1 /\ B - 1 \in Nat
    BY <1>1, <1>2, <2>3
  <2>. HIDE DEF c, m, B, n
  <2>5. c * m <= (B - 1) * m
    <3>. DEFINE e == B - 1 - c
                f == B - 1
    <3>1. e \in Nat /\ f = c + e /\ c \in Int
      BY <1>1, <2>4
    <3>. HIDE DEF e, f
    <3>2. f * m = c * m + e * m /\ e * m \in Nat /\ c * m \in Int
      BY <1>1, <3>1
    <3>3. c * m <= f * m
      BY <3>2
    <3>. QED  BY <3>3 DEF f
  <2>6. c * m \in Int /\ (B - 1) * m \in Int
    BY <1>1, <2>4
  <2>7. c * m < n
    BY <1>1, <2>3, <2>5, <2>6
  <2>. QED  BY <2>7 DEF c, m, n, Shortest
<1>. QED  BY <1>1, <1>3, <1>4

\* The numbers below the count with remainder d.
WithRemainder(m, d) == {i \in 0 .. Count - 1 : i % m = d}

\* balanced counts them.
LEMMA BalancedFacts ==
    ASSUME NEW m \in Nat \ {0}
    PROVE  /\ balanced(m) \in [0 .. m - 1 -> Nat]
           /\ \A d \in 0 .. m - 1 : /\ IsFiniteSet(WithRemainder(m, d))
                                    /\ balanced(m)[d] = Cardinality(WithRemainder(m, d))
<1>1. IsFiniteSet(0 .. Count - 1)
  BY CountIsNat, FS_Interval
<1>2. \A d : WithRemainder(m, d) \subseteq 0 .. Count - 1
  BY DEF WithRemainder
<1>3. \A d : IsFiniteSet(WithRemainder(m, d)) /\ Cardinality(WithRemainder(m, d)) \in Nat
  BY <1>1, <1>2, FS_Subset, FS_CardinalityType
<1>4. balanced(m) = [d \in 0 .. m - 1 |-> Cardinality(WithRemainder(m, d))]
  BY Zenon DEF balanced, WithRemainder
<1>. QED  BY <1>3, <1>4

\* As many have the one remainder as the other, but for one.
LEMMA BalancedIsEven ==
    ASSUME NEW m \in Nat \ {0}, NEW d \in 0 .. m - 1, NEW e \in 0 .. m - 1
    PROVE  balanced(m)[d] <= balanced(m)[e] + 1
<1> DEFINE A == WithRemainder(m, d)
           B == WithRemainder(m, e)
<1>1. /\ IsFiniteSet(A) /\ Cardinality(A) \in Nat /\ balanced(m)[d] = Cardinality(A)
      /\ IsFiniteSet(B) /\ Cardinality(B) \in Nat /\ balanced(m)[e] = Cardinality(B)
  BY BalancedFacts, FS_CardinalityType
<1>2. Count \in Nat /\ d \in Nat /\ e \in Nat /\ d < m /\ e < m
  BY CountIsNat
<1>3. \A i \in A : \E q \in Nat : i = m * q + d /\ i \in Nat /\ i < Count /\ m * q \in Nat
  <2>1. ASSUME NEW i \in A PROVE \E q \in Nat : i = m * q + d /\ i \in Nat /\ i < Count /\ m * q \in Nat
    <3>1. i \in Nat /\ i < Count /\ i % m = d
      BY <1>2, <2>1 DEF WithRemainder
    <3>2. i \div m \in Nat /\ i = m * (i \div m) + (i % m)
      BY <3>1, Division
    <3>. DEFINE q == i \div m
    <3>3. q \in Nat /\ i = m * q + d
      BY <3>1, <3>2
    <3>. HIDE DEF q
    <3>4. m * q \in Nat
      BY <3>3
    <3>. QED  BY <3>1, <3>3, <3>4
  <2>. QED  BY <2>1
<1>4. \A q \in Nat : m * q + e < Count => m * q + e \in B
  <2>1. ASSUME NEW q \in Nat, m * q + e < Count PROVE m * q + e \in B
    <3>. DEFINE x == m * q + e
    <3>1. x \in Nat /\ x = m * q + e /\ x \in 0 .. Count - 1
      BY <1>2, <2>1
    <3>. HIDE DEF x
    <3>2. x % m = e
      BY <3>1, RemainderIsUnique
    <3>3. x \in B
      BY <3>1, <3>2 DEF WithRemainder
    <3>. QED  BY <3>3 DEF x
  <2>. QED  BY <2>1
<1> HIDE DEF A, B
<1>5. CASE e <= d
  <2>. DEFINE f == [i \in A |-> i - d + e]
  <2>1. \A i \in A : i - d + e \in B
    <3>1. ASSUME NEW i \in A PROVE i - d + e \in B
      <4>1. PICK q \in Nat : i = m * q + d /\ i \in Nat /\ i < Count /\ m * q \in Nat
        BY <1>3
      <4>2. i - d + e = m * q + e /\ m * q + e < Count
        BY <1>2, <1>5, <4>1
      <4>. QED  BY <1>4, <4>2
    <3>. QED  BY <3>1
  <2>2. \A i, j \in A : i - d + e = j - d + e => i = j
    BY <1>2, <1>3
  <2>3. f \in Injection(A, B)
    BY <2>1, <2>2 DEF Injection, IsInjective
  <2>. HIDE DEF f
  <2>4. Cardinality(A) <= Cardinality(B)
    BY <1>1, <2>3, FS_Injection
  <2>. QED  BY <1>1, <2>4
<1>6. CASE ~(e <= d)
  <2>. DEFINE C == A \ {d}
              f == [i \in C |-> i - m - d + e]
  <2>0. IsFiniteSet(C) /\ Cardinality(C) \in Nat /\ Cardinality(A) <= Cardinality(C) + 1
    <3>1. IsFiniteSet(C) /\ Cardinality(C) = IF d \in A THEN Cardinality(A) - 1 ELSE Cardinality(A)
      BY <1>1, FS_RemoveElement
    <3>2. Cardinality(C) \in Nat
      BY <3>1, FS_CardinalityType
    <3>. HIDE DEF C
    <3>. QED  BY <1>1, <3>1, <3>2
  <2>1. \A i \in C : i - m - d + e \in B
    <3>1. ASSUME NEW i \in C PROVE i - m - d + e \in B
      <4>1. PICK q \in Nat : i = m * q + d /\ i \in Nat /\ i < Count /\ m * q \in Nat
        BY <1>3
      <4>2. q # 0
        <5>1. ASSUME q = 0 PROVE i = d
          <6>1. m * q = 0
            BY <5>1
          <6>. QED  BY <1>2, <4>1, <6>1
        <5>. QED  BY <5>1
      <4>. DEFINE p == q - 1
      <4>3. p \in Nat /\ m * p \in Nat /\ m * q = m * p + m
        <5>1. p \in Nat /\ q = p + 1
          BY <4>2
        <5>. HIDE DEF p
        <5>. QED  BY <5>1
      <4>. HIDE DEF p
      <4>4. i - m - d + e = m * p + e /\ m * p + e < Count
        <5>. DEFINE mp == m * p
                    mq == m * q
        <5>1. mp \in Nat /\ mq = mp + m /\ i = mq + d /\ i < Count
          BY <4>1, <4>3
        <5>. HIDE DEF mp, mq
        <5>2. i - m - d + e = mp + e /\ mp + e < Count
          BY <1>2, <5>1
        <5>. QED  BY <5>2 DEF mp
      <4>. QED  BY <1>4, <4>3, <4>4
    <3>. QED  BY <3>1
  <2>2. \A i, j \in C : i - m - d + e = j - m - d + e => i = j
    <3>1. \A i \in C : i \in Nat
      BY <1>3
    <3>. HIDE DEF C
    <3>. QED  BY <1>2, <3>1
  <2>3. f \in Injection(C, B)
    BY <2>1, <2>2 DEF Injection, IsInjective
  <2>. HIDE DEF f, C
  <2>4. Cardinality(C) <= Cardinality(B)
    BY <1>1, <2>3, FS_Injection
  <2>. QED  BY <1>1, <2>0, <2>4
<1>. QED  BY <1>5, <1>6

(***************************************************************************)
(* regime_uniform: what is left of the shuffled lists and what the         *)
(* requests have of them make up the whole lists.                          *)
(***************************************************************************)
Uses(key, n, d) == Cardinality({k \in 1 .. n : key[k] = d})

\* bag is what is left of balanced(m) after n draws, of key[1], key[2], ...
IsLeft(bag, m, key, n) ==
    /\ bag \in [0 .. m - 1 -> Nat]
    /\ key \in [1 .. n -> 0 .. m - 1]
    /\ \A d \in 0 .. m - 1 : bag[d] + Uses(key, n, d) = balanced(m)[d]

\* longer begins with key.
Continues(longer, key, n) == \A k \in 1 .. n : longer[k] = key[k]

\* A draw more is a use more of what is drawn.
LEMMA UsesStep ==
    ASSUME NEW n \in Nat, NEW key, NEW longer, Continues(longer, key, n), NEW d
    PROVE  /\ Uses(key, n, d) \in Nat
           /\ Uses(longer, n + 1, d) = Uses(key, n, d) + IF longer[n + 1] = d THEN 1 ELSE 0
<1> DEFINE A == {k \in 1 .. n : key[k] = d}
           B == {k \in 1 .. n + 1 : longer[k] = d}
<1>1. Uses(key, n, d) = Cardinality(A) /\ Uses(longer, n + 1, d) = Cardinality(B)
  BY DEF Uses
<1>2. IsFiniteSet(A) /\ Cardinality(A) \in Nat
  <2>1. IsFiniteSet(1 .. n) /\ A \subseteq 1 .. n
    BY FS_Interval
  <2>. HIDE DEF A
  <2>2. IsFiniteSet(A)
    BY <2>1, FS_Subset
  <2>. QED  BY <2>2, FS_CardinalityType
<1>3. \A k : k \in 1 .. n + 1 <=> k = n + 1 \/ k \in 1 .. n
  OBVIOUS
<1>4. \A k : k \in B <=> k \in A \/ (k = n + 1 /\ longer[n + 1] = d)
  BY <1>3 DEF Continues
<1>5. n + 1 \notin A
  OBVIOUS
<1> HIDE DEF A, B
<1>6. CASE longer[n + 1] = d
  <2>1. B = A \union {n + 1}
    BY <1>4, <1>6
  <2>2. Cardinality(B) = Cardinality(A) + 1
    BY <1>2, <1>5, <2>1, FS_AddElement
  <2>. QED  BY <1>1, <1>2, <1>6, <2>2
<1>7. CASE longer[n + 1] # d
  <2>1. B = A
    BY <1>4, <1>7
  <2>. QED  BY <1>1, <1>2, <1>7, <2>1
<1>. QED  BY <1>6, <1>7

\* What is drawn goes from what is left to the uses.
LEMMA TakeOne ==
    ASSUME NEW m \in Nat \ {0}, NEW n \in Nat, NEW bag, NEW key, IsLeft(bag, m, key, n),
           NEW x \in available(bag), NEW longer \in [1 .. n + 1 -> 0 .. m - 1],
           Continues(longer, key, n), longer[n + 1] = x
    PROVE  IsLeft(take(bag, x), m, longer, n + 1)
<1>1. bag \in [0 .. m - 1 -> Nat] /\ \A d \in 0 .. m - 1 : bag[d] + Uses(key, n, d) = balanced(m)[d]
  BY DEF IsLeft
<1>2. x \in 0 .. m - 1 /\ bag[x] \in Nat /\ bag[x] > 0
  BY <1>1 DEF available
<1> DEFINE less == bag[x] - 1
<1>3. less \in Nat /\ bag[x] = less + 1
  BY <1>2
<1> HIDE DEF less
<1>4. take(bag, x) = [bag EXCEPT ![x] = less]
  BY DEF take, less
<1>5. take(bag, x) \in [0 .. m - 1 -> Nat]
  BY <1>1, <1>3, <1>4
<1>6. ASSUME NEW d \in 0 .. m - 1
      PROVE  take(bag, x)[d] + Uses(longer, n + 1, d) = balanced(m)[d]
  <2>1. /\ Uses(key, n, d) \in Nat
        /\ Uses(longer, n + 1, d) = Uses(key, n, d) + IF longer[n + 1] = d THEN 1 ELSE 0
    BY UsesStep
  <2>2. bag[d] \in Nat /\ bag[d] + Uses(key, n, d) = balanced(m)[d]
    BY <1>1
  <2>. DEFINE u == Uses(key, n, d)
              v == Uses(longer, n + 1, d)
  <2>. HIDE DEF u, v
  <2>3. CASE d = x
    <3>1. v = u + 1 /\ take(bag, x)[d] = less /\ bag[d] = less + 1 /\ u \in Nat
      BY <1>1, <1>2, <1>3, <1>4, <2>1, <2>3 DEF u, v
    <3>2. less + (u + 1) = bag[d] + u
      BY <1>3, <3>1
    <3>. QED  BY <2>2, <3>1, <3>2 DEF u, v
  <2>4. CASE d # x
    <3>1. v = u /\ take(bag, x)[d] = bag[d]
      BY <1>1, <1>4, <2>1, <2>4 DEF u, v
    <3>. QED  BY <2>2, <3>1 DEF u, v
  <2>. QED  BY <2>3, <2>4
<1>. QED  BY <1>5, <1>6 DEF IsLeft

\* At first the whole list is left.
LEMMA NoneTaken ==
    ASSUME NEW m \in Nat \ {0}, NEW key, key \in [1 .. 0 -> 0 .. m - 1]
    PROVE  IsLeft(balanced(m), m, key, 0)
<1>1. \A d : Uses(key, 0, d) = 0
  <2>1. \A d : {k \in 1 .. 0 : key[k] = d} = {}
    OBVIOUS
  <2>. QED  BY <2>1, FS_EmptySet DEF Uses
<1>2. balanced(m) \in [0 .. m - 1 -> Nat]
  BY BalancedFacts
<1>3. \A d \in 0 .. m - 1 : balanced(m)[d] \in Nat /\ balanced(m)[d] + 0 = balanced(m)[d]
  BY <1>2
<1>. QED  BY <1>1, <1>2, <1>3 DEF IsLeft

\* The keys have shares, the numbers below the count as many.
LEMMA AllTaken ==
    ASSUME NEW m \in Nat \ {0}, NEW bag, NEW key, IsLeft(bag, m, key, Count)
    PROVE  \A d \in 0 .. m - 1 : Uses(key, Count, d) = balanced(m)[d]
<1> DEFINE D == 0 .. m - 1
           R == 1 .. Count
           Q == 0 .. Count - 1
           w == [d \in D |-> Uses(key, Count, d)]
           v == balanced(m)
           e == [i \in Q |-> i % m]
<1>1. Count \in Nat
  BY CountIsNat
<1>2. IsFiniteSet(D)
  BY FS_Interval
<1>3. IsFiniteSet(R) /\ Cardinality(R) = Count
  <2>1. Cardinality(R) = IF 1 > Count THEN 0 ELSE Count - 1 + 1
    BY <1>1, FS_Interval
  <2>. QED  BY <1>1, <2>1, FS_Interval
<1>4. IsFiniteSet(Q) /\ Cardinality(Q) = Count
  <2>1. Cardinality(Q) = IF 0 > Count - 1 THEN 0 ELSE (Count - 1) - 0 + 1
    BY <1>1, FS_Interval
  <2>. QED  BY <1>1, <2>1, FS_Interval
<1>5. \A d : Uses(key, Count, d) \in Nat
  <2>1. Continues(key, key, Count)
    BY DEF Continues
  <2>. QED  BY <1>1, <2>1, UsesStep
<1>6. w \in [D -> Nat] /\ \A d \in D : w[d] = Uses(key, Count, d)
  BY <1>5
<1>7. v \in [D -> Nat] /\ \A d \in D : v[d] = Cardinality(WithRemainder(m, d))
  BY BalancedFacts
<1>8. key \in [R -> D]
  BY DEF IsLeft
<1>9. e \in [Q -> D]
  <2>1. \A i \in Q : i \in Nat /\ i % m \in D
    BY <1>1, Division
  <2>. QED  BY <2>1
<1>10. HasParts(w, D, R, key)
  BY <1>6 DEF HasParts, Uses
<1>11. HasParts(v, D, Q, e)
  <2>1. \A d : {i \in Q : e[i] = d} = WithRemainder(m, d)
    BY DEF WithRemainder
  <2>. HIDE DEF e, v, Q, D
  <2>. QED  BY <1>7, <2>1 DEF HasParts
<1>12. NoLarger(w, v, D)
  <2>1. ASSUME NEW d \in D PROVE w[d] <= v[d]
    <3>1. bag[d] \in Nat /\ bag[d] + Uses(key, Count, d) = v[d]
      BY <2>1 DEF IsLeft
    <3>2. w[d] = Uses(key, Count, d) /\ w[d] \in Nat /\ v[d] \in Nat
      BY <1>6, <1>7, <2>1
    <3>. HIDE DEF w, v
    <3>. QED  BY <3>1, <3>2
  <2>. HIDE DEF w, v, D
  <2>. QED  BY <2>1 DEF NoLarger
<1> HIDE DEF w, v, e, D, R, Q
<1>13. w = v
  BY <1>2, <1>3, <1>4, <1>6, <1>7, <1>8, <1>9, <1>10, <1>11, <1>12, PartsAgree
<1>. QED  BY <1>6, <1>13 DEF v, D

\* So the uses are as even as the remainders.
LEMMA UsesAreEven ==
    ASSUME NEW m \in Nat \ {0}, NEW bag, NEW key, IsLeft(bag, m, key, Count),
           NEW d \in 0 .. m - 1, NEW e \in 0 .. m - 1
    PROVE  Uses(key, Count, d) <= Uses(key, Count, e) + 1
BY AllTaken, BalancedIsEven

\* The positions of the tasks in REGIME_TASKS, less one.
TaskNumber == [qa |-> 0, json |-> 1, summary |-> 2, code |-> 3]

\* What the requests have of the two lists.
task_keys(s) == [k \in DOMAIN s |-> TaskNumber[s[k].task]]
doc_keys(s) == [k \in DOMAIN s |-> s[k].prefix]

\* Each of the two lists is in part in the requests and in part left.
UniformInv ==
    /\ \A k \in DOMAIN stream : stream[k].task \in Tasks
    /\ IsLeft(drawn.tasks, 4, task_keys(stream), Len(stream))
    /\ IsLeft(drawn.docs, Docs, doc_keys(stream), Len(stream))

\* TaskNumber is the inverse of REGIME_TASKS.
LEMMA TaskNumbers ==
    /\ \A task \in Tasks : TaskNumber[task] \in 0 .. 3
    /\ \A t \in 0 .. 3 : REGIME_TASKS[t + 1] \in Tasks /\ TaskNumber[REGIME_TASKS[t + 1]] = t
    /\ \A task, other \in Tasks : TaskNumber[task] = TaskNumber[other] => task = other
<1>1. /\ TaskNumber["qa"] = 0 /\ TaskNumber["json"] = 1
      /\ TaskNumber["summary"] = 2 /\ TaskNumber["code"] = 3
  BY DEF TaskNumber
<1> DEFINE f(t) == REGIME_TASKS[t + 1]
<1>2. f(0) = "qa" /\ f(1) = "json" /\ f(2) = "summary" /\ f(3) = "code"
  BY DEF REGIME_TASKS
<1>3. \A t \in 0 .. 3 : t = 0 \/ t = 1 \/ t = 2 \/ t = 3
  OBVIOUS
<1>4. \A t \in 0 .. 3 : f(t) \in Tasks
  BY RegimeTasks
<1> HIDE DEF f
<1>5. \A task \in Tasks : TaskNumber[task] \in 0 .. 3
  BY <1>1 DEF Tasks
<1>6. \A t \in 0 .. 3 : TaskNumber[f(t)] = t
  BY <1>1, <1>2, <1>3
<1>7. \A task, other \in Tasks : TaskNumber[task] = TaskNumber[other] => task = other
  BY <1>1 DEF Tasks
<1>. QED  BY <1>4, <1>5, <1>6, <1>7 DEF f

\* One more of either list, in the request and out of what is left.
LEMMA UniformStep ==
    ASSUME shape = "regime_uniform", NEW S, stream \in Seq(S), UniformInv, Generate PROVE UniformInv'
<1> DEFINE n == Len(stream)
<1>1. PICK next \in next_requests(n) :
          /\ n \in Nat /\ \E T : stream' \in Seq(T)
          /\ Len(stream') = n + 1 /\ stream'[n + 1] = next.request
          /\ \A i \in 1 .. n : stream'[i] = stream[i]
          /\ drawn' = next.left
  BY GenerateOne
<1>2. next \in regime_uniform(n)
  BY <1>1 DEF next_requests
<1>3. PICK t \in available(drawn.tasks), d \in available(drawn.docs), s \in 0 .. Sessions - 1 :
          /\ next.request = record(n, REGIME_TASKS[t + 1], d, s, shared_document(d), first_document)
          /\ next.left = [tasks |-> take(drawn.tasks, t), docs |-> take(drawn.docs, d)]
  BY <1>2 DEF regime_uniform
<1>4. IsLeft(drawn.tasks, 4, task_keys(stream), n) /\ IsLeft(drawn.docs, Docs, doc_keys(stream), n)
      /\ \A k \in DOMAIN stream : stream[k].task \in Tasks
  BY DEF UniformInv
<1>5. t \in 0 .. 3 /\ d \in 0 .. Docs - 1
  <2>1. DOMAIN drawn.tasks = 0 .. 3 /\ DOMAIN drawn.docs = 0 .. Docs - 1
    BY <1>4 DEF IsLeft
  <2>. QED  BY <2>1 DEF available
<1>6. next.request.task = REGIME_TASKS[t + 1] /\ next.request.prefix = d
  <2>. DEFINE task == REGIME_TASKS[t + 1]
  <2>. HIDE DEF task
  <2>1. next.request = record(n, task, d, s, shared_document(d), first_document)
    BY <1>3 DEF task
  <2>2. next.request.task = task /\ next.request.prefix = d
    BY <2>1 DEF record
  <2>. QED  BY <2>2 DEF task
<1>7. drawn'.tasks = take(drawn.tasks, t) /\ drawn'.docs = take(drawn.docs, d)
  <2>. DEFINE a == take(drawn.tasks, t)
              b == take(drawn.docs, d)
  <2>. HIDE DEF a, b
  <2>1. drawn' = [tasks |-> a, docs |-> b]
    BY <1>1, <1>3 DEF a, b
  <2>2. drawn'.tasks = a /\ drawn'.docs = b
    BY <2>1
  <2>. QED  BY <2>2 DEF a, b
<1>8. DOMAIN stream = 1 .. n /\ DOMAIN stream' = 1 .. n + 1
  <2>1. PICK T : stream' \in Seq(T)
    BY <1>1
  <2>2. DOMAIN stream' = 1 .. Len(stream')
    BY <2>1, LenProperties
  <2>. QED  BY <1>1, <2>2, LenProperties
<1> HIDE DEF n
<1>9. \A k \in 1 .. n + 1 : k \in 1 .. n \/ k = n + 1
  BY <1>1
<1>10. n + 1 \in 1 .. n + 1 /\ \A k \in 1 .. n : k \in 1 .. n + 1
  BY <1>1
<1>11. REGIME_TASKS[t + 1] \in Tasks /\ TaskNumber[REGIME_TASKS[t + 1]] = t
  BY <1>5, TaskNumbers
<1>12. \A k \in 1 .. n + 1 : stream'[k].task \in Tasks
  BY <1>1, <1>4, <1>6, <1>8, <1>9, <1>11
<1>13. IsLeft(drawn'.tasks, 4, task_keys(stream'), n + 1)
  <2>. DEFINE m == 4
              bag == drawn.tasks
              key == task_keys(stream)
              longer == task_keys(stream')
  <2>1. m \in Nat \ {0} /\ IsLeft(bag, m, key, n) /\ t \in available(bag)
    BY <1>4
  <2>2. longer \in [1 .. n + 1 -> 0 .. m - 1]
    BY <1>8, <1>12, TaskNumbers DEF task_keys
  <2>3. Continues(longer, key, n)
    BY <1>1, <1>8, <1>10 DEF Continues, task_keys
  <2>4. longer[n + 1] = t
    BY <1>1, <1>6, <1>8, <1>10, <1>11 DEF task_keys
  <2>. HIDE DEF m, bag, key, longer
  <2>5. IsLeft(take(bag, t), m, longer, n + 1)
    BY <1>1, <2>1, <2>2, <2>3, <2>4, TakeOne
  <2>. QED  BY <1>7, <2>5 DEF m, bag, longer
<1>14. IsLeft(drawn'.docs, Docs, doc_keys(stream'), n + 1)
  <2>. DEFINE m == Docs
              bag == drawn.docs
              key == doc_keys(stream)
              longer == doc_keys(stream')
  <2>1. m \in Nat \ {0} /\ IsLeft(bag, m, key, n) /\ d \in available(bag)
    BY <1>4, CountIsNat
  <2>2. longer \in [1 .. n + 1 -> 0 .. m - 1]
    <3>1. \A k \in 1 .. n : stream[k].prefix \in 0 .. Docs - 1
      <4>1. doc_keys(stream) \in [1 .. n -> 0 .. Docs - 1]
        BY <1>4 DEF IsLeft
      <4>. QED  BY <1>8, <4>1 DEF doc_keys
    <3>2. \A k \in 1 .. n + 1 : stream'[k].prefix \in 0 .. Docs - 1
      BY <1>1, <1>5, <1>6, <1>9, <3>1
    <3>. QED  BY <1>8, <3>2 DEF doc_keys
  <2>3. Continues(longer, key, n)
    BY <1>1, <1>8, <1>10 DEF Continues, doc_keys
  <2>4. longer[n + 1] = d
    BY <1>1, <1>6, <1>8, <1>10 DEF doc_keys
  <2>. HIDE DEF m, bag, key, longer
  <2>5. IsLeft(take(bag, d), m, longer, n + 1)
    BY <1>1, <2>1, <2>2, <2>3, <2>4, TakeOne
  <2>. QED  BY <1>7, <2>5 DEF m, bag, longer
<1>15. Len(stream') = n + 1
  BY <1>1
<1>. QED  BY <1>8, <1>12, <1>13, <1>14, <1>15 DEF UniformInv, IsLeft, task_keys, doc_keys, Uses, balanced

\* With no request to come, the uses are those of the whole lists.
LEMMA UniformStructure ==
    ASSUME UniformInv, NEW S, stream \in Seq(S), Len(stream) = Count
    PROVE  /\ \A t, u \in Tasks : Cardinality({k \in DOMAIN stream : stream[k].task = t})
                                    <= Cardinality({k \in DOMAIN stream : stream[k].task = u}) + 1
           /\ \A d, e \in 0 .. Docs - 1 : Cardinality({k \in DOMAIN stream : stream[k].prefix = d})
                                    <= Cardinality({k \in DOMAIN stream : stream[k].prefix = e}) + 1
<1>1. DOMAIN stream = 1 .. Count
  BY LenProperties
<1>2. IsLeft(drawn.tasks, 4, task_keys(stream), Count) /\ IsLeft(drawn.docs, Docs, doc_keys(stream), Count)
      /\ \A k \in 1 .. Count : stream[k].task \in Tasks
  BY <1>1 DEF UniformInv
<1>3. \A t \in Tasks : Cardinality({k \in DOMAIN stream : stream[k].task = t}) =
                       Uses(task_keys(stream), Count, TaskNumber[t])
  <2>1. ASSUME NEW t \in Tasks
        PROVE  {k \in DOMAIN stream : stream[k].task = t} =
               {k \in 1 .. Count : task_keys(stream)[k] = TaskNumber[t]}
    <3>1. \A k \in 1 .. Count : task_keys(stream)[k] = TaskNumber[stream[k].task]
      BY <1>1 DEF task_keys
    <3>2. \A k \in 1 .. Count : stream[k].task = t <=> task_keys(stream)[k] = TaskNumber[t]
      BY <1>2, <3>1, TaskNumbers
    <3>. QED  BY <1>1, <3>2
  <2>. QED  BY <2>1 DEF Uses
<1>4. \A d : Cardinality({k \in DOMAIN stream : stream[k].prefix = d}) =
             Uses(doc_keys(stream), Count, d)
  <2>1. \A d : {k \in DOMAIN stream : stream[k].prefix = d} =
               {k \in 1 .. Count : doc_keys(stream)[k] = d}
    BY <1>1 DEF doc_keys
  <2>. QED  BY <2>1 DEF Uses
<1>5. \A t, u \in Tasks : Uses(task_keys(stream), Count, TaskNumber[t])
                            <= Uses(task_keys(stream), Count, TaskNumber[u]) + 1
  <2>. DEFINE m == 4
              bag == drawn.tasks
              key == task_keys(stream)
  <2>1. m \in Nat \ {0} /\ IsLeft(bag, m, key, Count) /\ m - 1 = 3
    BY <1>2
  <2>. HIDE DEF m, bag, key
  <2>2. \A d, e \in 0 .. m - 1 : Uses(key, Count, d) <= Uses(key, Count, e) + 1
    BY <2>1, UsesAreEven
  <2>3. \A t \in Tasks : TaskNumber[t] \in 0 .. m - 1
    BY <2>1, TaskNumbers
  <2>. QED  BY <2>2, <2>3 DEF key
<1>6. \A d, e \in 0 .. Docs - 1 : Uses(doc_keys(stream), Count, d)
                                    <= Uses(doc_keys(stream), Count, e) + 1
  <2>. DEFINE m == Docs
              bag == drawn.docs
              key == doc_keys(stream)
  <2>1. m \in Nat \ {0} /\ IsLeft(bag, m, key, Count)
    BY <1>2, CountIsNat
  <2>. HIDE DEF m, bag, key
  <2>2. \A d, e \in 0 .. m - 1 : Uses(key, Count, d) <= Uses(key, Count, e) + 1
    BY <2>1, UsesAreEven
  <2>. QED  BY <2>2 DEF key, m
<1>. QED  BY <1>3, <1>4, <1>5, <1>6

(***************************************************************************)
(* regime_zipfian, regime_phase_shift: what is left of the last block and  *)
(* what the requests have of it and of those before make up whole blocks.  *)
(***************************************************************************)
Share(bag, t) == IF t \in DOMAIN bag THEN bag[t] ELSE 0
Size(bag) == Share(bag, "qa") + Share(bag, "json") + Share(bag, "summary") + Share(bag, "code")

\* bag is what is left of the b-th block after n draws, of key[1], key[2], ...
BlocksTaken(bag, block, key, n, b) ==
    /\ \A t \in Tasks : Share(bag, t) \in 0 .. Share(block, t)
    /\ \A t \in Tasks : Uses(key, n, t) + Share(bag, t) = b * Share(block, t)
    /\ n + Size(bag) = b * Size(block)

InBlocks(bag, block, key, n) ==
    /\ DOMAIN bag = DOMAIN block
    /\ \E b \in Nat : BlocksTaken(bag, block, key, n, b)

Block(block) ==
    /\ DOMAIN block \subseteq Tasks
    /\ \A t \in Tasks : Share(block, t) \in Nat
    /\ Size(block) # 0

\* A new block is whole.
LEMMA NewBlock ==
    ASSUME NEW block, Block(block), NEW key
    PROVE  InBlocks(block, block, key, 0)
<1>1. \A t : Uses(key, 0, t) = 0
  <2>1. \A t : {k \in 1 .. 0 : key[k] = t} = {}
    OBVIOUS
  <2>. QED  BY <2>1, FS_EmptySet DEF Uses
<1>2. /\ \A t \in Tasks : Share(block, t) \in Nat
      /\ Size(block) \in Nat
  BY DEF Block, Size, Tasks
<1>3. BlocksTaken(block, block, key, 0, 1)
  BY <1>1, <1>2 DEF BlocksTaken
<1>. QED  BY <1>3 DEF InBlocks

\* When the block is used up, the next one is whole as well.
LEMMA Refill ==
    ASSUME NEW n \in Nat, NEW bag, NEW block, Block(block), NEW key, InBlocks(bag, block, key, n)
    PROVE  InBlocks(refilled(bag, block), block, key, n)
<1>1. CASE available(bag) # {}
  BY <1>1 DEF refilled
<1>2. CASE available(bag) = {}
  <2>1. PICK b \in Nat : BlocksTaken(bag, block, key, n, b)
    BY DEF InBlocks
  <2>2. \A t \in Tasks : Share(bag, t) = 0
    <3>1. \A t \in Tasks : Share(bag, t) \in Nat
      BY <2>1 DEF BlocksTaken, Block
    <3>2. \A t \in DOMAIN bag : ~(bag[t] > 0)
      BY <1>2 DEF available
    <3>. QED  BY <3>1, <3>2 DEF Share
  <2>3. /\ \A t \in Tasks : Share(block, t) \in Nat
        /\ Size(block) \in Nat /\ Size(bag) = 0
    BY <2>2 DEF Block, Size, Tasks
  <2>4. \A t \in Tasks : Uses(key, n, t) + Share(block, t) = (b + 1) * Share(block, t)
    <3>. TAKE t \in Tasks
    <3>. DEFINE w == Share(block, t)
                u == Uses(key, n, t)
    <3>1. w \in Nat /\ u + 0 = b * w
      BY <2>1, <2>2, <2>3 DEF BlocksTaken
    <3>2. u \in Nat
      BY UsesStep DEF Continues
    <3>. HIDE DEF w, u
    <3>3. u + w = (b + 1) * w
      BY <3>1, <3>2
    <3>. QED  BY <3>3 DEF w, u
  <2>5. n + Size(block) = (b + 1) * Size(block)
    <3>. DEFINE z == Size(block)
    <3>1. z \in Nat /\ n + 0 = b * z
      BY <2>1, <2>3 DEF BlocksTaken
    <3>. HIDE DEF z
    <3>2. n + z = (b + 1) * z
      BY <3>1
    <3>. QED  BY <3>2 DEF z
  <2>6. BlocksTaken(block, block, key, n, b + 1)
    BY <2>3, <2>4, <2>5 DEF BlocksTaken
  <2>7. b + 1 \in Nat
    OBVIOUS
  <2>. QED  BY <1>2, <2>6, <2>7 DEF InBlocks, refilled
<1>. QED  BY <1>1, <1>2

\* A draw goes from what is left to the uses.
LEMMA TakeFromBlock ==
    ASSUME NEW n \in Nat, NEW bag, NEW block, Block(block), NEW key, InBlocks(bag, block, key, n),
           NEW x \in available(bag), NEW longer, Continues(longer, key, n), longer[n + 1] = x
    PROVE  InBlocks(take(bag, x), block, longer, n + 1)
<1>1. PICK b \in Nat : BlocksTaken(bag, block, key, n, b)
  BY DEF InBlocks
<1>2. x \in DOMAIN bag /\ x \in Tasks /\ DOMAIN bag = DOMAIN block
  BY DEF available, InBlocks, Block
<1> DEFINE less == take(bag, x)
<1>3. /\ DOMAIN less = DOMAIN bag /\ less[x] = bag[x] - 1
      /\ \A t \in DOMAIN bag : t # x => less[t] = bag[t]
  BY <1>2 DEF take
<1>4. /\ \A t \in Tasks : Share(bag, t) \in Nat /\ Share(block, t) \in Nat
      /\ Share(bag, x) > 0
  BY <1>1, <1>2 DEF BlocksTaken, Block, available, Share
<1> HIDE DEF less
<1>5. \A t \in Tasks : Share(less, t) = Share(bag, t) - IF t = x THEN 1 ELSE 0
  BY <1>2, <1>3, <1>4 DEF Share
<1>6. \A t \in Tasks : Share(less, t) \in 0 .. Share(block, t)
  BY <1>1, <1>4, <1>5 DEF BlocksTaken
<1>7. \A t \in Tasks : Uses(longer, n + 1, t) + Share(less, t) = b * Share(block, t)
  <2>. TAKE t \in Tasks
  <2>1. /\ Uses(key, n, t) \in Nat
        /\ Uses(longer, n + 1, t) = Uses(key, n, t) + IF longer[n + 1] = t THEN 1 ELSE 0
    BY UsesStep
  <2>2. Uses(key, n, t) + Share(bag, t) = b * Share(block, t)
    BY <1>1 DEF BlocksTaken
  <2>. DEFINE u == Uses(key, n, t)
              v == Uses(longer, n + 1, t)
              s == Share(bag, t)
              r == Share(less, t)
  <2>3. u \in Nat /\ s \in Nat /\ (t = x => v = u + 1 /\ r = s - 1) /\ (t # x => v = u /\ r = s)
    BY <1>4, <1>5, <2>1
  <2>. HIDE DEF u, v, s, r
  <2>4. v + r = u + s
    BY <2>3
  <2>. QED  BY <2>2, <2>4 DEF u, v, s, r
<1>8. n + 1 + Size(less) = b * Size(block)
  <2>1. n + Size(bag) = b * Size(block)
    BY <1>1 DEF BlocksTaken
  <2>2. n + 1 + Size(less) = n + Size(bag)
    BY <1>2, <1>4, <1>5 DEF Size, Tasks
  <2>. QED  BY <2>1, <2>2
<1>9. BlocksTaken(less, block, longer, n + 1, b)
  BY <1>6, <1>7, <1>8 DEF BlocksTaken
<1>. QED  BY <1>2, <1>3, <1>9 DEF InBlocks, less

\* So the uses are those of the whole blocks and of some of one more.
LEMMA BlockBounds ==
    ASSUME NEW n \in Nat, NEW bag, NEW block, Block(block), NEW key, InBlocks(bag, block, key, n),
           Size(block) \in {11, 22}, NEW t \in Tasks
    PROVE  LET whole == n \div Size(block)
           IN  /\ Share(block, t) * whole <= Uses(key, n, t)
               /\ Uses(key, n, t) <= Share(block, t) * (whole + 1)
<1>1. PICK b \in Nat : BlocksTaken(bag, block, key, n, b)
  BY DEF InBlocks
<1> DEFINE w == Share(block, t)
           u == Uses(key, n, t)
           l == Share(bag, t)
           z == Size(block)
           s == Size(bag)
<1>2. w \in Nat /\ l \in 0 .. w /\ u + l = b * w /\ n + s = b * z
  BY <1>1 DEF BlocksTaken, Block
<1>3. u \in Nat
  BY UsesStep DEF Continues
<1>4. s \in 0 .. z /\ (s = 0 => l = 0)
  <2>1. \A v \in Tasks : /\ Share(bag, v) \in Nat /\ Share(block, v) \in Nat
                         /\ Share(bag, v) <= Share(block, v)
    BY <1>1 DEF BlocksTaken, Block
  <2>2. {"qa", "json", "summary", "code"} = Tasks
    BY DEF Tasks
  <2>3. ASSUME NEW a1 \in Nat, NEW a2 \in Nat, NEW a3 \in Nat, NEW a4 \in Nat,
               NEW b1 \in Nat, NEW b2 \in Nat, NEW b3 \in Nat, NEW b4 \in Nat,
               a1 <= b1, a2 <= b2, a3 <= b3, a4 <= b4, NEW a \in {a1, a2, a3, a4}
        PROVE  /\ a1 + a2 + a3 + a4 \in 0 .. b1 + b2 + b3 + b4
               /\ a1 + a2 + a3 + a4 = 0 => a = 0
    BY <2>3
  <2>4. l \in {Share(bag, "qa"), Share(bag, "json"), Share(bag, "summary"), Share(bag, "code")}
    BY <2>2
  <2>. QED  BY <2>1, <2>2, <2>3, <2>4 DEF Size
<1> HIDE DEF w, u, l, z, s
<1> DEFINE q == n \div z
<1>5. q \in Nat /\ (q = b \/ q = b - 1) /\ (q = b => s = 0)
  <2>1. CASE z = 11
    BY <1>2, <1>4, <2>1
  <2>2. CASE z = 22
    BY <1>2, <1>4, <2>2
  <2>. QED  BY <2>1, <2>2 DEF z
<1> HIDE DEF q
<1>6. w * q <= u /\ u <= w * (q + 1)
  <2>1. CASE q = b
    <3>1. u = b * w
      BY <1>2, <1>3, <1>4, <1>5, <2>1
    <3>2. w * q = b * w /\ w * (q + 1) = b * w + w
      BY <1>2, <2>1
    <3>. QED  BY <1>2, <1>3, <3>1, <3>2
  <2>2. CASE q = b - 1
    <3>1. w * q = b * w - w /\ w * (q + 1) = b * w
      BY <1>2, <1>5, <2>2
    <3>. QED  BY <1>2, <1>3, <3>1
  <2>. QED  BY <1>5, <2>1, <2>2
<1>. QED  BY <1>6 DEF w, u, z, q

\* The tasks of the requests after the first lo.
tasks_after(s, lo) == [k \in 1 .. Len(s) - lo |-> s[lo + k].task]

First  == [qa |-> 6, json |-> 4, summary |-> 1]
Second == [code |-> 6, summary |-> 4, json |-> 1]

LEMMA TheBlocks ==
    /\ Block(zipfian_block) /\ Size(zipfian_block) = 22
    /\ Block(First) /\ Size(First) = 11
    /\ Block(Second) /\ Size(Second) = 11
<1>1. /\ DOMAIN zipfian_block = {"qa", "json", "summary", "code"}
      /\ Share(zipfian_block, "qa") = 12 /\ Share(zipfian_block, "json") = 6
      /\ Share(zipfian_block, "summary") = 3 /\ Share(zipfian_block, "code") = 1
  BY DEF Share, zipfian_block
<1>2. /\ DOMAIN First = {"qa", "json", "summary"}
      /\ Share(First, "qa") = 6 /\ Share(First, "json") = 4
      /\ Share(First, "summary") = 1 /\ Share(First, "code") = 0
  BY DEF Share, First
<1>3. /\ DOMAIN Second = {"code", "summary", "json"}
      /\ Share(Second, "qa") = 0 /\ Share(Second, "json") = 1
      /\ Share(Second, "summary") = 4 /\ Share(Second, "code") = 6
  BY DEF Share, Second
<1>4. /\ Size(zipfian_block) = 22 /\ Size(First) = 11 /\ Size(Second) = 11
  BY <1>1, <1>2, <1>3 DEF Size
<1>. QED  BY <1>1, <1>2, <1>3, <1>4 DEF Block, Tasks

\* What the blocks say of the tasks is what RegimeStructure asks.
LEMMA BlocksGiveStructure ==
    ASSUME NEW S, stream \in Seq(S), NEW lo \in Nat, NEW hi \in Nat, lo <= hi, hi <= Len(stream),
           NEW bag, NEW block, Block(block), Size(block) \in {11, 22},
           InBlocks(bag, block, tasks_after(stream, lo), hi - lo)
    PROVE  in_blocks(block, Size(block), lo, hi)
<1>1. hi - lo \in Nat /\ Len(stream) \in Nat
  BY LenProperties
<1>2. ASSUME NEW t \in Tasks
      PROVE  Cardinality({k \in 1 .. hi - lo : stream[lo + k].task = t}) =
                 Uses(tasks_after(stream, lo), hi - lo, t)
  <2>1. \A k \in 1 .. hi - lo : tasks_after(stream, lo)[k] = stream[lo + k].task
    BY <1>1 DEF tasks_after
  <2>2. {k \in 1 .. hi - lo : stream[lo + k].task = t} =
        {k \in 1 .. hi - lo : tasks_after(stream, lo)[k] = t}
    BY <2>1
  <2>. QED  BY <2>2 DEF Uses
<1> DEFINE n == hi - lo
           key == tasks_after(stream, lo)
<1> HIDE DEF n, key
<1>3. \A t \in Tasks : /\ Share(block, t) * (n \div Size(block)) <= Uses(key, n, t)
                       /\ Uses(key, n, t) <= Share(block, t) * ((n \div Size(block)) + 1)
  <2>1. n \in Nat /\ InBlocks(bag, block, key, n)
    BY <1>1 DEF n, key
  <2>. QED  BY <2>1, BlockBounds
<1>. QED  BY <1>2, <1>3 DEF in_blocks, Share, n, key

\* A request more is a draw more from the block.
LEMMA DrawFromBlock ==
    ASSUME NEW n \in Nat, NEW lo \in 0 .. n, NEW s, NEW longer, Len(s) = n, Len(longer) = n + 1,
           \A i \in 1 .. n : longer[i] = s[i],
           NEW bag, NEW block, Block(block), InBlocks(bag, block, tasks_after(s, lo), n - lo),
           NEW x \in available(bag), longer[n + 1].task = x
    PROVE  InBlocks(take(bag, x), block, tasks_after(longer, lo), (n + 1) - lo)
<1> DEFINE m == n - lo
           key == tasks_after(s, lo)
           more == tasks_after(longer, lo)
<1>1. m \in Nat /\ (n + 1) - lo = m + 1 /\ lo + (m + 1) = n + 1
  OBVIOUS
<1>2. Continues(more, key, m)
  <2>1. \A k \in 1 .. m : lo + k \in 1 .. n /\ k \in 1 .. Len(s) - lo /\ k \in 1 .. Len(longer) - lo
    OBVIOUS
  <2>. QED  BY <2>1 DEF Continues, tasks_after
<1>3. more[m + 1] = x
  <2>1. m + 1 \in 1 .. Len(longer) - lo
    BY <1>1
  <2>. QED  BY <1>1, <2>1 DEF tasks_after
<1>4. InBlocks(bag, block, key, m)
  OBVIOUS
<1> HIDE DEF m, key, more
<1>5. InBlocks(take(bag, x), block, more, m + 1)
  BY <1>1, <1>2, <1>3, <1>4, TakeFromBlock
<1>. QED  BY <1>1, <1>5 DEF more

\* What comes later takes nothing from the blocks before.
LEMMA BlocksStay ==
    ASSUME NEW n \in Nat, NEW key, NEW longer, Continues(longer, key, n),
           NEW bag, NEW block, InBlocks(bag, block, key, n)
    PROVE  InBlocks(bag, block, longer, n)
<1>1. \A t : Uses(longer, n, t) = Uses(key, n, t)
  <2>1. \A t : {k \in 1 .. n : longer[k] = t} = {k \in 1 .. n : key[k] = t}
    BY DEF Continues
  <2>. QED  BY <2>1 DEF Uses
<1>. QED  BY <1>1 DEF InBlocks, BlocksTaken

\* The zipfian regime draws from one block after the other.
ZipfInv == InBlocks(drawn.tasks, zipfian_block, tasks_after(stream, 0), Len(stream) - 0)

\* The phase-shift regime starts on blocks of their own at the midpoint.
PhaseTasksInv ==
    /\ Len(stream) < midpoint =>
          InBlocks(drawn.tasks, First, tasks_after(stream, 0), Len(stream) - 0)
    /\ Len(stream) >= midpoint => \E bag : InBlocks(bag, First, tasks_after(stream, 0), midpoint - 0)
    /\ Len(stream) > midpoint =>
          InBlocks(drawn.tasks, Second, tasks_after(stream, midpoint), Len(stream) - midpoint)

LEMMA ZipfStep ==
    ASSUME shape = "regime_zipfian", NEW S, stream \in Seq(S), ZipfInv, Generate PROVE ZipfInv'
<1> DEFINE n == Len(stream)
           bag == refilled(drawn.tasks, zipfian_block)
<1>1. PICK next \in next_requests(n) :
          /\ n \in Nat /\ Len(stream') = n + 1 /\ stream'[n + 1] = next.request
          /\ \A i \in 1 .. n : stream'[i] = stream[i]
          /\ drawn' = next.left
  BY GenerateOne
<1>2. PICK x \in available(bag) : \E doc, s, d, layout :
          next = [request |-> record(n, x, doc, s, d, layout), left |-> [tasks |-> take(bag, x)]]
  BY <1>1 DEF next_requests, regime_zipfian
<1>3. stream'[n + 1].task = x /\ drawn'.tasks = take(bag, x)
  BY <1>1, <1>2 DEF record
<1>4. InBlocks(bag, zipfian_block, tasks_after(stream, 0), n - 0)
  <2>1. n - 0 \in Nat
    BY <1>1
  <2>. QED  BY <2>1, Refill, TheBlocks DEF ZipfInv
<1> HIDE DEF n, bag
<1>5. InBlocks(take(bag, x), zipfian_block, tasks_after(stream', 0), (n + 1) - 0)
  <2>1. 0 \in 0 .. n /\ Len(stream) = n
    BY <1>1 DEF n
  <2>. QED  BY <1>1, <1>2, <1>3, <1>4, <2>1, DrawFromBlock, TheBlocks
<1>. QED  BY <1>1, <1>3, <1>5 DEF ZipfInv, zipfian_block

LEMMA PhaseTasksStep ==
    ASSUME shape = "regime_phase_shift", NEW S, stream \in Seq(S), PhaseTasksInv, Generate
    PROVE  PhaseTasksInv'
<1> DEFINE n == Len(stream)
           bag == IF n = midpoint THEN phase_block(n) ELSE refilled(drawn.tasks, phase_block(n))
<1>1. PICK next \in next_requests(n) :
          /\ n \in Nat /\ Len(stream') = n + 1 /\ stream'[n + 1] = next.request
          /\ \A i \in 1 .. n : stream'[i] = stream[i]
          /\ drawn' = next.left
  BY GenerateOne
<1>2. PICK x \in available(bag) : \E doc, s, d, layout :
          next = [request |-> record(n, x, doc, s, d, layout), left |-> [tasks |-> take(bag, x)]]
  BY <1>1 DEF next_requests, regime_phase_shift
<1>3. stream'[n + 1].task = x /\ drawn'.tasks = take(bag, x)
  BY <1>1, <1>2 DEF record
<1>4. midpoint \in Nat /\ Len(stream) = n
  BY CountIsNat DEF midpoint
<1>5. midpoint' = midpoint
  BY DEF midpoint
<1>6. Block(First) /\ Block(Second)
  BY TheBlocks
<1>7. /\ n < midpoint => bag = refilled(drawn.tasks, First)
      /\ n = midpoint => bag = Second
      /\ n > midpoint => bag = refilled(drawn.tasks, Second)
  BY <1>1, <1>4 DEF phase_block, First, Second
<1> HIDE DEF n, bag
<1>8. CASE n < midpoint
  <2>1. InBlocks(bag, First, tasks_after(stream, 0), n - 0)
    <3>1. InBlocks(drawn.tasks, First, tasks_after(stream, 0), n - 0) /\ n - 0 \in Nat
      BY <1>1, <1>4, <1>8 DEF PhaseTasksInv
    <3>. QED  BY <1>6, <1>7, <1>8, <3>1, Refill
  <2>2. 0 \in 0 .. n
    BY <1>1
  <2>3. InBlocks(take(bag, x), First, tasks_after(stream', 0), (n + 1) - 0)
    BY <1>1, <1>2, <1>3, <1>4, <1>6, <2>1, <2>2, DrawFromBlock
  <2>4. n + 1 <= midpoint /\ (n + 1 >= midpoint => n + 1 = midpoint)
    BY <1>1, <1>4, <1>8
  <2>. QED  BY <1>1, <1>3, <1>4, <1>5, <2>3, <2>4 DEF PhaseTasksInv, First
<1>9. CASE n >= midpoint
  <2>1. \E b : InBlocks(b, First, tasks_after(stream', 0), midpoint - 0)
    <3>1. PICK b : InBlocks(b, First, tasks_after(stream, 0), midpoint - 0)
      BY <1>4, <1>9 DEF PhaseTasksInv
    <3>2. midpoint - 0 \in Nat
      BY <1>4
    <3>3. Continues(tasks_after(stream', 0), tasks_after(stream, 0), midpoint - 0)
      <4>1. \A k \in 1 .. midpoint - 0 : /\ k \in 1 .. Len(stream) - 0 /\ k \in 1 .. Len(stream') - 0
                                         /\ stream'[0 + k] = stream[0 + k]
        BY <1>1, <1>4, <1>9
      <4>. QED  BY <4>1 DEF Continues, tasks_after
    <3>4. InBlocks(b, First, tasks_after(stream', 0), midpoint - 0)
      BY <3>1, <3>2, <3>3, BlocksStay
    <3>. QED  BY <3>4
  <2>2. midpoint \in 0 .. n
    BY <1>1, <1>4, <1>9
  <2>3. InBlocks(bag, Second, tasks_after(stream, midpoint), n - midpoint)
    <3>1. CASE n = midpoint
      <4>1. n - midpoint = 0 /\ bag = Second
        BY <1>1, <1>4, <1>7, <3>1
      <4>. QED  BY <1>6, <4>1, NewBlock
    <3>2. CASE n > midpoint
      <4>1. n - midpoint \in Nat
        BY <1>1, <1>4, <3>2
      <4>2. InBlocks(drawn.tasks, Second, tasks_after(stream, midpoint), n - midpoint)
        BY <1>4, <3>2 DEF PhaseTasksInv
      <4>. QED  BY <1>6, <1>7, <3>2, <4>1, <4>2, Refill
    <3>. QED  BY <1>1, <1>4, <1>9, <3>1, <3>2
  <2>4. InBlocks(take(bag, x), Second, tasks_after(stream', midpoint), (n + 1) - midpoint)
    BY <1>1, <1>2, <1>3, <1>4, <1>6, <2>2, <2>3, DrawFromBlock
  <2>5. ~(n + 1 < midpoint)
    BY <1>1, <1>4, <1>9
  <2>. QED  BY <1>1, <1>3, <1>5, <2>1, <2>4, <2>5 DEF PhaseTasksInv, First, Second
<1>. QED  BY <1>1, <1>4, <1>8, <1>9

\* The invariant of the regime that is generated.
RegimeInv ==
    /\ \E S : stream \in Seq(S)
    /\ shape = "regime_uniform" => UniformInv
    /\ shape = "regime_bursty_session" => BurstInv
    /\ shape = "regime_zipfian" => ZipfInv
    /\ shape = "regime_phase_shift" => PhaseInv /\ PhaseTasksInv
    /\ shape = "regime_adversarial_churn" => ChurnInv

\* It holds of the draws before the first request.
LEMMA RegimeInit == Init => RegimeInv
<1> SUFFICES ASSUME Init PROVE RegimeInv
  OBVIOUS
<1>1. stream = <<>> /\ stream \in Seq({}) /\ Len(stream) = 0 /\ DOMAIN stream = {} /\ 1 .. 0 = {}
      /\ drawn \in initial_draws(shape)
  BY DEF Init, WorkloadInit
<1>2. ASSUME shape = "regime_uniform" PROVE UniformInv
  <2>1. drawn = [tasks |-> balanced(4), docs |-> balanced(Docs)]
    BY <1>1, <1>2 DEF initial_draws
  <2>2. drawn.tasks = balanced(4) /\ drawn.docs = balanced(Docs)
    BY <2>1
  <2>3. IsLeft(balanced(4), 4, task_keys(stream), 0)
    <3>. DEFINE m == 4
                key == task_keys(stream)
    <3>1. m \in Nat \ {0} /\ key \in [1 .. 0 -> 0 .. m - 1]
      BY <1>1 DEF task_keys
    <3>. HIDE DEF m, key
    <3>2. IsLeft(balanced(m), m, key, 0)
      BY <3>1, NoneTaken
    <3>. QED  BY <3>2 DEF m, key
  <2>4. IsLeft(balanced(Docs), Docs, doc_keys(stream), 0)
    <3>. DEFINE key == doc_keys(stream)
    <3>1. Docs \in Nat \ {0} /\ key \in [1 .. 0 -> 0 .. Docs - 1]
      BY <1>1, CountIsNat DEF doc_keys
    <3>. HIDE DEF key
    <3>2. IsLeft(balanced(Docs), Docs, key, 0)
      BY <3>1, NoneTaken
    <3>. QED  BY <3>2 DEF key
  <2>. QED  BY <1>1, <2>2, <2>3, <2>4 DEF UniformInv
<1>3. ASSUME shape = "regime_bursty_session" PROVE BurstInv
  <2>1. PICK p \in Permutations_of(Sessions) :
            drawn = [order |-> p, burst |-> 0, length |-> 0, turn |-> 0, offset |-> 0]
    BY <1>1, <1>3 DEF initial_draws
  <2>2. drawn \in Bursts /\ drawn.burst = 0 /\ drawn.turn = 0
    BY <2>1 DEF Bursts
  <2>. QED  BY <1>1, <2>2 DEF BurstInv
<1>4. ASSUME shape = "regime_phase_shift" PROVE PhaseInv /\ PhaseTasksInv
  <2>1. PhaseInv
    BY <1>1 DEF PhaseInv
  <2>2. drawn.tasks = phase_block(0) /\ midpoint \in Nat
    BY <1>1, <1>4, CountIsNat DEF initial_draws, midpoint
  <2>3. 0 < midpoint => drawn.tasks = First
    BY <2>2 DEF phase_block, First
  <2>4. InBlocks(First, First, tasks_after(stream, 0), 0)
    BY NewBlock, TheBlocks
  <2>5. PhaseTasksInv
    <3>1. CASE 0 < midpoint
      <4>1. ~(0 >= midpoint) /\ ~(0 > midpoint) /\ Len(stream) - 0 = 0 /\ Len(stream) = 0
        BY <1>1, <2>2, <3>1
      <4>. QED  BY <2>3, <2>4, <3>1, <4>1 DEF PhaseTasksInv
    <3>2. CASE 0 = midpoint
      <4>1. midpoint - 0 = 0 /\ ~(0 < midpoint) /\ ~(0 > midpoint) /\ Len(stream) = 0
        BY <1>1, <3>2
      <4>. QED  BY <2>4, <4>1 DEF PhaseTasksInv
    <3>. QED  BY <2>2, <3>1, <3>2
  <2>. QED  BY <2>1, <2>5
<1>5. ASSUME shape = "regime_adversarial_churn" PROVE ChurnInv
  <2>1. PICK p \in Permutations_of(4), d \in 0 .. churn_docs - 1, s \in 0 .. Sessions - 1 :
            drawn = [order |-> p, doc |-> d, session |-> s]
    BY <1>1, <1>5 DEF initial_draws
  <2>2. drawn.order = p /\ drawn.doc = d /\ drawn.session = s
    BY <2>1
  <2>. QED  BY <1>1, <2>1, <2>2 DEF ChurnInv
<1>6. ASSUME shape = "regime_zipfian" PROVE ZipfInv
  <2>1. drawn = [tasks |-> zipfian_block]
    BY <1>1, <1>6 DEF initial_draws
  <2>2. drawn.tasks = zipfian_block /\ Len(stream) - 0 = 0
    BY <1>1, <2>1
  <2>3. InBlocks(zipfian_block, zipfian_block, tasks_after(stream, 0), 0)
    BY NewBlock, TheBlocks
  <2>. QED  BY <2>2, <2>3 DEF ZipfInv
<1>. QED  BY <1>1, <1>2, <1>3, <1>4, <1>5, <1>6 DEF RegimeInv

\* Generating keeps it; routing changes nothing it speaks of.
LEMMA RegimeInvKept == RegimeInv /\ [Next]_vars => RegimeInv'
<1> SUFFICES ASSUME RegimeInv, [Next]_vars PROVE RegimeInv'
  OBVIOUS
<1>1. CASE GenerateRequest
  <2>1. Generate
    BY <1>1 DEF GenerateRequest
  <2>2. PICK S : stream \in Seq(S)
    BY DEF RegimeInv
  <2>3. shape' = shape
    BY <2>1 DEF Generate
  <2>4. \E T : stream' \in Seq(T)
    BY <2>1, <2>2, GenerateOne
  <2>5. shape = "regime_uniform" => UniformInv'
    BY <2>1, <2>2, UniformStep DEF RegimeInv
  <2>6. shape = "regime_bursty_session" => BurstInv'
    BY <2>1, <2>2, BurstStep DEF RegimeInv
  <2>7. shape = "regime_phase_shift" => PhaseInv' /\ PhaseTasksInv'
    BY <2>1, <2>2, PhaseStep, PhaseTasksStep DEF RegimeInv
  <2>8. shape = "regime_adversarial_churn" => ChurnInv'
    BY <2>1, <2>2, ChurnStep DEF RegimeInv
  <2>9. shape = "regime_zipfian" => ZipfInv'
    BY <2>1, <2>2, ZipfStep DEF RegimeInv
  <2>. QED  BY <2>3, <2>4, <2>5, <2>6, <2>7, <2>8, <2>9 DEF RegimeInv
<1>2. CASE UNCHANGED <<shape, stream, drawn>>
  <2>1. UniformInv => UniformInv'
    BY <1>2 DEF UniformInv, IsLeft, task_keys, doc_keys, Uses, balanced
  <2>2. BurstInv => BurstInv'
    BY <1>2 DEF BurstInv, InBurst, Bursts, Shortest, same_session_transitions, transitions
  <2>3. PhaseInv => PhaseInv'
    BY <1>2 DEF PhaseInv, midpoint, phase_docs
  <2>4. ChurnInv => ChurnInv'
    BY <1>2 DEF ChurnInv, churn_docs
  <2>5. ZipfInv => ZipfInv'
    BY <1>2 DEF ZipfInv, zipfian_block, tasks_after
  <2>6. PhaseTasksInv => PhaseTasksInv'
    BY <1>2 DEF PhaseTasksInv, First, Second, tasks_after, midpoint
  <2>. QED  BY <1>2, <2>1, <2>2, <2>3, <2>4, <2>5, <2>6 DEF RegimeInv
<1>3. CASE RouteRequest
  BY <1>2, <1>3 DEF RouteRequest
<1>4. CASE UNCHANGED vars
  BY <1>2, <1>4 DEF vars
<1>. QED  BY <1>1, <1>3, <1>4 DEF Next

(***************************************************************************)
(* workloads/generator.py: whatever is drawn and however many requests     *)
(* there are, each regime has the structure it is named for, and the       *)
(* structure metrics of bench/workload_metrics.py say so.                  *)
(***************************************************************************)
THEOREM RegimesHaveStructure == Spec => []RegimeStructure
<1>1. RegimeInv => RegimeStructure
  <2>. SUFFICES ASSUME RegimeInv, Len(stream) = planned_request_count
                PROVE RegimeStructure
    BY DEF RegimeStructure
  <2>1. PICK S : stream \in Seq(S)
    BY DEF RegimeInv
  <2>2. shape # "jsonl_eval" => Len(stream) = Count
    BY CountIsNat
  <2>3. CASE shape = "regime_uniform"
    <3>1. UniformInv /\ Len(stream) = Count
      BY <2>2, <2>3 DEF RegimeInv
    <3>. QED  BY <2>1, <2>3, <3>1, UniformStructure DEF RegimeStructure
  <2>4. CASE shape = "regime_bursty_session"
    <3>1. BurstInv /\ Len(stream) = Count
      BY <2>2, <2>4 DEF RegimeInv
    <3>. QED  BY <2>1, <2>4, <3>1, BurstStructure DEF RegimeStructure
  <2>5. CASE shape = "regime_phase_shift"
    <3>1. PhaseInv /\ PhaseTasksInv /\ Len(stream) = Count
      BY <2>2, <2>5 DEF RegimeInv
    <3>2. midpoint \in Nat /\ 0 <= midpoint /\ midpoint <= Len(stream) /\ Len(stream) \in Nat
      BY <3>1, CountIsNat DEF midpoint
    <3>3. in_blocks(First, 11, 0, midpoint)
      <4>1. PICK b : InBlocks(b, First, tasks_after(stream, 0), midpoint - 0)
        BY <3>1, <3>2 DEF PhaseTasksInv
      <4>2. in_blocks(First, Size(First), 0, midpoint)
        BY <2>1, <3>2, <4>1, BlocksGiveStructure, TheBlocks
      <4>. QED  BY <4>2, TheBlocks
    <3>4. in_blocks(Second, 11, midpoint, Len(stream))
      <4>1. PICK b : InBlocks(b, Second, tasks_after(stream, midpoint), Len(stream) - midpoint)
        <5>1. CASE Len(stream) > midpoint
          BY <3>1, <5>1 DEF PhaseTasksInv
        <5>2. CASE Len(stream) = midpoint
          <6>1. Len(stream) - midpoint = 0
            BY <3>2, <5>2
          <6>. QED  BY <6>1, NewBlock, TheBlocks
        <5>. QED  BY <3>2, <5>1, <5>2
      <4>2. in_blocks(Second, Size(Second), midpoint, Len(stream))
        BY <2>1, <3>2, <4>1, BlocksGiveStructure, TheBlocks
      <4>. QED  BY <4>2, TheBlocks
    <3>. QED  BY <2>1, <2>5, <3>1, <3>3, <3>4, PhaseStructure DEF RegimeStructure, First, Second
  <2>6. CASE shape = "regime_adversarial_churn"
    <3>1. ChurnInv /\ Len(stream) = Count
      BY <2>2, <2>6 DEF RegimeInv
    <3>. QED  BY <2>1, <2>6, <3>1, ChurnStructure DEF RegimeStructure
  <2>7. CASE shape = "regime_zipfian"
    <3>1. ZipfInv /\ Len(stream) \in Nat /\ 0 <= Len(stream)
      BY <2>1, <2>7, LenProperties DEF RegimeInv
    <3>2. in_blocks(zipfian_block, Size(zipfian_block), 0, Len(stream))
      BY <2>1, <3>1, BlocksGiveStructure, TheBlocks DEF ZipfInv
    <3>3. in_blocks(zipfian_block, 22, 0, Len(stream))
      BY <3>2, TheBlocks
    <3>. QED  BY <2>7, <3>3 DEF RegimeStructure, zipfian_block
  <2>8. CASE shape \notin {"regime_uniform", "regime_zipfian", "regime_bursty_session",
                           "regime_phase_shift", "regime_adversarial_churn"}
    BY <2>8 DEF RegimeStructure
  <2>. QED  BY <2>3, <2>4, <2>5, <2>6, <2>7, <2>8
<1>. QED  BY <1>1, RegimeInit, RegimeInvKept, PTL DEF Spec
==============================================================================
