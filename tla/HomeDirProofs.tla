------------------------------ MODULE HomeDirProofs ------------------------------
(***************************************************************************)
(* Provisioning is correct for every set of requests and every number of   *)
(* faults.                                                                 *)
(***************************************************************************)
EXTENDS HomeDir, TLAPS

\* The strengthening: whoever is past CreateUser has made exactly what comes
\* before its step.
Frontier == \A r \in Requests : Builds(r) => made = 1 .. (step[r] - 1)

IInv == TypeOK /\ OneBuilder /\ MadeInOrder /\ Frontier

\* Initially nothing exists and nobody builds.
LEMMA InitIInv == Init => IInv
BY MaxFaultsIsNat
   DEF Init, IInv, TypeOK, OneBuilder, MadeInOrder, Frontier, Builds, Chain, UserRow

\* A request that has returned, or is at CreateUser, does not build.
LEMMA NotBuilding ==
    ASSUME TypeOK, NEW r \in Requests, NEW w \in {"idle", "check", "make", "serve"},
           GoTo(r, w, UserRow)
    PROVE  /\ ~Builds(r)'
           /\ \A q \in Requests \ {r} : Builds(q)' <=> Builds(q)
           /\ \A q \in Requests \ {r} : step'[q] = step[q]
BY DEF TypeOK, GoTo, Builds, UserRow, Chain

\* Steps that make nothing and end or restart a request keep the invariant.
LEMMA StopKeepsIInv ==
    ASSUME IInv, NEW r \in Requests, NEW w \in {"idle", "check", "make", "serve"},
           GoTo(r, w, UserRow), made' = made, faults' \in 0..MaxFaults
    PROVE  IInv'
<1>1. TypeOK'
  BY DEF IInv, TypeOK, GoTo, UserRow, Chain
<1>2. /\ ~Builds(r)'
      /\ \A q \in Requests \ {r} : Builds(q)' <=> Builds(q)
      /\ \A q \in Requests \ {r} : step'[q] = step[q]
  BY NotBuilding DEF IInv
<1>3. OneBuilder'
  BY <1>2 DEF IInv, OneBuilder
<1>4. MadeInOrder'
  BY DEF IInv, MadeInOrder
<1>5. Frontier'
  BY <1>2 DEF IInv, Frontier
<1>6. QED
  BY <1>1, <1>3, <1>4, <1>5 DEF IInv

\* What exists when a request may make its artefact: everything before it, and
\* nothing else.
LEMMA MadeBeforeStep ==
    ASSUME IInv, NEW r \in Requests, pc[r] = "make", CanMake(step[r])
    PROVE  /\ made = 1 .. (step[r] - 1)
           /\ \A q \in Requests \ {r} : ~Builds(q)
<1>0. step[r] \in 1..7
  BY DEF IInv, TypeOK, Chain
<1>1. CASE step[r] = 1
  <2>1. made = {}
    BY <1>1 DEF IInv, TypeOK, MadeInOrder, CanMake, Chain
  <2>2. \A q \in Requests : ~Builds(q)
    <3> SUFFICES ASSUME NEW q \in Requests, Builds(q)
                 PROVE  FALSE
      OBVIOUS
    <3>1. made = 1 .. (step[q] - 1) /\ step[q] \in 2..7
      BY DEF IInv, Frontier, Builds, TypeOK, Chain, UserRow
    <3>2. 1 \in made
      BY <3>1
    <3>3. QED
      BY <3>2, <2>1
  <2>3. QED
    BY <1>1, <2>1, <2>2
<1>2. CASE step[r] > 1
  <2>1. Builds(r)
    BY <1>2 DEF Builds, UserRow
  <2>2. QED
    BY <2>1 DEF IInv, Frontier, OneBuilder
<1>3. QED
  BY <1>0, <1>1, <1>2

\* Adding the artefact at the frontier keeps the order of the chain.
LEMMA ExtendKeepsOrder ==
    ASSUME NEW i \in Chain, made = 1 .. (i - 1), made' = made \union {i}
    PROVE  made' = 1 .. i /\ made' \subseteq Chain /\ MadeInOrder'
BY DEF MadeInOrder, Chain

\* Making an artefact moves the frontier by one.
LEMMA MakeKeepsIInv ==
    ASSUME IInv, NEW r \in Requests, Make(r)
    PROVE  IInv'
<1>0. step[r] \in Chain /\ pc[r] = "make" /\ CanMake(step[r])
  BY DEF Make, IInv, TypeOK
<1>1. made = 1 .. (step[r] - 1) /\ \A q \in Requests \ {r} : ~Builds(q)
  BY <1>0, MadeBeforeStep
<1>2. made' = 1 .. step[r] /\ made' \subseteq Chain /\ MadeInOrder'
  BY <1>0, <1>1, ExtendKeepsOrder DEF Make
<1>3. \A q \in Requests \ {r} : ~Builds(q)'
  BY <1>0, <1>1 DEF Make, Advance, GoTo, Builds, IInv, TypeOK
<1>4. TypeOK'
  BY <1>0, <1>2 DEF Make, Advance, GoTo, IInv, TypeOK, Chain, UserRow
<1>5. OneBuilder'
  BY <1>3 DEF OneBuilder
<1>6. Frontier'
  <2>1. CASE step[r] = 7
    BY <2>1, <1>3 DEF Make, Advance, GoTo, IInv, TypeOK, Frontier, Builds, UserRow
  <2>2. CASE step[r] # 7
    <3>1. step'[r] = step[r] + 1
      BY <2>2 DEF Make, Advance, GoTo, IInv, TypeOK
    <3>2. made' = 1 .. (step'[r] - 1)
      BY <3>1, <1>0, <1>2 DEF Chain
    <3>3. QED
      BY <3>2, <1>3 DEF Frontier
  <2>3. QED
    BY <2>1, <2>2
<1>7. QED
  BY <1>2, <1>4, <1>5, <1>6 DEF IInv

\* A step that fails ends its request, with or without its artefact.
LEMMA FaultKeepsIInv ==
    ASSUME IInv, NEW r \in Requests, Fault(r)
    PROVE  IInv'
<1>0. GoTo(r, "idle", UserRow) /\ faults' \in 0..MaxFaults
  BY MaxFaultsIsNat DEF Fault, GiveUp, IInv, TypeOK
<1>1. CASE made' = made
  BY <1>0, <1>1, StopKeepsIInv
<1>2. CASE pc[r] = "make" /\ CanMake(step[r]) /\ made' = made \union {step[r]}
  <2>0. step[r] \in Chain
    BY DEF IInv, TypeOK
  <2>1. made = 1 .. (step[r] - 1) /\ \A q \in Requests \ {r} : ~Builds(q)
    BY <1>2, MadeBeforeStep
  <2>2. made' \subseteq Chain /\ MadeInOrder'
    BY <1>2, <2>0, <2>1, ExtendKeepsOrder
  <2>3. \A q \in Requests : ~Builds(q)'
    BY <1>0, <2>1, NotBuilding DEF IInv
  <2>4. TypeOK'
    BY <1>0, <2>2 DEF GoTo, IInv, TypeOK, Chain, UserRow
  <2>5. QED
    BY <2>2, <2>3, <2>4 DEF IInv, OneBuilder, Frontier
<1>3. QED
  BY <1>1, <1>2 DEF Fault

\* After a crash nobody builds and nothing is lost.
LEMMA CrashKeepsIInv ==
    ASSUME IInv, Crash
    PROVE  IInv'
<1>1. TypeOK'
  BY MaxFaultsIsNat DEF Crash, IInv, TypeOK, Chain, UserRow
<1>2. \A q \in Requests : ~Builds(q)'
  BY DEF Crash, Builds
<1>3. QED
  BY <1>1, <1>2 DEF Crash, IInv, OneBuilder, Frontier, MadeInOrder

\* Every step of every request keeps the invariant.
LEMMA NextIInv == IInv /\ [Next]_vars => IInv'
<1> SUFFICES ASSUME IInv, [Next]_vars
             PROVE  IInv'
  OBVIOUS
<1>1. CASE Crash
  BY <1>1, CrashKeepsIInv
<1>2. ASSUME NEW r \in Requests, Arrive(r) \/ Check(r) \/ Refused(r) \/ Serve(r)
      PROVE  IInv'
  <2>1. made' = made /\ faults' \in 0..MaxFaults
    BY <1>2 DEF Arrive, Check, Refused, Serve, IInv, TypeOK
  <2>2. \E w \in {"idle", "check", "make", "serve"} : GoTo(r, w, UserRow)
    BY <1>2 DEF Arrive, Check, Refused, Serve
  <2>3. QED
    BY <2>1, <2>2, StopKeepsIInv
<1>3. ASSUME NEW r \in Requests, Make(r)
      PROVE  IInv'
  BY <1>3, MakeKeepsIInv
<1>4. ASSUME NEW r \in Requests, Fault(r)
      PROVE  IInv'
  BY <1>4, FaultKeepsIInv
<1>5. CASE UNCHANGED vars
  BY <1>5 DEF vars, IInv, TypeOK, OneBuilder, MadeInOrder, Frontier, Builds
<1>6. QED
  BY <1>1, <1>2, <1>3, <1>4, <1>5 DEF Next, Handle

\* The inductive invariant holds in every reachable state.
THEOREM Inductive == Spec => []IInv
BY InitIInv, NextIInv, PTL DEF Spec

\* The variables keep their types.
THEOREM TypeCorrect == Spec => []TypeOK
<1>1. IInv => TypeOK
  BY DEF IInv
<1>2. QED
  BY <1>1, Inductive, PTL

\* However many logins of a new user race and whatever fails, at most one of
\* them builds the home.
THEOREM OneBuilderAlways == Spec => []OneBuilder
<1>1. IInv => OneBuilder
  BY DEF IInv
<1>2. QED
  BY <1>1, Inductive, PTL

\* Rows and directories of the home only ever appear in the order of the code.
THEOREM MadeInOrderAlways == Spec => []MadeInOrder
<1>1. IInv => MadeInOrder
  BY DEF IInv
<1>2. QED
  BY <1>1, Inductive, PTL

\* The one that builds is never refused by an INSERT or a mkdir.
THEOREM BuilderUnopposedAlways == Spec => []BuilderUnopposed
<1>1. IInv => BuilderUnopposed
  <2> SUFFICES ASSUME IInv, NEW r \in Requests, Builds(r)
               PROVE  CanMake(step[r])
    BY DEF BuilderUnopposed
  <2>1. made = 1 .. (step[r] - 1) /\ step[r] \in 1..7
    BY DEF IInv, Frontier, TypeOK, Chain
  <2>2. QED
    BY <2>1 DEF CanMake
<1>2. QED
  BY <1>1, Inductive, PTL
-----------------------------------------------------------------------------
\* With nothing made nobody is past CreateUser, and the other way round.
LEMMA BuildsNeedsUserRow ==
    ASSUME IInv, NEW r \in Requests, Builds(r)
    PROVE  UserRow \in made /\ made # Chain
<1>1. made = 1 .. (step[r] - 1) /\ step[r] \in 2..7
  BY DEF IInv, Frontier, Builds, TypeOK, Chain, UserRow
<1>2. 1 \in made /\ 7 \notin made
  BY <1>1
<1>3. QED
  BY <1>2 DEF Chain, UserRow

\* An incomplete home that nobody builds stays as it is: CreateUser refuses.
LEMMA AbandonedUntouched ==
    ASSUME IInv, made # {}, \A r \in Requests : ~Builds(r),
           NEW r \in Requests, pc[r] = "make"
    PROVE  ~CanMake(step[r])
<1>1. step[r] = 1
  BY DEF IInv, TypeOK, Builds, Chain, UserRow
<1>2. PICK i \in made : i \in 1..7
  BY DEF IInv, TypeOK, Chain
<1>3. i = 1 \/ 1 < i
  BY <1>2
<1>4. 1 \in made
  BY <1>2, <1>3 DEF IInv, MadeInOrder, Chain
<1>5. QED
  BY <1>1, <1>4 DEF CanMake

\* Every step of provisioning is a step of the life cycle or leaves it alone.
LEMMA StepRefines == IInv /\ IInv' /\ [Next]_vars => [Lifecycle!LNext]_home
<1> SUFFICES ASSUME IInv, IInv', [Next]_vars
             PROVE  [Lifecycle!LNext]_home
  OBVIOUS
<1> USE DEF Lifecycle!LNext, Lifecycle!Begin, Lifecycle!Complete, Lifecycle!Abandon
<1>0. Chain # {} /\ 7 \in Chain /\ 1 \in Chain
  BY DEF Chain
<1>1. CASE Crash
  <2>1. \A r \in Requests : ~Builds(r)'
    BY <1>1 DEF Crash, Builds
  <2>2. made' = made
    BY <1>1 DEF Crash
  <2>3. QED
    BY <2>1, <2>2 DEF home
<1>2. ASSUME NEW r \in Requests, Arrive(r) \/ Check(r) \/ Refused(r) \/ Serve(r)
      PROVE  home' = home
  <2>1. made' = made
    BY <1>2 DEF Arrive, Check, Refused, Serve
  <2>2. \E w \in {"idle", "check", "make", "serve"} : GoTo(r, w, UserRow)
    BY <1>2 DEF Arrive, Check, Refused, Serve
  <2>3. ~Builds(r)' /\ \A q \in Requests \ {r} : Builds(q)' <=> Builds(q)
    BY <2>2, NotBuilding DEF IInv
  <2>4. ~Builds(r)
    <3>1. CASE Refused(r)
      <4>1. Builds(r) => made = 1 .. (step[r] - 1) /\ step[r] \in 1..7
        BY DEF IInv, Frontier, TypeOK, Chain
      <4>2. QED
        BY <3>1, <4>1 DEF Refused, CanMake
    <3>2. CASE Arrive(r) \/ Check(r) \/ Serve(r)
      BY <3>2 DEF Arrive, Check, Serve, Builds
    <3>3. QED
      BY <1>2, <3>1, <3>2
  <2>5. (\E q \in Requests : Builds(q))' <=> (\E q \in Requests : Builds(q))
    BY <2>3, <2>4
  <2>6. QED
    BY <2>1, <2>5 DEF home
<1>3. ASSUME NEW r \in Requests, Make(r)
      PROVE  [Lifecycle!LNext]_home
  <2>0. pc[r] = "make" /\ CanMake(step[r]) /\ step[r] \in 1..7 /\ made' # {}
        /\ made' = made \union {step[r]}
    BY <1>3 DEF Make, IInv, TypeOK, Chain
  <2>1. made # Chain
    BY <2>0 DEF CanMake, Chain
  <2>2. home \in {"absent", "building"}
    BY <2>0, <2>1, AbandonedUntouched DEF home
  <2>3. CASE step[r] = 7
    <3>1. 7 \in made' /\ made' = Chain
      <4>1. 7 \in made'
        BY <2>0, <2>3
      <4>2. \A j \in Chain : j = 7 \/ j < 7
        BY DEF Chain
      <4>3. \A j \in Chain : j \in made'
        BY <4>1, <4>2 DEF IInv, MadeInOrder
      <4>4. made' \subseteq Chain
        BY DEF IInv, TypeOK
      <4>5. QED
        BY <4>1, <4>3, <4>4
    <3>2. Builds(r)
      BY <2>0, <2>3 DEF Builds, UserRow
    <3>3. home = "building"
      BY <3>2, BuildsNeedsUserRow DEF home
    <3>4. home' = "ready"
      BY <3>1, <1>0 DEF home
    <3>5. QED
      BY <3>3, <3>4
  <2>4. CASE step[r] # 7
    <3>1. Builds(r)'
      BY <2>0, <2>4, <1>3 DEF Make, Advance, GoTo, Builds, IInv, TypeOK, UserRow
    <3>2. pc'[r] = "make" /\ step'[r] > 1 /\ step'[r] \in Chain
      BY <3>1 DEF Builds, IInv, TypeOK, UserRow
    <3>3. made' = 1 .. (step'[r] - 1)
      BY <3>1 DEF IInv, Frontier
    <3>4. 7 \notin made'
      BY <3>2, <3>3 DEF Chain
    <3>5. home' = "building"
      BY <2>0, <3>1, <3>4, <1>0 DEF home
    <3>6. QED
      BY <2>2, <3>5
  <2>5. QED
    BY <2>3, <2>4
<1>4. ASSUME NEW r \in Requests, Fault(r)
      PROVE  [Lifecycle!LNext]_home
  <2>0. GoTo(r, "idle", UserRow)
    BY <1>4 DEF Fault, GiveUp
  <2>1. ~Builds(r)' /\ \A q \in Requests \ {r} : Builds(q)' <=> Builds(q)
    BY <2>0, NotBuilding DEF IInv
  <2>2. CASE made' = made
    <3>1. CASE Builds(r)
      <4>1. home = "building"
        BY <3>1, BuildsNeedsUserRow DEF home
      <4>2. \A q \in Requests : ~Builds(q)'
        BY <3>1, <2>1 DEF IInv, OneBuilder
      <4>3. home' = "abandoned"
        BY <2>2, <4>2, <3>1, BuildsNeedsUserRow DEF home
      <4>4. QED
        BY <4>1, <4>3
    <3>2. CASE ~Builds(r)
      <4>1. (\E q \in Requests : Builds(q))' <=> (\E q \in Requests : Builds(q))
        BY <3>2, <2>1
      <4>2. home' = home
        BY <2>2, <4>1 DEF home
      <4>3. QED
        BY <4>2
    <3>3. QED
      BY <3>1, <3>2
  <2>3. CASE pc[r] = "make" /\ CanMake(step[r]) /\ made' = made \union {step[r]}
    <3>0. step[r] \in Chain
      BY DEF IInv, TypeOK
    <3>1. made # Chain /\ made' # {}
      BY <2>3, <3>0 DEF CanMake
    <3>2. home \in {"absent", "building"}
      BY <2>3, <3>1, AbandonedUntouched DEF home
    <3>3. \A q \in Requests : ~Builds(q)'
      BY <2>1, <2>3, MadeBeforeStep
    <3>4. home' \in {"ready", "abandoned"}
      BY <3>1, <3>3 DEF home
    <3>5. CASE home' = "abandoned"
      BY <3>2, <3>5
    <3>6. CASE home' = "ready"
      <4>1. made' = Chain
        BY <3>6, <3>1 DEF home
      <4>2. made # {}
        <5>1. 1 \in made \union {step[r]} /\ 7 \in made \union {step[r]}
          BY <4>1, <2>3, <1>0
        <5>2. QED
          BY <5>1
      <4>3. home = "building"
        BY <3>2, <4>2 DEF home
      <4>4. QED
        BY <3>6, <4>3
    <3>7. QED
      BY <3>4, <3>5, <3>6
  <2>4. QED
    BY <1>4, <2>2, <2>3 DEF Fault
<1>5. CASE UNCHANGED vars
  BY <1>5 DEF vars, home, Builds
<1>6. QED
  BY <1>1, <1>2, <1>3, <1>4, <1>5 DEF Next, Handle

\* Provisioning implements its life cycle: a home is built once, or given up
\* and never touched again.
THEOREM Refines == Spec => BuiltOnceOrAbandoned
<1>1. Init => Lifecycle!LInit
  BY DEF Init, Lifecycle!LInit, home
<1>2. QED
  BY <1>1, StepRefines, Inductive, PTL DEF Spec, BuiltOnceOrAbandoned, Lifecycle!LSpec
=============================================================================
