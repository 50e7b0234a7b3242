-------------------------------- MODULE EditorProofs --------------------------------
(***************************************************************************)
(* What the modification times of the text editor do guarantee, for any    *)
(* number of windows and any length of time.                               *)
(***************************************************************************)
EXTENDS Editor, TLAPS

Clocks ==
    /\ now \in Nat /\ mtime \in Nat /\ mtime <= now
    /\ pc \in [Editors -> {"closed", "read", "open", "write", "stat"}]
    /\ known \in [Editors -> Nat]
    /\ late \in [Editors -> SUBSET Nat]

\* The strengthening: what others wrote since an editor was told the time lies
\* between that and the time of the file, and if they wrote nothing the two
\* are the same, unless the editor has just written itself.
Bracketed == \A e \in Editors : known[e] <= mtime /\ late[e] \subseteq known[e] .. mtime
InTouch == \A e \in Editors : late[e] = {} /\ pc[e] # "stat" => known[e] = mtime

IInv == Clocks /\ Bracketed /\ InTouch

\* Everyone starts with the time of a file nobody has written.
LEMMA InitIInv == Init => IInv
BY DEF Init, IInv, Clocks, Bracketed, InTouch

\* Being told the time starts the account of an editor afresh.
LEMMA ToldKeepsIInv ==
    ASSUME IInv, NEW e \in Editors, NEW from \in {"closed", "stat"}, NEW to \in {"read", "open"},
           GoTo(e, from, to), Told(e), UNCHANGED <<mtime, now>>
    PROVE  IInv'
BY DEF IInv, Clocks, Bracketed, InTouch, GoTo, Told

\* A step that neither writes nor asks for the time.
LEMMA QuietKeepsIInv ==
    ASSUME IInv, NEW e \in Editors, NEW from \in {"closed", "read", "open", "write"},
           NEW to \in {"closed", "read", "open", "write"},
           GoTo(e, from, to), UNCHANGED <<mtime, now, known, late>>
    PROVE  IInv'
BY DEF IInv, Clocks, Bracketed, InTouch, GoTo

\* Every step of every editor, of the other writers and of the clock keeps it.
LEMMA NextIInv == IInv /\ [Next]_vars => IInv'
<1> SUFFICES ASSUME IInv, [Next]_vars PROVE IInv'
  OBVIOUS
<1>1. ASSUME NEW e \in Editors, LoadStat(e) \/ SaveStat(e) PROVE IInv'
  BY <1>1, ToldKeepsIInv DEF LoadStat, SaveStat
<1>2. ASSUME NEW e \in Editors, LoadRead(e) \/ SaveCheck(e) \/ SaveRefused(e) \/ Close(e)
      PROVE  IInv'
  BY <1>2, QuietKeepsIInv DEF LoadRead, SaveCheck, SaveRefused, Close
<1>3. ASSUME NEW e \in Editors, SaveWrite(e) PROVE IInv'
  <2>1. Clocks'
    BY <1>3 DEF IInv, Clocks, SaveWrite, GoTo, Writes
  <2>2. Bracketed'
    <3> SUFFICES ASSUME NEW d \in Editors
                 PROVE  known[d] <= now /\ late'[d] \subseteq known[d] .. now
      BY <1>3 DEF Bracketed, SaveWrite, Writes
    <3>1. known[d] <= mtime /\ known[d] \in Nat /\ late[d] \subseteq known[d] .. mtime
      BY DEF IInv, Clocks, Bracketed
    <3>2. late'[d] \subseteq late[d] \union {now}
      BY <1>3 DEF SaveWrite, Writes
    <3>3. QED
      BY <3>1, <3>2 DEF IInv, Clocks
  <2>3. InTouch'
    BY <1>3 DEF IInv, Clocks, InTouch, SaveWrite, GoTo, Writes
  <2>4. QED
    BY <2>1, <2>2, <2>3 DEF IInv
<1>4. CASE OtherWrite
  <2>1. Clocks'
    BY <1>4 DEF IInv, Clocks, OtherWrite
  <2>2. Bracketed'
    BY <1>4 DEF IInv, Clocks, Bracketed, OtherWrite
  <2>3. InTouch'
    BY <1>4 DEF IInv, Clocks, InTouch, OtherWrite
  <2>4. QED
    BY <2>1, <2>2, <2>3 DEF IInv
<1>5. CASE Tick
  BY <1>5 DEF IInv, Clocks, Bracketed, InTouch, Tick
<1>6. CASE UNCHANGED vars
  BY <1>6 DEF IInv, Clocks, Bracketed, InTouch, vars
<1>7. QED
  BY <1>1, <1>2, <1>3, <1>4, <1>5, <1>6 DEF Next, Edit

\* The invariant holds throughout.
LEMMA AlwaysIInv == Spec => []IInv
BY InitIInv, NextIInv, PTL DEF Spec

\* savefile.go: of what others wrote since an editor was told the time, a save
\* that passes the comparison of the times can only cover up what is of that
\* second, or written after the comparison.
THEOREM ChecksAlways == Spec => CheckSeesOtherSeconds
<1>1. ASSUME IInv, NEW e \in Editors, SaveCheck(e) PROVE late[e] \subseteq {known[e]}
  BY <1>1 DEF IInv, Clocks, Bracketed, SaveCheck, Unmodified
<1>2. IInv /\ [Next]_vars =>
        [\A e \in Editors : SaveCheck(e) => late[e] \subseteq {known[e]}]_vars
  BY <1>1
<1>3. QED
  BY <1>2, AlwaysIInv, PTL DEF Spec, CheckSeesOtherSeconds

\* savefile.go: errFileModified is only sent when someone else has written the
\* file since the editor was last told its time, by a load or by a save.
THEOREM RefusalsAlways == Spec => NoSpuriousRefusal
<1>1. ASSUME IInv, NEW e \in Editors, SaveRefused(e) PROVE late[e] # {}
  BY <1>1 DEF IInv, InTouch, SaveRefused, GoTo, Unmodified
<1>2. IInv /\ [Next]_vars => [\A e \in Editors : SaveRefused(e) => late[e] # {}]_vars
  BY <1>1
<1>3. QED
  BY <1>2, AlwaysIInv, PTL DEF Spec, NoSpuriousRefusal
=============================================================================
